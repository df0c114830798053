---------------------------- MODULE ListadoProofs ---------------------------
(***************************************************************************)
(* Proofs about the answer to USERS for any users, addresses, ports and    *)
(* names, whatever ";" these have: what the folds of Listado compute, that *)
(* the text fits in the buffer, and what a client makes of it.             *)
(***************************************************************************)
EXTENDS Listado, GestionProofs, Induccion, FiniteSetTheorems

-----------------------------------------------------------------------------
\* Folds over a sequence of length n, as the library defines them: by taking the
\* greatest place away.
LEMMA MaxDe ==
  ASSUME NEW n \in Nat, NEW s \in SUBSET (1..n), s # {}
  PROVE  Max(s) \in s
<1> DEFINE T == {n - x : x \in s}
<1>1. \A x \in s : x \in Nat /\ x <= n /\ n - x \in Nat
  OBVIOUS
<1>2. T \in SUBSET Nat /\ T # {}
  BY <1>1
<1>3. PICK y \in T : \A z \in T : y <= z
  <2> HIDE DEF T
  <2> QED
    BY <1>2, Minimo
<1>4. PICK x \in s : y = n - x
  BY <1>3
<1>5. \A z \in s : x >= z
  <2> SUFFICES ASSUME NEW z \in s PROVE x >= z
    OBVIOUS
  <2>1. n - x <= n - z
    BY <1>3, <1>4
  <2> QED
    BY <1>1, <2>1
<1> QED
  BY <1>5 DEF Max

LEMMA MaxTramo ==
  ASSUME NEW k \in Nat, k # 0
  PROVE  Max(1..k) = k /\ (1..k) \ {k} = 1..(k - 1) /\ 1..k # {}
<1>1. k \in 1..k
  OBVIOUS
<1>2. Max(1..k) \in 1..k
  BY <1>1, MaxDe
<1>3. (CHOOSE x \in 1..k : \A y \in 1..k : x >= y) = k
  <2>1. \A y \in 1..k : k >= y
    OBVIOUS
  <2>2. \A x \in 1..k : (\A y \in 1..k : x >= y) => x = k
    BY <1>1
  <2> QED
    BY <1>1, <2>1, <2>2
<1>4. Max(1..k) = k
  BY <1>3 DEF Max
<1>5. (1..k) \ {k} = 1..(k - 1)
  OBVIOUS
<1> QED
  BY <1>1, <1>4, <1>5

LEMMA Tramo ==
  ASSUME NEW n \in Nat, NEW k \in 1..n
  PROVE  Max(1..k) = k /\ (1..k) \ {k} = 1..(k - 1) /\ 1..k # {}
<1>1. k \in Nat /\ k # 0
  OBVIOUS
<1> QED
  BY <1>1, MaxTramo

\* f is a fold over the places of a sequence of length n, from b by the step h.
EsPliegue(f, n, b, h) ==
  \A s \in SUBSET (1..n) : f[s] = IF s = {} THEN b ELSE h[<<Max(s), f[s \ {Max(s)}]>>]

HayPliegue(n, S, b, h) == \E f \in [SUBSET (1..n) -> S] : EsPliegue(f, n, b, h)

\* The function that such a fold chooses exists, whatever step h it takes.
LEMMA PliegueExiste ==
  ASSUME NEW n \in Nat, NEW S, NEW b \in S, NEW h \in [(1..n) \X S -> S]
  PROVE  HayPliegue(n, S, b, h)
<1> DEFINE T == {m \in Nat : m <= n => HayPliegue(m, S, b, h)}
<1>1. 0 \in T
  <2>1. SUBSET (1..0) = {{}}
    OBVIOUS
  <2>2. [s \in SUBSET (1..0) |-> b] \in [SUBSET (1..0) -> S]
    OBVIOUS
  <2>3. EsPliegue([s \in SUBSET (1..0) |-> b], 0, b, h)
    BY <2>1 DEF EsPliegue
  <2> QED
    BY <2>2, <2>3 DEF HayPliegue
<1>2. ASSUME NEW m \in T PROVE m + 1 \in T
  <2> SUFFICES ASSUME m \in Nat, m + 1 <= n
               PROVE  HayPliegue(m + 1, S, b, h)
    OBVIOUS
  <2>1. PICK f \in [SUBSET (1..m) -> S] : EsPliegue(f, m, b, h)
    <3>1. HayPliegue(m, S, b, h)
      BY <1>2
    <3> QED
      BY <3>1 DEF HayPliegue
  <2> DEFINE g == [s \in SUBSET (1..(m + 1)) |->
                     IF m + 1 \in s THEN h[<<m + 1, f[s \ {m + 1}]>>] ELSE f[s]]
  <2>2. ASSUME NEW s \in SUBSET (1..(m + 1))
        PROVE  /\ m + 1 \in s => /\ Max(s) = m + 1 /\ s \ {m + 1} \in SUBSET (1..m)
                                 /\ m + 1 \notin s \ {m + 1}
               /\ m + 1 \notin s => s \in SUBSET (1..m)
    <3>1. \A x \in s : x \in Nat /\ x <= m + 1 /\ (x # m + 1 => x \in 1..m)
      OBVIOUS
    <3>2. ASSUME m + 1 \in s PROVE Max(s) = m + 1
      <4>1. Max(s) = CHOOSE x \in s : \A y \in s : x >= y
        BY DEF Max
      <4>2. \A y \in s : m + 1 >= y
        BY <3>1
      <4>3. \A x \in s : (\A y \in s : x >= y) => x = m + 1
        BY <3>1, <3>2
      <4> QED
        BY <3>2, <4>1, <4>2, <4>3
    <3> QED
      BY <3>1, <3>2
  <2>3. g \in [SUBSET (1..(m + 1)) -> S]
    <3>1. m + 1 \in 1..n
      BY <2>1
    <3> QED
      BY <2>1, <2>2, <3>1
  <2>4. ASSUME NEW s \in SUBSET (1..(m + 1))
        PROVE  g[s] = IF s = {} THEN b ELSE h[<<Max(s), g[s \ {Max(s)}]>>]
    <3>1. CASE m + 1 \in s
      BY <2>2, <3>1
    <3>2. CASE m + 1 \notin s
      <4>1. s \in SUBSET (1..m) /\ s \ {Max(s)} \in SUBSET (1..m)
        BY <2>2, <3>2
      <4>2. g[s] = f[s] /\ g[s \ {Max(s)}] = f[s \ {Max(s)}]
        BY <3>2, <4>1
      <4> QED
        BY <2>1, <4>1, <4>2 DEF EsPliegue
    <3> QED
      BY <3>1, <3>2
  <2>5. EsPliegue(g, m + 1, b, h)
    BY <2>4 DEF EsPliegue
  <2> QED
    BY <2>3, <2>5 DEF HayPliegue
<1>3. T = Nat
  <2>1. T \in SUBSET Nat
    OBVIOUS
  <2> HIDE DEF T
  <2> QED
    BY <1>1, <1>2, <2>1, Induccion
<1>4. n \in T
  BY <1>3
<1> QED
  BY <1>4

\* Such a fold goes through the sequence from the first place to the last.
Prefijos(f, n, S, b, h) ==
  /\ n \in Nat /\ b \in S /\ h \in [(1..n) \X S -> S]
  /\ f[{}] = b
  /\ \A k \in 1..n : f[1..(k - 1)] \in S => f[1..k] = h[<<k, f[1..(k - 1)]>>]

LEMMA Plegado ==
  ASSUME NEW n, NEW S, NEW b, NEW h, NEW f, Prefijos(f, n, S, b, h)
  PROVE  /\ [k \in 0..n |-> f[1..k]] \in [0..n -> S]
         /\ f[1..0] = b
         /\ \A k \in 1..n : f[1..k] = h[<<k, f[1..(k - 1)]>>]
<1> USE DEF Prefijos
<1> DEFINE T == {k \in Nat : k <= n => f[1..k] \in S}
<1>1. f[1..0] = b
  <2>1. 1..0 = {}
    OBVIOUS
  <2> QED
    BY <2>1 DEF Prefijos
<1>2. 0 \in T
  BY <1>1
<1>3. ASSUME NEW k \in T PROVE k + 1 \in T
  <2> SUFFICES ASSUME k \in Nat, k + 1 <= n PROVE f[1..(k + 1)] \in S
    OBVIOUS
  <2>1. k + 1 \in 1..n /\ (k + 1) - 1 = k /\ f[1..k] \in S
    BY <1>3
  <2>2. f[1..(k + 1)] = h[<<k + 1, f[1..k]>>]
    BY <2>1 DEF Prefijos
  <2> QED
    BY <2>1, <2>2
<1>4. T = Nat
  <2>1. T \in SUBSET Nat
    OBVIOUS
  <2> HIDE DEF T
  <2> QED
    BY <1>2, <1>3, <2>1, Induccion
<1>5. ASSUME NEW k \in 0..n PROVE f[1..k] \in S
  <2>1. k \in T
    <3>1. k \in Nat
      OBVIOUS
    <3> HIDE DEF T
    <3> QED
      BY <1>4, <3>1
  <2> QED
    BY <2>1
<1>6. ASSUME NEW k \in 1..n PROVE f[1..k] = h[<<k, f[1..(k - 1)]>>]
  <2>1. k - 1 \in 0..n
    OBVIOUS
  <2> QED
    BY <1>5, <2>1 DEF Prefijos
<1> QED
  BY <1>1, <1>5, <1>6

\* Two runs of the same steps give the same.
Pasos(f, n, h) == \A k \in 1..n : f[k] = h[<<k, f[k - 1]>>]

LEMMA MismosPasos ==
  ASSUME NEW n \in Nat, NEW h, NEW f, NEW g, f[0] = g[0], Pasos(f, n, h), Pasos(g, n, h)
  PROVE  f[n] = g[n]
<1> DEFINE T == {k \in Nat : k <= n => f[k] = g[k]}
<1>1. 0 \in T
  OBVIOUS
<1>2. ASSUME NEW k \in T PROVE k + 1 \in T
  <2> SUFFICES ASSUME k \in Nat, k + 1 <= n PROVE f[k + 1] = g[k + 1]
    OBVIOUS
  <2>1. k + 1 \in 1..n /\ (k + 1) - 1 = k /\ f[k] = g[k]
    BY <1>2
  <2> QED
    BY <2>1 DEF Pasos
<1>3. T = Nat
  <2>1. T \in SUBSET Nat
    OBVIOUS
  <2> HIDE DEF T
  <2> QED
    BY <1>1, <1>2, <2>1, Induccion
<1>4. n \in T
  BY <1>3
<1> QED
  BY <1>4
-----------------------------------------------------------------------------
\* The atoms of an answer, and what they take in the buffer.
Atomos == Letras \cup ({"ip"} \X IPs) \cup ({"puerto"} \X Puertos) \cup {Sep, Campo}
Textos == Seq(Atomos)

LEMMA CaracteresBien ==
  ASSUME NEW a \in Atomos
  PROVE  /\ Caracteres(a) \in Nat /\ Digitos(a[2]) \in 1..5
         /\ a = Sep => Caracteres(a) = 1
         /\ a = Campo => Caracteres(a) = 4
         /\ a \in {"ip"} \X IPs => Caracteres(a) = 9
         /\ a \in {"puerto"} \X Puertos => Caracteres(a) \in 1..5
<1>1. Digitos(a[2]) \in 1..5
  BY DEF Digitos
<1>2. Sep[1] = ";" /\ Campo[1] = " :: " /\ Sep # Campo
  BY DEF Sep, Campo
<1>3. ASSUME a \in {"ip"} \X IPs PROVE a[1] = "ip" /\ a # Sep /\ a # Campo
  <2>1. a[1] = "ip"
    BY <1>3
  <2> QED
    BY <2>1, <1>2
<1>4. ASSUME a \in {"puerto"} \X Puertos PROVE a[1] = "puerto" /\ a # Sep /\ a # Campo
  <2>1. a[1] = "puerto"
    BY <1>4
  <2> QED
    BY <2>1, <1>2
<1>5. Caracteres(a) \in Nat
  BY <1>1 DEF Caracteres
<1>6. (a = Sep => Caracteres(a) = 1) /\ (a = Campo => Caracteres(a) = 4)
  BY <1>2 DEF Caracteres
<1>7. a \in {"ip"} \X IPs => Caracteres(a) = 9
  BY <1>3 DEF Caracteres
<1>8. a \in {"puerto"} \X Puertos => Caracteres(a) \in 1..5
  <2> SUFFICES ASSUME a \in {"puerto"} \X Puertos PROVE Caracteres(a) \in 1..5
    OBVIOUS
  <2>1. Caracteres(a) = Digitos(a[2])
    BY <1>4 DEF Caracteres
  <2> QED
    BY <1>1, <2>1
<1> QED
  BY <1>1, <1>5, <1>6, <1>7, <1>8

\* Largo goes through a text adding what each atom takes.
LEMMA LargoPasos ==
  ASSUME NEW t \in Textos
  PROVE  \E g \in [0..Len(t) -> Nat] :
           /\ g[0] = 0 /\ Largo(t) = g[Len(t)]
           /\ \A k \in 1..Len(t) : g[k] = g[k - 1] + Caracteres(t[k])
<1>1. PICK n \in Nat : n = Len(t) /\ DOMAIN t = 1..n
  BY DEF Textos
<1>2. PICK h : h = [x \in (1..n) \X Nat |-> x[2] + Caracteres(t[x[1]])]
  OBVIOUS
<1>3. ASSUME NEW k \in 1..n, NEW x \in Nat PROVE x + Caracteres(t[k]) \in Nat
  <2>1. t[k] \in Atomos
    BY <1>1 DEF Textos
  <2> QED
    BY <2>1, CaracteresBien
<1>4. h \in [(1..n) \X Nat -> Nat]
  <2>1. \A x \in (1..n) \X Nat : x[2] + Caracteres(t[x[1]]) \in Nat
    BY <1>3
  <2> QED
    BY <1>2, <2>1
<1>5. \A k \in 1..n : \A x \in Nat : h[<<k, x>>] = x + Caracteres(t[k])
  BY <1>2
<1>6. 0 \in Nat
  OBVIOUS
<1> DEFINE ec(f) == [s \in SUBSET (1..n) |->
                       IF s = {} THEN 0 ELSE f[s \ {Max(s)}] + Caracteres(t[Max(s)])]
<1>7. \E f : f = ec(f)
  <2>1. PICK f \in [SUBSET (1..n) -> Nat] : EsPliegue(f, n, 0, h)
    BY <1>4, <1>6, PliegueExiste DEF HayPliegue
  <2>2. ASSUME NEW s \in SUBSET (1..n) PROVE f[s] = ec(f)[s]
    <3>1. CASE s = {}
      BY <2>1, <3>1 DEF EsPliegue
    <3>2. CASE s # {}
      <4>1. Max(s) \in 1..n /\ s \ {Max(s)} \in SUBSET (1..n)
        BY <3>2, MaxDe
      <4>2. f[s] = h[<<Max(s), f[s \ {Max(s)}]>>]
        BY <2>1, <3>2 DEF EsPliegue
      <4>3. f[s \ {Max(s)}] \in Nat
        BY <2>1, <4>1
      <4> QED
        BY <1>5, <3>2, <4>1, <4>2, <4>3
    <3> QED
      BY <3>1, <3>2
  <2>3. f = ec(f)
    BY <2>1, <2>2
  <2> QED
    BY <2>3
<1>8. PICK f : f = ec(f) /\ Largo(t) = f[1..n]
  <2>1. PICK f : f = CHOOSE e : e = ec(e)
    OBVIOUS
  <2>2. f = ec(f)
    BY <1>7, <2>1
  <2>3. Largo(t) = (CHOOSE e : e = ec(e))[1..n]
    BY <1>1 DEF Largo, FoldLeft, MapThenFoldSet
  <2> QED
    BY <2>1, <2>2, <2>3
<1>9. Prefijos(f, n, Nat, 0, h)
  <2>1. f[{}] = 0
    BY <1>8
  <2>2. ASSUME NEW k \in 1..n, f[1..(k - 1)] \in Nat
        PROVE  f[1..k] = h[<<k, f[1..(k - 1)]>>]
    <3>1. Max(1..k) = k /\ (1..k) \ {k} = 1..(k - 1) /\ 1..k # {}
      BY Tramo
    <3>2. 1..k \in SUBSET (1..n)
      OBVIOUS
    <3>3. h[<<k, f[1..(k - 1)]>>] = f[1..(k - 1)] + Caracteres(t[k])
      BY <1>5, <2>2
    <3>4. f[1..k] = f[1..(k - 1)] + Caracteres(t[k])
      BY <1>8, <3>1, <3>2
    <3> QED
      BY <3>3, <3>4
  <2> QED
    BY <1>4, <1>6, <2>1, <2>2 DEF Prefijos
<1>10. PICK g : g = [k \in 0..n |-> f[1..k]]
  OBVIOUS
<1>11. /\ [k \in 0..n |-> f[1..k]] \in [0..n -> Nat] /\ f[1..0] = 0
       /\ \A k \in 1..n : f[1..k] = h[<<k, f[1..(k - 1)]>>]
  BY <1>9, Plegado
<1>12. g \in [0..n -> Nat] /\ g[0] = 0 /\ Largo(t) = g[n]
  <2>1. 0 \in 0..n /\ n \in 0..n
    OBVIOUS
  <2>2. g[0] = f[1..0] /\ g[n] = f[1..n]
    BY <1>10, <2>1
  <2> QED
    BY <1>8, <1>10, <1>11, <2>2
<1>13. ASSUME NEW k \in 1..n PROVE g[k] = g[k - 1] + Caracteres(t[k])
  <2>1. k - 1 \in 0..n /\ k \in 0..n
    OBVIOUS
  <2>2. g[k] = f[1..k] /\ g[k - 1] = f[1..(k - 1)] /\ g[k - 1] \in Nat
    BY <1>10, <1>12, <2>1
  <2>3. f[1..k] = h[<<k, g[k - 1]>>]
    BY <1>11, <2>2
  <2> QED
    BY <1>5, <2>2, <2>3
<1> QED
  BY <1>1, <1>12, <1>13

LEMMA LargoNat ==
  ASSUME NEW t \in Textos
  PROVE  Largo(t) \in Nat
<1>1. PICK g \in [0..Len(t) -> Nat] : Largo(t) = g[Len(t)]
  BY LargoPasos
<1>2. Len(t) \in 0..Len(t)
  BY DEF Textos
<1> QED
  BY <1>1, <1>2

Entradas == [usuario : Usuarios, ip : IPs, puerto : Puertos]

\* Names and lines are texts; a name is not empty.
LEMMA NombreTexto ==
  ASSUME NEW nom \in Nombres, NEW u \in Usuarios
  PROVE  nom[u] \in Textos /\ nom[u] # <<>> /\ nom[u] \in Seq(Letras \cup {Sep})
<1>1. nom[u] \in Seq(Letras \cup {Sep}) /\ nom[u] # <<>>
  BY ListadoSupuestos
<1>2. Letras \cup {Sep} \subseteq Atomos
  BY DEF Atomos
<1>3. nom[u] \in Seq(Atomos)
  BY <1>1, <1>2
<1> QED
  BY <1>1, <1>3 DEF Textos

\* What an answer says of a user.
LEMMA EntradaBien ==
  ASSUME NEW con \in Seq(Entradas), NEW nom \in Nombres, NEW k \in 1..Len(con)
  PROVE  /\ con[k] \in Entradas /\ con[k].usuario \in Usuarios
         /\ <<"ip", con[k].ip>> \in Atomos /\ <<"puerto", con[k].puerto>> \in Atomos
         /\ Caracteres(<<"ip", con[k].ip>>) = 9
         /\ Caracteres(<<"puerto", con[k].puerto>>) \in 1..5
         /\ nom[con[k].usuario] \in Textos /\ Largo(nom[con[k].usuario]) \in Nat
<1>1. con[k] \in Entradas
  OBVIOUS
<1>2. con[k].usuario \in Usuarios /\ con[k].ip \in IPs /\ con[k].puerto \in Puertos
  BY <1>1 DEF Entradas
<1>3. /\ <<"ip", con[k].ip>> \in {"ip"} \X IPs
      /\ <<"puerto", con[k].puerto>> \in {"puerto"} \X Puertos
  BY <1>2
<1>4. <<"ip", con[k].ip>> \in Atomos /\ <<"puerto", con[k].puerto>> \in Atomos
  BY <1>3 DEF Atomos
<1>5. /\ Caracteres(<<"ip", con[k].ip>>) = 9
      /\ Caracteres(<<"puerto", con[k].puerto>>) \in 1..5
  BY <1>3, <1>4, CaracteresBien
<1>6. nom[con[k].usuario] \in Textos
  BY <1>2, NombreTexto
<1>7. Largo(nom[con[k].usuario]) \in Nat
  BY <1>6, LargoNat
<1> QED
  BY <1>1, <1>2, <1>4, <1>5, <1>6, <1>7

LEMMA LineaTexto ==
  ASSUME NEW con \in Seq(Entradas), NEW nom \in Nombres, NEW k \in 1..Len(con)
  PROVE  Linea(nom, con, k) \in Textos
<1>1. PICK a, b : a = <<"ip", con[k].ip>> /\ b = <<"puerto", con[k].puerto>>
  OBVIOUS
<1>2. a \in Atomos /\ b \in Atomos /\ Sep \in Atomos /\ Campo \in Atomos
  BY <1>1, EntradaBien DEF Atomos
<1>3. <<Campo, a, Campo, b>> \in Textos
  BY <1>2 DEF Textos
<1>4. <<Sep>> \in Textos /\ <<>> \in Textos
  BY <1>2, EmptySeq DEF Textos
<1>5. nom[con[k].usuario] \in Textos
  BY EntradaBien
<1>6. PICK z : z = IF k < Len(con) THEN <<Sep>> ELSE <<>>
  OBVIOUS
<1>7. Linea(nom, con, k) = nom[con[k].usuario] \o <<Campo, a, Campo, b>> \o z
  BY <1>1, <1>6 DEF Linea
<1>8. z \in Textos
  BY <1>4, <1>6
<1> QED
  BY <1>3, <1>5, <1>7, <1>8 DEF Textos

\* What the first loop counts for a user.
MasEspacio(s, nom, x) ==
  s + Largo(nom[x.usuario]) + 4 + Caracteres(<<"ip", x.ip>>) + 4 + 5 + 1

\* The first loop goes through the users adding what it counts for each.
LEMMA EspacioPasos ==
  ASSUME NEW con \in Seq(Entradas), NEW nom \in Nombres
  PROVE  \E g \in [0..Len(con) -> Nat] :
           /\ g[0] = 0 /\ EspacioNecesario(nom, con) = g[Len(con)]
           /\ \A k \in 1..Len(con) : g[k] = MasEspacio(g[k - 1], nom, con[k])
<1>1. PICK n \in Nat : n = Len(con) /\ DOMAIN con = 1..n
  OBVIOUS
<1>2. PICK h : h = [x \in (1..n) \X Nat |-> MasEspacio(x[2], nom, con[x[1]])]
  OBVIOUS
<1>3. ASSUME NEW k \in 1..n, NEW x \in Nat PROVE MasEspacio(x, nom, con[k]) \in Nat
  <2>1. Largo(nom[con[k].usuario]) \in Nat /\ Caracteres(<<"ip", con[k].ip>>) = 9
    BY <1>1, EntradaBien
  <2> QED
    BY <2>1 DEF MasEspacio
<1>4. h \in [(1..n) \X Nat -> Nat]
  <2>1. \A x \in (1..n) \X Nat : MasEspacio(x[2], nom, con[x[1]]) \in Nat
    BY <1>3
  <2> QED
    BY <1>2, <2>1
<1>5. \A k \in 1..n : \A x \in Nat : h[<<k, x>>] = MasEspacio(x, nom, con[k])
  BY <1>2
<1>6. 0 \in Nat
  OBVIOUS
<1> DEFINE ec(f) == [s \in SUBSET (1..n) |->
                       IF s = {} THEN 0 ELSE MasEspacio(f[s \ {Max(s)}], nom, con[Max(s)])]
<1>7. \E f : f = ec(f)
  <2>1. PICK f \in [SUBSET (1..n) -> Nat] : EsPliegue(f, n, 0, h)
    BY <1>4, <1>6, PliegueExiste DEF HayPliegue
  <2>2. ASSUME NEW s \in SUBSET (1..n) PROVE f[s] = ec(f)[s]
    <3>1. CASE s = {}
      BY <2>1, <3>1 DEF EsPliegue
    <3>2. CASE s # {}
      <4>1. Max(s) \in 1..n /\ s \ {Max(s)} \in SUBSET (1..n)
        BY <3>2, MaxDe
      <4>2. f[s] = h[<<Max(s), f[s \ {Max(s)}]>>]
        BY <2>1, <3>2 DEF EsPliegue
      <4>3. f[s \ {Max(s)}] \in Nat
        BY <2>1, <4>1
      <4> QED
        BY <1>5, <3>2, <4>1, <4>2, <4>3
    <3> QED
      BY <3>1, <3>2
  <2>3. f = ec(f)
    BY <2>1, <2>2
  <2> QED
    BY <2>3
<1>8. PICK f : f = ec(f) /\ EspacioNecesario(nom, con) = f[1..n]
  <2>1. PICK f : f = CHOOSE e : e = ec(e)
    OBVIOUS
  <2>2. f = ec(f)
    BY <1>7, <2>1
  <2>3. EspacioNecesario(nom, con) = (CHOOSE e : e = ec(e))[1..n]
    BY <1>1 DEF EspacioNecesario, FoldLeft, MasEspacio, MapThenFoldSet
  <2> QED
    BY <2>1, <2>2, <2>3
<1>9. Prefijos(f, n, Nat, 0, h)
  <2>1. f[{}] = 0
    BY <1>8
  <2>2. ASSUME NEW k \in 1..n, f[1..(k - 1)] \in Nat
        PROVE  f[1..k] = h[<<k, f[1..(k - 1)]>>]
    <3>1. Max(1..k) = k /\ (1..k) \ {k} = 1..(k - 1) /\ 1..k # {}
      BY Tramo
    <3>2. 1..k \in SUBSET (1..n)
      OBVIOUS
    <3>3. h[<<k, f[1..(k - 1)]>>] = MasEspacio(f[1..(k - 1)], nom, con[k])
      BY <1>5, <2>2
    <3>4. f[1..k] = MasEspacio(f[1..(k - 1)], nom, con[k])
      BY <1>8, <3>1, <3>2
    <3> QED
      BY <3>3, <3>4
  <2> QED
    BY <1>4, <1>6, <2>1, <2>2 DEF Prefijos
<1>10. PICK g : g = [k \in 0..n |-> f[1..k]]
  OBVIOUS
<1>11. /\ [k \in 0..n |-> f[1..k]] \in [0..n -> Nat] /\ f[1..0] = 0
       /\ \A k \in 1..n : f[1..k] = h[<<k, f[1..(k - 1)]>>]
  BY <1>9, Plegado
<1>12. g \in [0..n -> Nat] /\ g[0] = 0 /\ EspacioNecesario(nom, con) = g[n]
  <2>1. 0 \in 0..n /\ n \in 0..n
    OBVIOUS
  <2>2. g[0] = f[1..0] /\ g[n] = f[1..n]
    BY <1>10, <2>1
  <2> QED
    BY <1>8, <1>10, <1>11, <2>2
<1>13. ASSUME NEW k \in 1..n PROVE g[k] = MasEspacio(g[k - 1], nom, con[k])
  <2>1. k - 1 \in 0..n /\ k \in 0..n
    OBVIOUS
  <2>2. g[k] = f[1..k] /\ g[k - 1] = f[1..(k - 1)] /\ g[k - 1] \in Nat
    BY <1>10, <1>12, <2>1
  <2>3. f[1..k] = h[<<k, g[k - 1]>>]
    BY <1>11, <2>2
  <2> QED
    BY <1>5, <2>2, <2>3
<1> QED
  BY <1>1, <1>12, <1>13

\* The second loop goes through the users adding the line of each.
LEMMA TextoPasos ==
  ASSUME NEW con \in Seq(Entradas), NEW nom \in Nombres
  PROVE  \E g \in [0..Len(con) -> Textos] :
           /\ g[0] = <<>> /\ Texto(nom, con) = g[Len(con)]
           /\ \A k \in 1..Len(con) : g[k] = g[k - 1] \o Linea(nom, con, k)
<1>1. PICK n \in Nat : n = Len(con) /\ DOMAIN con = 1..n
  OBVIOUS
<1>2. PICK h : h = [x \in (1..n) \X Textos |-> x[2] \o Linea(nom, con, x[1])]
  OBVIOUS
<1>3. ASSUME NEW k \in 1..n, NEW x \in Textos PROVE x \o Linea(nom, con, k) \in Textos
  BY <1>1, LineaTexto DEF Textos
<1>4. h \in [(1..n) \X Textos -> Textos]
  <2>1. \A x \in (1..n) \X Textos : x[2] \o Linea(nom, con, x[1]) \in Textos
    BY <1>3
  <2> QED
    BY <1>2, <2>1
<1>5. \A k \in 1..n : \A x \in Textos : h[<<k, x>>] = x \o Linea(nom, con, k)
  BY <1>2
<1>6. <<>> \in Textos
  BY EmptySeq DEF Textos
<1> DEFINE ec(f) == [s \in SUBSET (1..n) |->
                       IF s = {} THEN <<>>
                       ELSE f[s \ {Max(s)}] \o Linea(nom, con, [i \in 1..n |-> i][Max(s)])]
<1>7. \E f : f = ec(f)
  <2>1. PICK f \in [SUBSET (1..n) -> Textos] : EsPliegue(f, n, <<>>, h)
    BY <1>4, <1>6, PliegueExiste DEF HayPliegue
  <2>2. ASSUME NEW s \in SUBSET (1..n) PROVE f[s] = ec(f)[s]
    <3>1. CASE s = {}
      BY <2>1, <3>1 DEF EsPliegue
    <3>2. CASE s # {}
      <4>1. Max(s) \in 1..n /\ s \ {Max(s)} \in SUBSET (1..n)
        BY <3>2, MaxDe
      <4>2. f[s] = h[<<Max(s), f[s \ {Max(s)}]>>]
        BY <2>1, <3>2 DEF EsPliegue
      <4>3. f[s \ {Max(s)}] \in Textos
        BY <2>1, <4>1
      <4> QED
        BY <1>5, <3>2, <4>1, <4>2, <4>3
    <3> QED
      BY <3>1, <3>2
  <2>3. f = ec(f)
    BY <2>1, <2>2
  <2> QED
    BY <2>3
<1>8. PICK f : f = ec(f) /\ Texto(nom, con) = f[1..n]
  <2>1. PICK f : f = CHOOSE e : e = ec(e)
    OBVIOUS
  <2>2. f = ec(f)
    BY <1>7, <2>1
  <2>3. Texto(nom, con) = (CHOOSE e : e = ec(e))[1..n]
    BY <1>1 DEF Texto, FoldLeftDomain, FoldLeft, MapThenFoldSet
  <2> QED
    BY <2>1, <2>2, <2>3
<1>9. Prefijos(f, n, Textos, <<>>, h)
  <2>1. f[{}] = <<>>
    BY <1>8
  <2>2. ASSUME NEW k \in 1..n, f[1..(k - 1)] \in Textos
        PROVE  f[1..k] = h[<<k, f[1..(k - 1)]>>]
    <3>1. Max(1..k) = k /\ (1..k) \ {k} = 1..(k - 1) /\ 1..k # {}
      BY Tramo
    <3>2. 1..k \in SUBSET (1..n)
      OBVIOUS
    <3>3. h[<<k, f[1..(k - 1)]>>] = f[1..(k - 1)] \o Linea(nom, con, k)
      BY <1>5, <2>2
    <3>4. f[1..k] = f[1..(k - 1)] \o Linea(nom, con, k)
      BY <1>8, <3>1, <3>2
    <3> QED
      BY <3>3, <3>4
  <2> QED
    BY <1>4, <1>6, <2>1, <2>2 DEF Prefijos
<1>10. PICK g : g = [k \in 0..n |-> f[1..k]]
  OBVIOUS
<1>11. /\ [k \in 0..n |-> f[1..k]] \in [0..n -> Textos] /\ f[1..0] = <<>>
       /\ \A k \in 1..n : f[1..k] = h[<<k, f[1..(k - 1)]>>]
  BY <1>9, Plegado
<1>12. g \in [0..n -> Textos] /\ g[0] = <<>> /\ Texto(nom, con) = g[n]
  <2>1. 0 \in 0..n /\ n \in 0..n
    OBVIOUS
  <2>2. g[0] = f[1..0] /\ g[n] = f[1..n]
    BY <1>10, <2>1
  <2> QED
    BY <1>8, <1>10, <1>11, <2>2
<1>13. ASSUME NEW k \in 1..n PROVE g[k] = g[k - 1] \o Linea(nom, con, k)
  <2>1. k - 1 \in 0..n /\ k \in 0..n
    OBVIOUS
  <2>2. g[k] = f[1..k] /\ g[k - 1] = f[1..(k - 1)] /\ g[k - 1] \in Textos
    BY <1>10, <1>12, <2>1
  <2>3. f[1..k] = h[<<k, g[k - 1]>>]
    BY <1>11, <2>2
  <2> QED
    BY <1>5, <2>2, <2>3
<1> QED
  BY <1>1, <1>12, <1>13
-----------------------------------------------------------------------------
\* A text is empty or one more atom after a text.
LEMMA AlFinal ==
  ASSUME NEW A, NEW q \in Seq(A), NEW a \in A
  PROVE  /\ Append(q, a) \in Seq(A) /\ Append(q, a) # <<>>
         /\ Len(Append(q, a)) = Len(q) + 1
         /\ \A i \in 1..Len(q) : Append(q, a)[i] = q[i]
         /\ Append(q, a)[Len(q) + 1] = a
  OBVIOUS

LEMMA SumarAlFinal ==
  ASSUME NEW A, NEW p \in Seq(A), NEW q \in Seq(A), NEW a \in A
  PROVE  /\ p \o Append(q, a) = Append(p \o q, a)
         /\ p \o q \in Seq(A) /\ Len(p \o q) = Len(p) + Len(q)
<1>1. Append(q, a) \in Seq(A) /\ Len(Append(q, a)) = Len(q) + 1
  OBVIOUS
<1>2. p \o q \in Seq(A) /\ Len(p \o q) = Len(p) + Len(q)
  OBVIOUS
<1>3. p \o Append(q, a) \in Seq(A) /\ Append(p \o q, a) \in Seq(A)
  BY <1>1, <1>2
<1>4. Len(p \o Append(q, a)) = Len(Append(p \o q, a))
  BY <1>1, <1>2
<1>5. ASSUME NEW i \in 1..Len(p \o Append(q, a))
      PROVE  (p \o Append(q, a))[i] = Append(p \o q, a)[i]
  BY <1>1, <1>2
<1>6. p \o Append(q, a) = Append(p \o q, a)
  BY <1>3, <1>4, <1>5, SeqEqual
<1> QED
  BY <1>2, <1>6

Hasta(t, n, A) == n \in Nat /\ \A i \in 1..n : t[i] \in A

\* The first n atoms of a sequence.
LEMMA Prefijo ==
  ASSUME NEW A, NEW n, NEW t, Hasta(t, n, A)
  PROVE  /\ SubSeq(t, 1, n) \in Seq(A) /\ Len(SubSeq(t, 1, n)) = n
         /\ \A i \in 1..n : SubSeq(t, 1, n)[i] = t[i]
<1> USE DEF Hasta
<1>1. PICK m \in Int : m = 1
  OBVIOUS
<1>2. n \in Int /\ \A i \in m..n : t[i] \in A
  BY <1>1
<1>3. /\ SubSeq(t, m, n) \in Seq(A)
      /\ Len(SubSeq(t, m, n)) = IF m <= n THEN n - m + 1 ELSE 0
      /\ \A i \in 1..(n - m + 1) : SubSeq(t, m, n)[i] = t[m + i - 1]
  BY <1>1, <1>2, SubSeqProperties
<1>4. (IF m <= n THEN n - m + 1 ELSE 0) = n
  BY <1>1
<1>5. ASSUME NEW i \in 1..n PROVE SubSeq(t, m, n)[i] = t[i]
  <2>1. i \in 1..(n - m + 1) /\ m + i - 1 = i
    BY <1>1
  <2> QED
    BY <1>3, <2>1
<1> QED
  BY <1>1, <1>3, <1>4, <1>5

\* What the empty text has, and a text with one more atom when the text has it,
\* every text has.
LEMMA TextoInduccion ==
  ASSUME NEW A, NEW T \in SUBSET Seq(A), <<>> \in T,
         \A q \in T : \A a \in A : Append(q, a) \in T
  PROVE  T = Seq(A)
<1> DEFINE N == {n \in Nat : \A q \in Seq(A) : Len(q) = n => q \in T}
<1>1. 0 \in N
  <2>1. \A q \in Seq(A) : Len(q) = 0 => q = <<>>
    BY EmptySeq
  <2> QED
    BY <2>1
<1>2. ASSUME NEW n \in N PROVE n + 1 \in N
  <2> SUFFICES ASSUME NEW q \in Seq(A), Len(q) = n + 1 PROVE q \in T
    OBVIOUS
  <2>1. n \in Nat /\ Len(q) = n + 1
    OBVIOUS
  <2>2. \A p \in Seq(A) : Len(p) = n => p \in T
    OBVIOUS
  <2> HIDE DEF N
  <2>3. PICK a \in A : a = q[n + 1]
    BY <2>1
  <2>4. PICK r \in Seq(A) : Len(r) = n /\ \A i \in 1..n : r[i] = q[i]
    <3>1. PICK p : p = q
      OBVIOUS
    <3>2. Hasta(p, n, A)
      BY <2>1, <3>1 DEF Hasta
    <3>3. /\ SubSeq(p, 1, n) \in Seq(A) /\ Len(SubSeq(p, 1, n)) = n
          /\ \A i \in 1..n : SubSeq(p, 1, n)[i] = p[i]
      BY <3>2, Prefijo
    <3> QED
      BY <3>1, <3>3
  <2>5. r \in T
    BY <2>2, <2>4
  <2>6. /\ Append(r, a) \in Seq(A) /\ Len(Append(r, a)) = n + 1
        /\ \A i \in 1..n : Append(r, a)[i] = r[i]
        /\ Append(r, a)[n + 1] = a
    <3>1. /\ Append(r, a) \in Seq(A) /\ Len(Append(r, a)) = Len(r) + 1
          /\ \A i \in 1..Len(r) : Append(r, a)[i] = r[i]
          /\ Append(r, a)[Len(r) + 1] = a
      <4>1. r \in Seq(A) /\ a \in A
        BY <2>3, <2>4
      <4> QED
        BY <4>1, AlFinal
    <3> QED
      BY <2>4, <3>1
  <2>7. \A i \in 1..(n + 1) : Append(r, a)[i] = q[i]
    <3>1. \A i \in 1..(n + 1) : i \in 1..n \/ i = n + 1
      BY <2>1
    <3> QED
      BY <2>3, <2>4, <2>6, <3>1
  <2>8. Append(r, a) = q
    BY <2>1, <2>6, <2>7, SeqEqual
  <2> QED
    BY <2>5, <2>8
<1>3. N = Nat
  <2>1. N \in SUBSET Nat
    OBVIOUS
  <2> HIDE DEF N
  <2> QED
    BY <1>1, <1>2, <2>1, Induccion
<1>4. ASSUME NEW q \in Seq(A) PROVE q \in T
  <2>1. Len(q) \in N
    BY <1>3
  <2> QED
    BY <2>1
<1> QED
  BY <1>4

LEMMA Unir ==
  ASSUME NEW p \in Textos, NEW q \in Textos
  PROVE  p \o q \in Textos
BY ConcatProperties DEF Textos

\* Pieces put together in one order or another.
Asocia(p, q, r) == (p \o q) \o r = p \o (q \o r)

LEMMA Asociar ==
  ASSUME NEW p \in Textos, NEW q \in Textos, NEW r \in Textos
  PROVE  Asocia(p, q, r)
<1>1. PICK S : S = Atomos
  OBVIOUS
<1>2. p \in Seq(S) /\ q \in Seq(S) /\ r \in Seq(S)
  BY <1>1 DEF Textos
<1>3. (p \o q) \o r = p \o (q \o r)
  BY <1>2, ConcatAssociative
<1> QED
  BY <1>3 DEF Asocia

\* An atom at the end of the second piece is one at the end of the whole.
Suma(p, q, a) == p \o Append(q, a) = Append(p \o q, a)

LEMMA SumarTexto ==
  ASSUME NEW p \in Textos, NEW q \in Textos, NEW a \in Atomos
  PROVE  Suma(p, q, a)
<1>1. PICK S : S = Atomos
  OBVIOUS
<1>2. p \in Seq(S) /\ q \in Seq(S) /\ a \in S
  BY <1>1 DEF Textos
<1>3. p \o Append(q, a) = Append(p \o q, a)
  BY <1>2, SumarAlFinal
<1> QED
  BY <1>3 DEF Suma

Reunida(t, x, z, y, d, c) ==
  \E v \in Textos : t \o ((((x \o z) \o y) \o d) \o c) = ((t \o x) \o z) \o v

LEMMA UnirLinea ==
  ASSUME NEW t \in Textos, NEW x \in Textos, NEW z \in Textos, NEW y \in Textos,
         NEW d \in Textos, NEW c \in Textos
  PROVE  Reunida(t, x, z, y, d, c)
<1>1. PICK p \in Textos : p = x \o z
  BY Unir
<1>2. PICK e \in Textos : e = y \o d
  BY Unir
<1>3. PICK v \in Textos : v = e \o c
  BY Unir
<1>4. Asocia(p, y, d) /\ Asocia(p, e, c) /\ Asocia(t, p, v) /\ Asocia(t, x, z)
  BY Asociar
<1> QED
  BY <1>1, <1>2, <1>3, <1>4 DEF Asocia, Reunida

\* The length of a text put together from two is the sum of their lengths.
LEMMA LargoVacio == Largo(<<>>) = 0
<1>1. <<>> \in Textos /\ Len(<<>>) = 0
  BY EmptySeq DEF Textos
<1>2. PICK g \in [0..Len(<<>>) -> Nat] : g[0] = 0 /\ Largo(<<>>) = g[Len(<<>>)]
  BY <1>1, LargoPasos
<1> QED
  BY <1>1, <1>2

LEMMA LargoMas ==
  ASSUME NEW t \in Textos, NEW a \in Atomos
  PROVE  Largo(Append(t, a)) = Largo(t) + Caracteres(a)
<1>1. PICK n \in Nat : n = Len(t)
  BY DEF Textos
<1>2. PICK u : u = Append(t, a)
  OBVIOUS
<1>3. u \in Textos /\ Len(u) = n + 1 /\ u[n + 1] = a /\ \A k \in 1..n : u[k] = t[k]
  BY <1>1, <1>2 DEF Textos
<1>4. PICK f \in [0..n -> Nat] : /\ f[0] = 0 /\ Largo(t) = f[n]
                                 /\ \A k \in 1..n : f[k] = f[k - 1] + Caracteres(t[k])
  BY <1>1, LargoPasos
<1>5. PICK g \in [0..(n + 1) -> Nat] :
        /\ g[0] = 0 /\ Largo(u) = g[n + 1]
        /\ \A k \in 1..(n + 1) : g[k] = g[k - 1] + Caracteres(u[k])
  <2>1. \E g \in [0..Len(u) -> Nat] :
          /\ g[0] = 0 /\ Largo(u) = g[Len(u)]
          /\ \A k \in 1..Len(u) : g[k] = g[k - 1] + Caracteres(u[k])
    BY <1>3, LargoPasos
  <2> QED
    BY <1>3, <2>1
<1>6. PICK h : h = [x \in (1..n) \X Nat |-> x[2] + Caracteres(t[x[1]])]
  OBVIOUS
<1>7. ASSUME NEW k \in 1..n PROVE f[k] = h[<<k, f[k - 1]>>] /\ g[k] = h[<<k, g[k - 1]>>]
  <2>1. k - 1 \in 0..n /\ k - 1 \in 0..(n + 1) /\ k \in 1..(n + 1)
    OBVIOUS
  <2>2. f[k - 1] \in Nat /\ g[k - 1] \in Nat
    BY <2>1
  <2>3. \A x \in Nat : h[<<k, x>>] = x + Caracteres(t[k])
    BY <1>6
  <2>4. f[k] = f[k - 1] + Caracteres(t[k]) /\ g[k] = g[k - 1] + Caracteres(t[k])
    BY <1>3, <1>4, <1>5, <2>1
  <2> QED
    BY <2>2, <2>3, <2>4
<1>8. f[n] = g[n]
  <2>1. f[0] = g[0]
    BY <1>4, <1>5
  <2>2. Pasos(f, n, h) /\ Pasos(g, n, h)
    BY <1>7 DEF Pasos
  <2> QED
    BY <2>1, <2>2, MismosPasos
<1>9. g[n + 1] = g[(n + 1) - 1] + Caracteres(u[n + 1])
  BY <1>5
<1> QED
  BY <1>2, <1>3, <1>4, <1>5, <1>8, <1>9

LEMMA LargoUnido ==
  ASSUME NEW p \in Textos, NEW q \in Textos
  PROVE  Largo(p \o q) = Largo(p) + Largo(q)
<1> DEFINE T == {r \in Textos : Largo(p \o r) = Largo(p) + Largo(r)}
<1>1. <<>> \in T
  <2>1. p \o <<>> = p /\ <<>> \in Textos
    BY EmptySeq, ConcatEmptySeq DEF Textos
  <2>2. Largo(p) \in Nat
    BY LargoNat
  <2> QED
    BY <2>1, <2>2, LargoVacio
<1>2. ASSUME NEW r \in T, NEW a \in Atomos PROVE Append(r, a) \in T
  <2>1. Append(r, a) \in Textos /\ p \o r \in Textos /\ p \o Append(r, a) = Append(p \o r, a)
    BY AlFinal, SumarAlFinal DEF Textos
  <2>2. Largo(Append(r, a)) = Largo(r) + Caracteres(a)
    BY LargoMas
  <2>3. Largo(Append(p \o r, a)) = Largo(p \o r) + Caracteres(a)
    BY <2>1, LargoMas
  <2>4. Largo(p) \in Nat /\ Largo(r) \in Nat /\ Caracteres(a) \in Nat
    BY LargoNat, CaracteresBien
  <2>5. Largo(p \o r) = Largo(p) + Largo(r)
    OBVIOUS
  <2>6. Largo(Append(p \o r, a)) = Largo(p) + Largo(Append(r, a))
    BY <2>2, <2>3, <2>4, <2>5
  <2> QED
    BY <2>1, <2>6
<1>3. T = Textos
  <2>1. T \in SUBSET Seq(Atomos)
    BY DEF Textos
  <2> HIDE DEF T
  <2> QED
    BY <1>1, <1>2, <2>1, TextoInduccion DEF Textos
<1>4. q \in T
  BY <1>3
<1> QED
  BY <1>4
-----------------------------------------------------------------------------
\* A line takes at most what the first loop counts for it, its separator or the
\* final zero included.
LEMMA LargoUno ==
  ASSUME NEW a \in Atomos
  PROVE  <<a>> \in Textos /\ Largo(<<a>>) = Caracteres(a)
<1>1. Append(<<>>, a) = <<a>>
  OBVIOUS
<1>2. <<>> \in Textos /\ <<a>> \in Textos
  BY EmptySeq DEF Textos
<1>3. Caracteres(a) \in Nat
  BY CaracteresBien
<1>4. Largo(Append(<<>>, a)) = Largo(<<>>) + Caracteres(a)
  BY <1>2, LargoMas
<1> QED
  BY <1>1, <1>2, <1>3, <1>4, LargoVacio

\* What follows the name of the user at place i.
Datos(x) == <<Campo, <<"ip", x.ip>>, Campo, <<"puerto", x.puerto>>>>
Cierre(con, i) == IF i < Len(con) THEN <<Sep>> ELSE <<>>

LEMMA LineaPartes ==
  ASSUME NEW con \in Seq(Entradas), NEW nom \in Nombres, NEW k \in 1..Len(con)
  PROVE  /\ Linea(nom, con, k) = nom[con[k].usuario] \o Datos(con[k]) \o Cierre(con, k)
         /\ nom[con[k].usuario] \in Textos /\ Datos(con[k]) \in Textos
         /\ Cierre(con, k) \in Textos /\ Linea(nom, con, k) \in Textos
<1>1. Campo \in Atomos /\ Sep \in Atomos
  BY DEF Atomos
<1>2. <<"ip", con[k].ip>> \in Atomos /\ <<"puerto", con[k].puerto>> \in Atomos
  BY EntradaBien
<1>3. Datos(con[k]) \in Textos
  BY <1>1, <1>2 DEF Datos, Textos
<1>4. Cierre(con, k) \in Textos
  BY <1>1, LargoUno, EmptySeq DEF Cierre, Textos
<1>5. nom[con[k].usuario] \in Textos
  BY EntradaBien
<1> QED
  BY <1>3, <1>4, <1>5, LineaTexto DEF Linea, Datos, Cierre

\* Two separators of fields, an address and a port of up to five digits.
LEMMA LargoDatos ==
  ASSUME NEW a \in Atomos, NEW b \in Atomos, Caracteres(a) = 9, Caracteres(b) \in 1..5
  PROVE  Largo(<<Campo, a, Campo, b>>) \in 18..22
<1>1. Campo \in Atomos
  BY DEF Atomos
<1>2. Caracteres(Campo) = 4
  BY <1>1, CaracteresBien
<1>3. PICK u1, u2, u3, u4 : /\ u1 = <<Campo>> /\ u2 = <<Campo, a>> /\ u3 = <<Campo, a, Campo>>
                            /\ u4 = <<Campo, a, Campo, b>>
  OBVIOUS
<1>4. u1 \in Textos /\ u2 \in Textos /\ u3 \in Textos
  BY <1>1, <1>3 DEF Textos
<1>5. u2 = Append(u1, a) /\ u3 = Append(u2, Campo) /\ u4 = Append(u3, b)
  BY <1>3
<1>6. Largo(u1) = 4
  BY <1>1, <1>2, <1>3, LargoUno
<1>7. Largo(u2) = 13
  <2>1. Largo(u2) = Largo(u1) + Caracteres(a)
    BY <1>4, <1>5, LargoMas
  <2> QED
    BY <1>6, <2>1
<1>8. Largo(u3) = 17
  <2>1. Largo(u3) = Largo(u2) + Caracteres(Campo)
    BY <1>1, <1>4, <1>5, LargoMas
  <2> QED
    BY <1>2, <1>7, <2>1
<1>9. Largo(u4) = 17 + Caracteres(b)
  <2>1. Largo(u4) = Largo(u3) + Caracteres(b)
    BY <1>4, <1>5, LargoMas
  <2> QED
    BY <1>8, <2>1
<1> QED
  BY <1>3, <1>9

LEMMA LargoLinea ==
  ASSUME NEW con \in Seq(Entradas), NEW nom \in Nombres, NEW k \in 1..Len(con)
  PROVE  /\ Largo(Linea(nom, con, k)) \in Nat
         /\ Largo(Linea(nom, con, k)) + (IF k < Len(con) THEN 0 ELSE 1)
              <= Largo(nom[con[k].usuario]) + 4 + Caracteres(<<"ip", con[k].ip>>) + 4 + 5 + 1
<1>1. PICK p, q, z : p = nom[con[k].usuario] /\ q = Datos(con[k]) /\ z = Cierre(con, k)
  OBVIOUS
<1>2. p \in Textos /\ q \in Textos /\ z \in Textos /\ Linea(nom, con, k) = p \o q \o z
  BY <1>1, LineaPartes
<1>3. Largo(p \o q \o z) = Largo(p) + Largo(q) + Largo(z)
  <2>1. p \o q \in Textos
    BY <1>2, SumarAlFinal DEF Textos
  <2>2. Largo(p \o q) = Largo(p) + Largo(q)
    BY <1>2, LargoUnido
  <2>3. Largo((p \o q) \o z) = Largo(p \o q) + Largo(z)
    BY <1>2, <2>1, LargoUnido
  <2> QED
    BY <2>2, <2>3
<1>4. Largo(q) \in 18..22 /\ Caracteres(<<"ip", con[k].ip>>) = 9
  BY <1>1, EntradaBien, LargoDatos DEF Datos
<1>5. Largo(z) = IF k < Len(con) THEN 1 ELSE 0
  <2>1. Sep \in Atomos /\ Caracteres(Sep) = 1
    BY CaracteresBien DEF Atomos
  <2> QED
    BY <1>1, <2>1, LargoUno, LargoVacio DEF Cierre
<1>6. Largo(p) \in Nat
  BY <1>2, LargoNat
<1>7. PICK c : c = Caracteres(<<"ip", con[k].ip>>)
  OBVIOUS
<1>8. PICK l, lp, lq, lz : /\ l = Largo(Linea(nom, con, k)) /\ lp = Largo(p) /\ lq = Largo(q)
                          /\ lz = Largo(z)
  OBVIOUS
<1>9. /\ l = lp + lq + lz /\ lp \in Nat /\ lq \in 18..22 /\ c = 9
      /\ lz = IF k < Len(con) THEN 1 ELSE 0
  BY <1>2, <1>3, <1>4, <1>5, <1>6, <1>7, <1>8
<1>10. l \in Nat /\ l + (IF k < Len(con) THEN 0 ELSE 1) <= lp + 4 + c + 4 + 5 + 1
  BY <1>9
<1> QED
  BY <1>1, <1>7, <1>8, <1>10

\* All the lines but the last are within their part, and the last one and the
\* final zero within its own.
LEMMA TextoCabe ==
  ASSUME NEW con \in Seq(Entradas), con # <<>>, NEW nom \in Nombres
  PROVE  Largo(Texto(nom, con)) + 1 <= EspacioNecesario(nom, con)
<1>1. PICK n \in Nat : n = Len(con) /\ n >= 1
  BY EmptySeq
<1>2. PICK g \in [0..n -> Textos] :
        /\ g[0] = <<>> /\ Texto(nom, con) = g[n]
        /\ \A k \in 1..n : g[k] = g[k - 1] \o Linea(nom, con, k)
  BY <1>1, TextoPasos
<1> DEFINE parte(k) ==
      Largo(nom[con[k].usuario]) + 4 + Caracteres(<<"ip", con[k].ip>>) + 4 + 5 + 1
<1>3. PICK e \in [0..n -> Nat] :
        /\ e[0] = 0 /\ EspacioNecesario(nom, con) = e[n]
        /\ \A k \in 1..n : e[k] = e[k - 1] + parte(k)
  <2>1. \E e \in [0..Len(con) -> Nat] :
          /\ e[0] = 0 /\ EspacioNecesario(nom, con) = e[Len(con)]
          /\ \A k \in 1..Len(con) : e[k] = MasEspacio(e[k - 1], nom, con[k])
    BY EspacioPasos
  <2>2. PICK e \in [0..n -> Nat] :
          /\ e[0] = 0 /\ EspacioNecesario(nom, con) = e[n]
          /\ \A k \in 1..n : e[k] = MasEspacio(e[k - 1], nom, con[k])
    BY <1>1, <2>1
  <2>3. ASSUME NEW k \in 1..n PROVE e[k] = e[k - 1] + parte(k)
    <3>1. k - 1 \in 0..n
      OBVIOUS
    <3>2. PICK x, l, c : /\ x = e[k - 1] /\ l = Largo(nom[con[k].usuario])
                         /\ c = Caracteres(<<"ip", con[k].ip>>)
      OBVIOUS
    <3>3. x \in Nat /\ l \in Nat /\ c \in Nat
      <4>1. x \in Nat
        BY <2>2, <3>1, <3>2
      <4>2. Largo(nom[con[k].usuario]) \in Nat /\ Caracteres(<<"ip", con[k].ip>>) = 9
        BY <1>1, EntradaBien
      <4> QED
        BY <3>2, <4>1, <4>2
    <3>4. e[k] = x + l + 4 + c + 4 + 5 + 1
      BY <2>2, <3>2 DEF MasEspacio
    <3>5. parte(k) = l + 4 + c + 4 + 5 + 1
      BY <3>2
    <3> HIDE DEF parte
    <3>6. e[k] = x + parte(k)
      BY <3>3, <3>4, <3>5
    <3> QED
      BY <3>2, <3>6
  <2> QED
    BY <2>2, <2>3
<1>4. ASSUME NEW k \in 1..n
      PROVE  /\ Largo(g[k]) = Largo(g[k - 1]) + Largo(Linea(nom, con, k))
             /\ Largo(g[k - 1]) \in Nat /\ e[k - 1] \in Nat
             /\ Largo(Linea(nom, con, k)) \in Nat
             /\ Largo(Linea(nom, con, k)) + (IF k < n THEN 0 ELSE 1) <= parte(k)
             /\ parte(k) \in Nat
  <2>1. k - 1 \in 0..n /\ g[k] = g[k - 1] \o Linea(nom, con, k)
    BY <1>2
  <2>2. g[k - 1] \in Textos /\ Linea(nom, con, k) \in Textos /\ e[k - 1] \in Nat
    BY <1>1, <2>1, LineaTexto
  <2>3. Largo(g[k - 1]) \in Nat
    BY <2>2, LargoNat
  <2>4. Largo(g[k]) = Largo(g[k - 1]) + Largo(Linea(nom, con, k))
    BY <2>1, <2>2, LargoUnido
  <2>5. parte(k) \in Nat
    <3>1. Largo(nom[con[k].usuario]) \in Nat /\ Caracteres(<<"ip", con[k].ip>>) = 9
      BY <1>1, EntradaBien
    <3>2. PICK a \in Nat : a = Largo(nom[con[k].usuario])
      BY <3>1
    <3>3. PICK b \in Nat : b = Caracteres(<<"ip", con[k].ip>>)
      BY <3>1
    <3>4. parte(k) = a + 4 + b + 4 + 5 + 1
      BY <3>2, <3>3
    <3> QED
      BY <3>4
  <2>6. /\ Largo(Linea(nom, con, k)) \in Nat
        /\ Largo(Linea(nom, con, k)) + (IF k < n THEN 0 ELSE 1) <= parte(k)
    BY <1>1, LargoLinea
  <2> QED
    BY <2>2, <2>3, <2>4, <2>5, <2>6
<1> HIDE DEF parte
<1> DEFINE T == {k \in Nat : k < n => Largo(g[k]) <= e[k]}
<1>5. 0 \in T
  BY <1>2, <1>3, LargoVacio
<1>6. ASSUME NEW k \in T PROVE k + 1 \in T
  <2> SUFFICES ASSUME k \in Nat, k + 1 < n PROVE Largo(g[k + 1]) <= e[k + 1]
    OBVIOUS
  <2>1. k + 1 \in 1..n /\ (k + 1) - 1 = k /\ Largo(g[k]) <= e[k]
    OBVIOUS
  <2>2. e[k + 1] = e[k] + parte(k + 1)
    BY <1>3, <2>1
  <2>3. /\ Largo(g[k + 1]) = Largo(g[k]) + Largo(Linea(nom, con, k + 1))
        /\ Largo(g[k]) \in Nat /\ e[k] \in Nat /\ parte(k + 1) \in Nat
        /\ Largo(Linea(nom, con, k + 1)) \in Nat
        /\ Largo(Linea(nom, con, k + 1)) + (IF k + 1 < n THEN 0 ELSE 1) <= parte(k + 1)
    BY <1>4, <2>1
  <2> QED
    BY <2>1, <2>2, <2>3
<1>7. T = Nat
  <2>1. T \in SUBSET Nat
    OBVIOUS
  <2> HIDE DEF T
  <2> QED
    BY <1>5, <1>6, <2>1, Induccion
<1>8. n - 1 \in T /\ n \in 1..n
  BY <1>1, <1>7
<1>9. Largo(g[n - 1]) <= e[n - 1]
  BY <1>1, <1>8
<1>10. Largo(g[n]) + 1 <= e[n]
  <2>1. e[n] = e[n - 1] + parte(n)
    BY <1>3, <1>8
  <2>2. /\ Largo(g[n]) = Largo(g[n - 1]) + Largo(Linea(nom, con, n))
        /\ Largo(g[n - 1]) \in Nat /\ e[n - 1] \in Nat /\ parte(n) \in Nat
        /\ Largo(Linea(nom, con, n)) \in Nat
        /\ Largo(Linea(nom, con, n)) + 1 <= parte(n)
    BY <1>4, <1>8
  <2> QED
    BY <1>9, <2>1, <2>2
<1> QED
  BY <1>2, <1>3, <1>10
-----------------------------------------------------------------------------
\* The connected users that users() finds, whatever the list has become.
Entrada(u) == [usuario |-> u, ip |-> ip[u], puerto |-> puerto[u]]
Anotar(c, u) == IF conectado[u] THEN Append(c, Entrada(u)) ELSE c

LEMMA EntradaConectado ==
  ASSUME RedCoherente, NEW u \in Usuarios, conectado[u]
  PROVE  Entrada(u) \in Entradas /\ Entrada(u).usuario = u
<1>1. ip[u] \in IPs /\ puerto[u] \in Puertos
  BY DEF RedCoherente
<1> QED
  BY <1>1 DEF Entrada, Entradas

\* The walk of the list adds the connected users one by one.
LEMMA ConectadosPasos ==
  ASSUME TypeOK, RedCoherente
  PROVE  \E g \in [0..Len(lista) -> Seq(Entradas)] :
           /\ g[0] = <<>> /\ Conectados = g[Len(lista)]
           /\ \A k \in 1..Len(lista) : g[k] = Anotar(g[k - 1], lista[k])
<1>1. PICK n \in Nat : n = Len(lista) /\ DOMAIN lista = 1..n
  BY DEF TypeOK
<1>2. PICK h : h = [x \in (1..n) \X Seq(Entradas) |-> Anotar(x[2], lista[x[1]])]
  OBVIOUS
<1>3. ASSUME NEW k \in 1..n, NEW x \in Seq(Entradas) PROVE Anotar(x, lista[k]) \in Seq(Entradas)
  <2>1. lista[k] \in Usuarios
    BY <1>1 DEF TypeOK
  <2>2. CASE conectado[lista[k]]
    <3>1. Entrada(lista[k]) \in Entradas
      BY <2>1, <2>2, EntradaConectado
    <3>2. Append(x, Entrada(lista[k])) \in Seq(Entradas)
      BY <3>1
    <3> QED
      BY <2>2, <3>2 DEF Anotar
  <2>3. CASE ~conectado[lista[k]]
    BY <2>3 DEF Anotar
  <2> QED
    BY <2>2, <2>3
<1>4. h \in [(1..n) \X Seq(Entradas) -> Seq(Entradas)]
  <2>1. \A x \in (1..n) \X Seq(Entradas) : Anotar(x[2], lista[x[1]]) \in Seq(Entradas)
    BY <1>3
  <2> QED
    BY <1>2, <2>1
<1>5. \A k \in 1..n : \A x \in Seq(Entradas) : h[<<k, x>>] = Anotar(x, lista[k])
  BY <1>2
<1>6. <<>> \in Seq(Entradas)
  BY EmptySeq
<1> DEFINE ec(f) == [s \in SUBSET (1..n) |->
                       IF s = {} THEN <<>> ELSE Anotar(f[s \ {Max(s)}], lista[Max(s)])]
<1>7. \E f : f = ec(f)
  <2>1. PICK f \in [SUBSET (1..n) -> Seq(Entradas)] : EsPliegue(f, n, <<>>, h)
    BY <1>4, <1>6, PliegueExiste DEF HayPliegue
  <2>2. ASSUME NEW s \in SUBSET (1..n) PROVE f[s] = ec(f)[s]
    <3>1. CASE s = {}
      BY <2>1, <3>1 DEF EsPliegue
    <3>2. CASE s # {}
      <4>1. Max(s) \in 1..n /\ s \ {Max(s)} \in SUBSET (1..n)
        BY <3>2, MaxDe
      <4>2. f[s] = h[<<Max(s), f[s \ {Max(s)}]>>]
        BY <2>1, <3>2 DEF EsPliegue
      <4>3. f[s \ {Max(s)}] \in Seq(Entradas)
        BY <2>1, <4>1
      <4> QED
        BY <1>5, <3>2, <4>1, <4>2, <4>3
    <3> QED
      BY <3>1, <3>2
  <2>3. f = ec(f)
    BY <2>1, <2>2
  <2> QED
    BY <2>3
<1>8. PICK f : f = ec(f) /\ Conectados = f[1..n]
  <2>1. PICK f : f = CHOOSE e : e = ec(e)
    OBVIOUS
  <2>2. f = ec(f)
    BY <1>7, <2>1
  <2>3. Conectados = (CHOOSE e : e = ec(e))[1..n]
    BY <1>1 DEF Conectados, FoldLeft, Anotar, Entrada, MapThenFoldSet
  <2> QED
    BY <2>1, <2>2, <2>3
<1>9. Prefijos(f, n, Seq(Entradas), <<>>, h)
  <2>1. f[{}] = <<>>
    BY <1>8
  <2>2. ASSUME NEW k \in 1..n, f[1..(k - 1)] \in Seq(Entradas)
        PROVE  f[1..k] = h[<<k, f[1..(k - 1)]>>]
    <3>1. Max(1..k) = k /\ (1..k) \ {k} = 1..(k - 1) /\ 1..k # {}
      BY Tramo
    <3>2. 1..k \in SUBSET (1..n)
      OBVIOUS
    <3>3. h[<<k, f[1..(k - 1)]>>] = Anotar(f[1..(k - 1)], lista[k])
      BY <1>5, <2>2
    <3>4. f[1..k] = Anotar(f[1..(k - 1)], lista[k])
      BY <1>8, <3>1, <3>2
    <3> QED
      BY <3>3, <3>4
  <2> QED
    BY <1>4, <1>6, <2>1, <2>2 DEF Prefijos
<1>10. PICK g : g = [k \in 0..n |-> f[1..k]]
  OBVIOUS
<1>11. /\ [k \in 0..n |-> f[1..k]] \in [0..n -> Seq(Entradas)] /\ f[1..0] = <<>>
       /\ \A k \in 1..n : f[1..k] = h[<<k, f[1..(k - 1)]>>]
  BY <1>9, Plegado
<1>12. g \in [0..n -> Seq(Entradas)] /\ g[0] = <<>> /\ Conectados = g[n]
  <2>1. 0 \in 0..n /\ n \in 0..n
    OBVIOUS
  <2>2. g[0] = f[1..0] /\ g[n] = f[1..n]
    BY <1>10, <2>1
  <2> QED
    BY <1>8, <1>10, <1>11, <2>2
<1>13. ASSUME NEW k \in 1..n PROVE g[k] = Anotar(g[k - 1], lista[k])
  <2>1. k - 1 \in 0..n /\ k \in 0..n
    OBVIOUS
  <2>2. g[k] = f[1..k] /\ g[k - 1] = f[1..(k - 1)] /\ g[k - 1] \in Seq(Entradas)
    BY <1>10, <1>12, <2>1
  <2>3. f[1..k] = h[<<k, g[k - 1]>>]
    BY <1>11, <2>2
  <2> QED
    BY <1>5, <2>2, <2>3
<1> QED
  BY <1>1, <1>12, <1>13

\* Each of them once: the entries follow the list, which repeats no name.
Anotados(c, k) ==
  /\ \A i \in 1..Len(c) : \E j \in 1..k : c[i].usuario = lista[j]
  /\ \A i \in 1..Len(c), j \in 1..Len(c) : c[i].usuario = c[j].usuario => i = j

LEMMA AnotarUno ==
  ASSUME TypeOK, RedCoherente, SinRepetidos, NEW k \in 1..Len(lista),
         NEW c \in Seq(Entradas), Anotados(c, k - 1)
  PROVE  Anotados(Anotar(c, lista[k]), k)
<1>1. PICK n \in Nat : n = Len(lista)
  BY DEF TypeOK
<1>2. \A j \in 1..(k - 1) : j \in 1..k /\ j # k /\ j \in 1..n
  BY <1>1
<1>3. lista[k] \in Usuarios /\ k \in 1..k
  BY <1>1 DEF TypeOK
<1>4. CASE ~conectado[lista[k]]
  <2>1. Anotar(c, lista[k]) = c
    BY <1>4 DEF Anotar
  <2> QED
    BY <1>2, <2>1 DEF Anotados
<1>5. CASE conectado[lista[k]]
  <2>1. PICK e \in Entradas : e = Entrada(lista[k]) /\ e.usuario = lista[k]
    BY <1>3, <1>5, EntradaConectado
  <2>2. Anotar(c, lista[k]) = Append(c, e)
    BY <1>5, <2>1 DEF Anotar
  <2>3. PICK m \in Nat : m = Len(c)
    OBVIOUS
  <2>4. /\ Append(c, e) \in Seq(Entradas) /\ Len(Append(c, e)) = m + 1
        /\ \A i \in 1..m : Append(c, e)[i] = c[i]
        /\ Append(c, e)[m + 1] = e
    BY <2>3, AlFinal
  <2>5. \A i \in 1..m : \E j \in 1..(k - 1) : c[i].usuario = lista[j]
    BY <2>3 DEF Anotados
  <2>6. \A i \in 1..m : c[i].usuario # e.usuario
    <3> SUFFICES ASSUME NEW i \in 1..m, c[i].usuario = e.usuario PROVE FALSE
      OBVIOUS
    <3>1. PICK j \in 1..(k - 1) : c[i].usuario = lista[j]
      BY <2>5
    <3>2. lista[j] = lista[k] /\ j \in 1..Len(lista) /\ j # k
      BY <1>1, <1>2, <2>1, <3>1
    <3> QED
      BY <3>2 DEF SinRepetidos
  <2>7. \A i \in 1..(m + 1) : i \in 1..m \/ i = m + 1
    OBVIOUS
  <2>8. \A i \in 1..(m + 1) : \E j \in 1..k : Append(c, e)[i].usuario = lista[j]
    BY <1>2, <1>3, <2>1, <2>4, <2>5, <2>7
  <2>9. \A i \in 1..m, j \in 1..m : c[i].usuario = c[j].usuario => i = j
    BY <2>3 DEF Anotados
  <2>10. ASSUME NEW i \in 1..(m + 1), NEW j \in 1..(m + 1),
                Append(c, e)[i].usuario = Append(c, e)[j].usuario
         PROVE  i = j
    BY <2>4, <2>6, <2>7, <2>9, <2>10
  <2>11. PICK d : d = Append(c, e)
    OBVIOUS
  <2>12. /\ Len(d) = m + 1 /\ \A i \in 1..(m + 1) : \E j \in 1..k : d[i].usuario = lista[j]
         /\ \A i \in 1..(m + 1), j \in 1..(m + 1) : d[i].usuario = d[j].usuario => i = j
    BY <2>4, <2>8, <2>10, <2>11
  <2>13. Anotados(d, k)
    BY <2>12 DEF Anotados
  <2> QED
    BY <2>2, <2>11, <2>13
<1> QED
  BY <1>4, <1>5

LEMMA ConectadosBien ==
  ASSUME TypeOK, RedCoherente, SinRepetidos
  PROVE  Conectados \in Seq(Entradas) /\ Anotados(Conectados, Len(lista))
<1>1. PICK n \in Nat : n = Len(lista)
  BY DEF TypeOK
<1>2. PICK g \in [0..n -> Seq(Entradas)] :
        /\ g[0] = <<>> /\ Conectados = g[n]
        /\ \A k \in 1..n : g[k] = Anotar(g[k - 1], lista[k])
  BY <1>1, ConectadosPasos
<1> DEFINE T == {k \in Nat : k <= n => Anotados(g[k], k)}
<1>3. 0 \in T
  <2>1. 1..Len(<<>>) = {}
    OBVIOUS
  <2>2. Anotados(<<>>, 0)
    BY <2>1 DEF Anotados
  <2> QED
    BY <1>2, <2>2
<1>4. ASSUME NEW k \in T PROVE k + 1 \in T
  <2> SUFFICES ASSUME k \in Nat, k + 1 <= n PROVE Anotados(g[k + 1], k + 1)
    OBVIOUS
  <2>1. k \in 0..n /\ k + 1 \in 1..n /\ (k + 1) - 1 = k /\ Anotados(g[k], k)
    OBVIOUS
  <2>2. g[k] \in Seq(Entradas) /\ g[k + 1] = Anotar(g[k], lista[k + 1])
    BY <1>2, <2>1
  <2>3. PICK m : m = k + 1
    OBVIOUS
  <2>4. m \in 1..Len(lista) /\ Anotados(g[k], m - 1)
    BY <1>1, <2>1, <2>3
  <2>5. Anotados(Anotar(g[k], lista[m]), m)
    BY <2>2, <2>4, AnotarUno
  <2> QED
    BY <2>2, <2>3, <2>5
<1>5. T = Nat
  <2>1. T \in SUBSET Nat
    OBVIOUS
  <2> HIDE DEF T
  <2> QED
    BY <1>3, <1>4, <2>1, Induccion
<1>6. n \in 0..n /\ Anotados(g[n], n)
  <2>1. n \in T
    <3> HIDE DEF T
    <3> QED
      BY <1>5
  <2> QED
    BY <2>1
<1> QED
  BY <1>1, <1>2, <1>6

\* A sequence of entries, each user's once, is one of the answers.
LEMMA RespuestaDeEntradas ==
  ASSUME NEW c \in Seq(Entradas),
         \A i \in 1..Len(c), j \in 1..Len(c) : c[i].usuario = c[j].usuario => i = j
  PROVE  c \in Respuestas
<1>1. PICK n \in Nat : n = Len(c)
  OBVIOUS
<1>2. c \in [1..n -> Entradas]
  BY <1>1, LenProperties
<1>3. IsFiniteSet(Usuarios)
  BY ListadoSupuestos
<1>4. PICK f : f = [i \in 1..n |-> c[i].usuario]
  OBVIOUS
<1>5. f \in Injection(1..n, Usuarios)
  <2>1. \A i \in 1..n : c[i].usuario \in Usuarios
    BY <1>2 DEF Entradas
  <2>2. f \in [1..n -> Usuarios]
    BY <1>4, <2>1
  <2>3. \A i \in 1..n, j \in 1..n : f[i] = f[j] => i = j
    BY <1>1, <1>4
  <2> QED
    BY <2>2, <2>3 DEF Injection, IsInjective
<1>6. Cardinality(1..n) <= Cardinality(Usuarios)
  BY <1>3, <1>5, FS_Injection
<1>7. Cardinality(1..n) = n
  <2>1. 1 \in Int /\ n \in Int
    OBVIOUS
  <2>2. Cardinality(1..n) = IF 1 > n THEN 0 ELSE n - 1 + 1
    BY <2>1, FS_Interval
  <2> QED
    BY <2>2
<1>8. Cardinality(Usuarios) \in Nat
  BY <1>3, FS_CardinalityType
<1>9. n \in 0..Cardinality(Usuarios)
  BY <1>6, <1>7, <1>8
<1>10. \A i, j \in 1..n : c[i].usuario = c[j].usuario => i = j
  BY <1>1
<1> QED
  BY <1>2, <1>9, <1>10 DEF Respuestas, Entradas

\* And an answer is such a sequence.
LEMMA RespuestaBien ==
  ASSUME NEW con \in Respuestas
  PROVE  /\ con \in Seq(Entradas)
         /\ \A i \in 1..Len(con), j \in 1..Len(con) : con[i].usuario = con[j].usuario => i = j
<1>1. Cardinality(Usuarios) \in Nat
  BY ListadoSupuestos, FS_CardinalityType
<1>2. PICK k \in 0..Cardinality(Usuarios) :
        /\ con \in [1..k -> [usuario : Usuarios, ip : IPs, puerto : Puertos]]
        /\ \A i, j \in 1..k : con[i].usuario = con[j].usuario => i = j
  BY DEF Respuestas
<1>3. k \in Nat
  BY <1>1
<1>4. con \in [1..k -> Entradas]
  BY <1>2 DEF Entradas
<1>5. con \in Seq(Entradas) /\ Len(con) = k
  <2>1. con \in Seq(Entradas)
    BY <1>3, <1>4, SeqDef
  <2> QED
    BY <1>3, <1>4, <2>1, LenProperties
<1> QED
  BY <1>2, <1>5

\* So every answer fits.
LEMMA TodosCaben == TodasCaben
<1> SUFFICES ASSUME NEW con \in Respuestas \ {<<>>}, NEW nom \in Nombres
             PROVE  Largo(Texto(nom, con)) + 1 <= EspacioNecesario(nom, con)
  BY DEF TodasCaben
<1>1. con \in Seq(Entradas) /\ con # <<>>
  BY RespuestaBien
<1> QED
  BY <1>1, TextoCabe

\* What users() finds is an answer.
LEMMA ConectadosRespuesta ==
  ASSUME TypeOK, RedCoherente, SinRepetidos
  PROVE  Conectados \in Respuestas
<1>1. Conectados \in Seq(Entradas) /\ Anotados(Conectados, Len(lista))
  BY ConectadosBien
<1> HIDE DEF Conectados
<1>2. PICK c : c = Conectados
  OBVIOUS
<1>3. \A i \in 1..Len(c), j \in 1..Len(c) : c[i].usuario = c[j].usuario => i = j
  BY <1>1, <1>2 DEF Anotados
<1>4. c \in Respuestas
  BY <1>1, <1>2, <1>3, RespuestaDeEntradas
<1> QED
  BY <1>2, <1>4

\* users() never writes past the end of the buffer it allocates: for any users,
\* addresses, ports and names, and whatever requests and failures made the list
\* what it is, what its second loop writes of the connected users fits, the final
\* zero included, in what its first loop counted.
THEOREM BufferBasta == Spec => []BufferSuficiente
<1>1. TypeOK /\ RedCoherente /\ SinRepetidos => BufferSuficiente
  BY TodosCaben, ConectadosRespuesta DEF BufferSuficiente
<1> QED
  BY <1>1, TipoCorrecto, RedSiempreCoherente, NombresUnicos, PTL
-----------------------------------------------------------------------------
\* What strtok makes of a text, atom by atom.
LEMMA PrincipioFin ==
  ASSUME NEW A, NEW r \in Seq(A), NEW l \in A
  PROVE  Front(Append(r, l)) = r /\ Last(Append(r, l)) = l
<1>1. PICK n \in Nat : n = Len(r)
  OBVIOUS
<1>2. PICK p : p = Append(r, l)
  OBVIOUS
<1>3. /\ p \in Seq(A) /\ Len(p) = n + 1
      /\ \A i \in 1..n : p[i] = r[i]
      /\ p[n + 1] = l
  BY <1>1, <1>2, AlFinal
<1>4. Last(p) = l
  BY <1>3 DEF Last
<1>5. Front(p) = r
  <2>1. Hasta(p, n, A)
    BY <1>1, <1>3 DEF Hasta
  <2>2. /\ SubSeq(p, 1, n) \in Seq(A) /\ Len(SubSeq(p, 1, n)) = n
        /\ \A i \in 1..n : SubSeq(p, 1, n)[i] = p[i]
    BY <2>1, Prefijo
  <2>3. SubSeq(p, 1, n) = r
    BY <1>1, <1>3, <2>2, SeqEqual
  <2>4. (n + 1) - 1 = n
    OBVIOUS
  <2> QED
    BY <1>3, <2>3, <2>4 DEF Front
<1> QED
  BY <1>2, <1>4, <1>5

LEMMA TieneFin ==
  ASSUME NEW A, NEW p \in Seq(A), p # <<>>
  PROVE  \E r \in Seq(A) : \E l \in A : p = Append(r, l)
<1> DEFINE T == {q \in Seq(A) : q # <<>> => \E r \in Seq(A) : \E l \in A : q = Append(r, l)}
<1>1. <<>> \in T
  BY EmptySeq
<1>2. ASSUME NEW q \in T, NEW a \in A PROVE Append(q, a) \in T
  BY AlFinal
<1>3. T = Seq(A)
  <2>1. T \in SUBSET Seq(A)
    OBVIOUS
  <2> HIDE DEF T
  <2> QED
    BY <1>1, <1>2, <2>1, TextoInduccion
<1>4. p \in T
  BY <1>3
<1> QED
  BY <1>4

\* The pieces found so far, the one that is growing last, and what an atom does.
Piezas == Seq(Textos) \ {<<>>}

Cortar(p, a) == IF a # Sep THEN Append(Front(p), Append(Last(p), a))
                ELSE IF Last(p) = <<>> THEN p ELSE Append(p, <<>>)

\* The last piece grows, or is closed by a separator if it is not empty.
LEMMA CortarFin ==
  ASSUME NEW r \in Seq(Textos), NEW l \in Textos, NEW a \in Atomos
  PROVE  /\ Append(r, l) \in Piezas /\ Cortar(Append(r, l), a) \in Piezas
         /\ a # Sep => Cortar(Append(r, l), a) = Append(r, Append(l, a))
         /\ a = Sep => Cortar(Append(r, l), a) =
                         IF l = <<>> THEN Append(r, l) ELSE Append(Append(r, l), <<>>)
<1>1. PICK p : p = Append(r, l)
  OBVIOUS
<1>2. p \in Seq(Textos) /\ p # <<>>
  BY <1>1, AlFinal
<1>3. Front(p) = r /\ Last(p) = l
  BY <1>1, PrincipioFin
<1>4. Append(l, a) \in Textos
  BY AlFinal DEF Textos
<1>5. Append(r, Append(l, a)) \in Seq(Textos) /\ Append(r, Append(l, a)) # <<>>
  BY <1>4, AlFinal
<1>6. <<>> \in Textos
  BY EmptySeq DEF Textos
<1>7. Append(p, <<>>) \in Seq(Textos) /\ Append(p, <<>>) # <<>>
  BY <1>2, <1>6, AlFinal
<1>8. CASE a # Sep
  BY <1>1, <1>2, <1>3, <1>5, <1>8 DEF Cortar, Piezas
<1>9. CASE a = Sep
  BY <1>1, <1>2, <1>3, <1>7, <1>9 DEF Cortar, Piezas
<1> QED
  BY <1>8, <1>9

LEMMA CortarBien ==
  ASSUME NEW p \in Piezas, NEW a \in Atomos
  PROVE  Cortar(p, a) \in Piezas
<1>1. p \in Seq(Textos) /\ p # <<>>
  BY DEF Piezas
<1>2. PICK r \in Seq(Textos) : \E l \in Textos : p = Append(r, l)
  BY <1>1, TieneFin
<1>3. PICK l \in Textos : p = Append(r, l)
  BY <1>2
<1> QED
  BY <1>3, CortarFin

LEMMA UnaPieza ==
  /\ <<>> \in Textos /\ <<>> \in Seq(Textos) /\ <<<<>>>> = Append(<<>>, <<>>)
  /\ <<<<>>>> \in Piezas
<1>1. <<>> \in Textos /\ <<>> \in Seq(Textos)
  BY EmptySeq DEF Textos
<1>2. <<<<>>>> = Append(<<>>, <<>>)
  OBVIOUS
<1>3. Append(<<>>, <<>>) \in Seq(Textos) /\ Append(<<>>, <<>>) # <<>>
  BY <1>1, AlFinal
<1> QED
  BY <1>1, <1>2, <1>3 DEF Piezas

\* strtok goes through the text cutting it at each atom.
LEMMA TrozosPasos ==
  ASSUME NEW t \in Textos
  PROVE  \E g \in [0..Len(t) -> Piezas] :
           /\ g[0] = <<<<>>>> /\ Trozos(t) = g[Len(t)]
           /\ \A k \in 1..Len(t) : g[k] = Cortar(g[k - 1], t[k])
<1>1. PICK n \in Nat : n = Len(t) /\ DOMAIN t = 1..n
  BY DEF Textos
<1>2. PICK h : h = [x \in (1..n) \X Piezas |-> Cortar(x[2], t[x[1]])]
  OBVIOUS
<1>3. ASSUME NEW k \in 1..n, NEW x \in Piezas PROVE Cortar(x, t[k]) \in Piezas
  <2>1. t[k] \in Atomos
    BY <1>1 DEF Textos
  <2> QED
    BY <2>1, CortarBien
<1>4. h \in [(1..n) \X Piezas -> Piezas]
  <2>1. \A x \in (1..n) \X Piezas : Cortar(x[2], t[x[1]]) \in Piezas
    BY <1>3
  <2> QED
    BY <1>2, <2>1
<1>5. \A k \in 1..n : \A x \in Piezas : h[<<k, x>>] = Cortar(x, t[k])
  BY <1>2
<1>6. <<<<>>>> \in Piezas
  BY UnaPieza
<1> DEFINE ec(f) == [s \in SUBSET (1..n) |->
                       IF s = {} THEN <<<<>>>> ELSE Cortar(f[s \ {Max(s)}], t[Max(s)])]
<1>7. \E f : f = ec(f)
  <2>1. PICK f \in [SUBSET (1..n) -> Piezas] : EsPliegue(f, n, <<<<>>>>, h)
    BY <1>4, <1>6, PliegueExiste DEF HayPliegue
  <2>2. ASSUME NEW s \in SUBSET (1..n) PROVE f[s] = ec(f)[s]
    <3>1. CASE s = {}
      BY <2>1, <3>1 DEF EsPliegue
    <3>2. CASE s # {}
      <4>1. Max(s) \in 1..n /\ s \ {Max(s)} \in SUBSET (1..n)
        BY <3>2, MaxDe
      <4>2. f[s] = h[<<Max(s), f[s \ {Max(s)}]>>]
        BY <2>1, <3>2 DEF EsPliegue
      <4>3. f[s \ {Max(s)}] \in Piezas
        BY <2>1, <4>1
      <4> QED
        BY <1>5, <3>2, <4>1, <4>2, <4>3
    <3> QED
      BY <3>1, <3>2
  <2>3. f = ec(f)
    BY <2>1, <2>2
  <2> QED
    BY <2>3
<1>8. PICK f : f = ec(f) /\ Trozos(t) = f[1..n]
  <2>1. PICK f : f = CHOOSE e : e = ec(e)
    OBVIOUS
  <2>2. f = ec(f)
    BY <1>7, <2>1
  <2>3. Trozos(t) = (CHOOSE e : e = ec(e))[1..n]
    BY <1>1 DEF Trozos, FoldLeft, Cortar, MapThenFoldSet
  <2> QED
    BY <2>1, <2>2, <2>3
<1>9. Prefijos(f, n, Piezas, <<<<>>>>, h)
  <2>1. f[{}] = <<<<>>>>
    BY <1>8
  <2>2. ASSUME NEW k \in 1..n, f[1..(k - 1)] \in Piezas
        PROVE  f[1..k] = h[<<k, f[1..(k - 1)]>>]
    <3>1. Max(1..k) = k /\ (1..k) \ {k} = 1..(k - 1) /\ 1..k # {}
      BY Tramo
    <3>2. 1..k \in SUBSET (1..n)
      OBVIOUS
    <3>3. h[<<k, f[1..(k - 1)]>>] = Cortar(f[1..(k - 1)], t[k])
      BY <1>5, <2>2
    <3>4. f[1..k] = Cortar(f[1..(k - 1)], t[k])
      BY <1>8, <3>1, <3>2
    <3> QED
      BY <3>3, <3>4
  <2> QED
    BY <1>4, <1>6, <2>1, <2>2 DEF Prefijos
<1>10. PICK g : g = [k \in 0..n |-> f[1..k]]
  OBVIOUS
<1>11. /\ [k \in 0..n |-> f[1..k]] \in [0..n -> Piezas] /\ f[1..0] = <<<<>>>>
       /\ \A k \in 1..n : f[1..k] = h[<<k, f[1..(k - 1)]>>]
  BY <1>9, Plegado
<1>12. g \in [0..n -> Piezas] /\ g[0] = <<<<>>>> /\ Trozos(t) = g[n]
  <2>1. 0 \in 0..n /\ n \in 0..n
    OBVIOUS
  <2>2. g[0] = f[1..0] /\ g[n] = f[1..n]
    BY <1>10, <2>1
  <2> QED
    BY <1>8, <1>10, <1>11, <2>2
<1>13. ASSUME NEW k \in 1..n PROVE g[k] = Cortar(g[k - 1], t[k])
  <2>1. k - 1 \in 0..n /\ k \in 0..n
    OBVIOUS
  <2>2. g[k] = f[1..k] /\ g[k - 1] = f[1..(k - 1)] /\ g[k - 1] \in Piezas
    BY <1>10, <1>12, <2>1
  <2>3. f[1..k] = h[<<k, g[k - 1]>>]
    BY <1>11, <2>2
  <2> QED
    BY <1>5, <2>2, <2>3
<1> QED
  BY <1>1, <1>12, <1>13

LEMMA TrozosVacio == Trozos(<<>>) = <<<<>>>>
<1>1. <<>> \in Textos /\ Len(<<>>) = 0
  BY EmptySeq DEF Textos
<1>2. PICK g \in [0..Len(<<>>) -> Piezas] : g[0] = <<<<>>>> /\ Trozos(<<>>) = g[Len(<<>>)]
  BY <1>1, TrozosPasos
<1> QED
  BY <1>1, <1>2

LEMMA TrozosMas ==
  ASSUME NEW t \in Textos, NEW a \in Atomos
  PROVE  Trozos(t) \in Piezas /\ Trozos(Append(t, a)) = Cortar(Trozos(t), a)
<1>1. PICK n \in Nat : n = Len(t)
  BY DEF Textos
<1>2. PICK u : u = Append(t, a)
  OBVIOUS
<1>3. u \in Textos /\ Len(u) = n + 1 /\ u[n + 1] = a /\ \A k \in 1..n : u[k] = t[k]
  BY <1>1, <1>2 DEF Textos
<1>4. PICK f \in [0..n -> Piezas] : /\ f[0] = <<<<>>>> /\ Trozos(t) = f[n]
                                    /\ \A k \in 1..n : f[k] = Cortar(f[k - 1], t[k])
  BY <1>1, TrozosPasos
<1>5. PICK g \in [0..(n + 1) -> Piezas] :
        /\ g[0] = <<<<>>>> /\ Trozos(u) = g[n + 1]
        /\ \A k \in 1..(n + 1) : g[k] = Cortar(g[k - 1], u[k])
  <2>1. \E g \in [0..Len(u) -> Piezas] :
          /\ g[0] = <<<<>>>> /\ Trozos(u) = g[Len(u)]
          /\ \A k \in 1..Len(u) : g[k] = Cortar(g[k - 1], u[k])
    BY <1>3, TrozosPasos
  <2> QED
    BY <1>3, <2>1
<1>6. PICK h : h = [x \in (1..n) \X Piezas |-> Cortar(x[2], t[x[1]])]
  OBVIOUS
<1>7. ASSUME NEW k \in 1..n PROVE f[k] = h[<<k, f[k - 1]>>] /\ g[k] = h[<<k, g[k - 1]>>]
  <2>1. k - 1 \in 0..n /\ k - 1 \in 0..(n + 1) /\ k \in 1..(n + 1)
    OBVIOUS
  <2>2. f[k - 1] \in Piezas /\ g[k - 1] \in Piezas
    BY <2>1
  <2>3. \A x \in Piezas : h[<<k, x>>] = Cortar(x, t[k])
    BY <1>6
  <2>4. f[k] = Cortar(f[k - 1], t[k]) /\ g[k] = Cortar(g[k - 1], t[k])
    BY <1>3, <1>4, <1>5, <2>1
  <2> QED
    BY <2>2, <2>3, <2>4
<1>8. f[n] = g[n]
  <2>1. f[0] = g[0]
    BY <1>4, <1>5
  <2>2. Pasos(f, n, h) /\ Pasos(g, n, h)
    BY <1>7 DEF Pasos
  <2> QED
    BY <2>1, <2>2, MismosPasos
<1>9. g[n + 1] = Cortar(g[n], a) /\ f[n] \in Piezas
  <2>1. n + 1 \in 1..(n + 1) /\ (n + 1) - 1 = n /\ n \in 0..n
    OBVIOUS
  <2> QED
    BY <1>3, <1>5, <2>1
<1> QED
  BY <1>2, <1>4, <1>5, <1>8, <1>9

\* Without separators only the last piece grows.
SinSep == Atomos \ {Sep}

LEMMA TrozosSinSep ==
  ASSUME NEW p \in Textos, NEW r \in Seq(Textos), NEW l \in Textos, Trozos(p) = Append(r, l),
         NEW q \in Seq(SinSep)
  PROVE  l \o q \in Textos /\ p \o q \in Textos /\ Trozos(p \o q) = Append(r, l \o q)
<1> DEFINE T == {s \in Seq(SinSep) : s \in Textos /\ Trozos(p \o s) = Append(r, l \o s)}
<1>1. <<>> \in T
  <2>1. <<>> \in Seq(SinSep) /\ <<>> \in Textos
    BY EmptySeq DEF Textos
  <2>2. p \o <<>> = p /\ l \o <<>> = l
    BY ConcatEmptySeq DEF Textos
  <2> QED
    BY <2>1, <2>2
<1>2. ASSUME NEW s \in T, NEW a \in SinSep PROVE Append(s, a) \in T
  <2>1. s \in Textos /\ s \in Seq(SinSep) /\ Trozos(p \o s) = Append(r, l \o s)
    OBVIOUS
  <2>2. a \in Atomos /\ a # Sep
    BY DEF SinSep
  <2>3. Append(s, a) \in Seq(SinSep) /\ Append(s, a) \in Textos
    BY <2>1, <2>2, AlFinal DEF Textos
  <2>4. /\ p \o s \in Textos /\ p \o Append(s, a) = Append(p \o s, a)
        /\ l \o s \in Textos /\ l \o Append(s, a) = Append(l \o s, a)
    <3>1. p \o s \in Textos /\ l \o s \in Textos
      BY <2>1, Unir
    <3>2. Suma(p, s, a) /\ Suma(l, s, a)
      BY <2>1, <2>2, SumarTexto
    <3> QED
      BY <3>1, <3>2 DEF Suma
  <2>5. Trozos(Append(p \o s, a)) = Cortar(Trozos(p \o s), a)
    BY <2>2, <2>4, TrozosMas
  <2>6. Cortar(Append(r, l \o s), a) = Append(r, Append(l \o s, a))
    BY <2>2, <2>4, CortarFin
  <2>7. Trozos(p \o Append(s, a)) = Append(r, l \o Append(s, a))
    BY <2>1, <2>4, <2>5, <2>6
  <2> QED
    BY <2>3, <2>7
<1>3. T = Seq(SinSep)
  <2>1. T \in SUBSET Seq(SinSep)
    OBVIOUS
  <2> HIDE DEF T
  <2> QED
    BY <1>1, <1>2, <2>1, TextoInduccion
<1>4. q \in Textos /\ Trozos(p \o q) = Append(r, l \o q)
  <2>1. q \in T
    BY <1>3
  <2> QED
    BY <2>1
<1> QED
  BY <1>4, SumarAlFinal DEF Textos

LEMMA PiezaNueva ==
  ASSUME NEW p \in Textos, NEW r \in Seq(Textos), Trozos(p) = Append(r, <<>>),
         NEW q \in Seq(SinSep)
  PROVE  p \o q \in Textos /\ Trozos(p \o q) = Append(r, q)
<1>1. PICK l \in Textos : l = <<>>
  BY UnaPieza
<1>2. p \o q \in Textos /\ Trozos(p \o q) = Append(r, l \o q)
  BY <1>1, TrozosSinSep
<1>3. l \o q = q
  BY <1>1, ConcatEmptySeq
<1> QED
  BY <1>2, <1>3

\* A separator closes the last piece.
LEMMA TrozosConSep ==
  ASSUME NEW p \in Textos, NEW r \in Seq(Textos), NEW l \in Textos, Trozos(p) = Append(r, l),
         l # <<>>
  PROVE  /\ p \o <<Sep>> \in Textos
         /\ Trozos(p \o <<Sep>>) = Append(Append(r, l), <<>>)
<1>1. Sep \in Atomos /\ p \o <<Sep>> = Append(p, Sep)
  BY DEF Atomos, Textos
<1>2. Trozos(Append(p, Sep)) = Cortar(Append(r, l), Sep)
  BY <1>1, TrozosMas
<1>3. Append(p, Sep) \in Textos
  BY <1>1, AlFinal DEF Textos
<1> QED
  BY <1>1, <1>2, <1>3, CortarFin

\* A piece that has been closed stays as it is.
Empieza(p, r) == Len(r) < Len(Trozos(p)) /\ \A j \in 1..Len(r) : Trozos(p)[j] = r[j]

LEMMA EmpiezaUno ==
  ASSUME NEW p \in Textos, NEW a \in Atomos, NEW r \in Seq(Textos), Empieza(p, r)
  PROVE  Empieza(Append(p, a), r)
<1>1. Trozos(p) \in Seq(Textos) /\ Trozos(p) # <<>>
  BY TrozosMas DEF Piezas
<1>2. PICK s \in Seq(Textos) : \E l \in Textos : Trozos(p) = Append(s, l)
  BY <1>1, TieneFin
<1>3. PICK l \in Textos : Trozos(p) = Append(s, l)
  BY <1>2
<1>4. PICK n \in Nat : n = Len(r)
  OBVIOUS
<1>5. PICK m \in Nat : m = Len(s)
  OBVIOUS
<1>6. /\ Len(Append(s, l)) = m + 1 /\ \A j \in 1..m : Append(s, l)[j] = s[j]
      /\ Append(s, l) \in Seq(Textos)
  BY <1>5, AlFinal
<1>7. n <= m /\ \A j \in 1..n : s[j] = r[j]
  BY <1>3, <1>4, <1>6 DEF Empieza
<1>8. PICK t : t = Trozos(Append(p, a))
  OBVIOUS
<1>9. Len(t) > m /\ \A j \in 1..m : t[j] = s[j]
  <2>1. t = Cortar(Append(s, l), a)
    BY <1>3, <1>8, TrozosMas
  <2>2. CASE a # Sep
    <3>1. t = Append(s, Append(l, a)) /\ Append(l, a) \in Textos
      BY <2>1, <2>2, AlFinal, CortarFin DEF Textos
    <3>2. Len(t) = m + 1 /\ \A j \in 1..m : t[j] = s[j]
      BY <1>5, <3>1, AlFinal
    <3> QED
      BY <3>2
  <2>3. CASE a = Sep /\ l = <<>>
    <3>1. t = Append(s, l)
      BY <2>1, <2>3, CortarFin
    <3> QED
      BY <1>6, <3>1
  <2>4. CASE a = Sep /\ l # <<>>
    <3>1. t = Append(Append(s, l), <<>>)
      BY <2>1, <2>4, CortarFin
    <3>2. Len(t) = m + 2 /\ \A j \in 1..(m + 1) : t[j] = Append(s, l)[j]
      BY <1>6, <3>1, UnaPieza, AlFinal
    <3> QED
      BY <1>6, <3>2
  <2> QED
    BY <2>2, <2>3, <2>4
<1>10. \A j \in 1..n : j \in 1..m
  BY <1>7
<1>11. n < Len(t) /\ \A j \in 1..n : t[j] = r[j]
  <2>1. Len(t) \in Nat
    <3>1. t = Cortar(Append(s, l), a)
      BY <1>3, <1>8, TrozosMas
    <3>2. t \in Piezas
      BY <3>1, CortarFin
    <3> QED
      BY <3>2 DEF Piezas
  <2> QED
    BY <1>7, <1>9, <1>10, <2>1
<1> QED
  BY <1>4, <1>8, <1>11 DEF Empieza

LEMMA EmpiezaSigue ==
  ASSUME NEW p \in Textos, NEW q \in Textos, NEW r \in Seq(Textos), Empieza(p, r)
  PROVE  Empieza(p \o q, r)
<1> DEFINE T == {s \in Textos : Empieza(p \o s, r)}
<1>1. <<>> \in T
  <2>1. p \o <<>> = p /\ <<>> \in Textos
    BY EmptySeq, ConcatEmptySeq DEF Textos
  <2> QED
    BY <2>1
<1>2. ASSUME NEW s \in T, NEW a \in Atomos PROVE Append(s, a) \in T
  <2>1. s \in Textos /\ Empieza(p \o s, r)
    OBVIOUS
  <2>2. Append(s, a) \in Textos /\ p \o s \in Textos /\ p \o Append(s, a) = Append(p \o s, a)
    BY <2>1, AlFinal, SumarAlFinal DEF Textos
  <2>3. Empieza(Append(p \o s, a), r)
    BY <2>1, <2>2, EmpiezaUno
  <2> QED
    BY <2>2, <2>3
<1>3. T = Textos
  <2>1. T \in SUBSET Seq(Atomos)
    BY DEF Textos
  <2> HIDE DEF T
  <2> QED
    BY <1>1, <1>2, <2>1, TextoInduccion DEF Textos
<1>4. q \in T
  BY <1>3
<1> QED
  BY <1>4
-----------------------------------------------------------------------------
\* The row of a user, as the client takes it from its piece of the answer.
FilaDe(nom, x) == nom[x.usuario] \o Datos(x)
Leida(t) ==
  <<SubSeq(t, 1, SelectInSeq(t, LAMBDA a : a = Campo) - 1),
    t[SelectInSeq(t, LAMBDA a : a = Campo) + 1],
    t[SelectInSeq(t, LAMBDA a : a = Campo) + 3]>>

\* Nothing in a row but a name may have a separator.
LEMMA AtomosDistintos ==
  /\ Sep \notin Letras /\ Campo \notin Letras /\ Sep # Campo
  /\ Letras \subseteq SinSep /\ Campo \in SinSep /\ Sep \in Atomos
  /\ {"ip"} \X IPs \subseteq SinSep /\ {"puerto"} \X Puertos \subseteq SinSep
<1>1. Sep[1] = ";" /\ Campo[1] = " :: "
  BY DEF Sep, Campo
<1>2. \A a \in Letras : a[1] \in {"nombre", "resto"}
  BY DEF Letras
<1>3. \A a \in {"ip"} \X IPs : a[1] = "ip"
  OBVIOUS
<1>4. \A a \in {"puerto"} \X Puertos : a[1] = "puerto"
  OBVIOUS
<1>5. Sep \notin Letras /\ Campo \notin Letras /\ Sep # Campo
  BY <1>1, <1>2
<1>6. Letras \subseteq SinSep /\ Campo \in SinSep /\ Sep \in Atomos
  BY <1>5 DEF SinSep, Atomos
<1>7. {"ip"} \X IPs \subseteq SinSep
  BY <1>1, <1>3 DEF SinSep, Atomos
<1>8. {"puerto"} \X Puertos \subseteq SinSep
  BY <1>1, <1>4 DEF SinSep, Atomos
<1> QED
  BY <1>5, <1>6, <1>7, <1>8

\* The first " :: " of a row is the one after the name.
LEMMA FilaLeida ==
  ASSUME NEW w \in Seq(Letras), NEW a \in Atomos, NEW b \in Atomos, NEW t,
         t = w \o <<Campo, a, Campo, b>>
  PROVE  Contains(t, Campo) /\ Leida(t) = <<w, a, b>>
<1>1. PICK n \in Nat : n = Len(w)
  OBVIOUS
<1>2. PICK d : d = <<Campo, a, Campo, b>>
  OBVIOUS
<1>3. w \in Seq(Atomos)
  BY AtomosDistintos DEF SinSep
<1>4. d \in Seq(Atomos) /\ Len(d) = 4 /\ d[1] = Campo /\ d[2] = a /\ d[4] = b
  BY <1>2, AtomosDistintos DEF SinSep
<1>5. /\ t \in Seq(Atomos) /\ Len(t) = n + 4
      /\ \A i \in 1..(n + 4) : t[i] = IF i <= n THEN w[i] ELSE d[i - n]
  BY <1>1, <1>2, <1>3, <1>4, ConcatProperties
<1>6. \A i \in 1..n : t[i] = w[i] /\ t[i] # Campo
  <2> SUFFICES ASSUME NEW i \in 1..n PROVE t[i] = w[i] /\ t[i] # Campo
    OBVIOUS
  <2>1. t[i] = w[i]
    BY <1>5
  <2>2. w[i] \in Letras
    BY <1>1
  <2> QED
    BY <2>1, <2>2, AtomosDistintos
<1>7. t[n + 1] = Campo /\ t[n + 2] = a /\ t[n + 4] = b
  <2>1. /\ (n + 1) - n = 1 /\ (n + 2) - n = 2 /\ (n + 4) - n = 4
        /\ n + 1 \in 1..(n + 4) /\ n + 2 \in 1..(n + 4) /\ n + 4 \in 1..(n + 4)
        /\ ~(n + 1 <= n) /\ ~(n + 2 <= n) /\ ~(n + 4 <= n)
    OBVIOUS
  <2> QED
    BY <1>4, <1>5, <2>1
<1>8. PICK I : I = {i \in 1..Len(t) : t[i] = Campo}
  OBVIOUS
<1>9. n + 1 \in I /\ \A i \in I : n + 1 <= i
  <2>1. n + 1 \in I
    BY <1>5, <1>7, <1>8
  <2>2. ASSUME NEW i \in I PROVE n + 1 <= i
    <3>1. i \in 1..(n + 4) /\ t[i] = Campo
      BY <1>5, <1>8
    <3>2. ~(i \in 1..n)
      BY <1>6, <3>1
    <3> QED
      BY <3>1, <3>2
  <2> QED
    BY <2>1, <2>2
<1>10. Min(I) = n + 1
  <2>1. \A i \in I : i \in Nat
    BY <1>8
  <2>2. \A i \in I : (\A j \in I : i =< j) => i = n + 1
    BY <1>9, <2>1
  <2> QED
    BY <1>9, <2>2 DEF Min
<1>11. SelectInSeq(t, LAMBDA x : x = Campo) = n + 1
  BY <1>8, <1>9, <1>10 DEF SelectInSeq
<1>12. SubSeq(t, 1, n) = w
  <2>1. PICK p : p = t
    OBVIOUS
  <2>2. Hasta(p, n, Letras)
    BY <1>1, <1>6, <2>1 DEF Hasta
  <2>3. /\ SubSeq(p, 1, n) \in Seq(Letras) /\ Len(SubSeq(p, 1, n)) = n
        /\ \A i \in 1..n : SubSeq(p, 1, n)[i] = p[i]
    BY <2>2, Prefijo
  <2> QED
    BY <1>1, <1>6, <2>1, <2>3, SeqEqual
<1>13. /\ SelectInSeq(t, LAMBDA x : x = Campo) - 1 = n
       /\ SelectInSeq(t, LAMBDA x : x = Campo) + 1 = n + 2
       /\ SelectInSeq(t, LAMBDA x : x = Campo) + 3 = n + 4
  BY <1>11
<1>14. Contains(t, Campo)
  BY <1>5, <1>7 DEF Contains
<1> QED
  BY <1>7, <1>12, <1>13, <1>14 DEF Leida

\* The row of a user whose name is clean is one piece and reads back as it was.
LEMMA FilaBien ==
  ASSUME NEW con \in Seq(Entradas), NEW nom \in Nombres, NEW k \in 1..Len(con),
         nom[con[k].usuario] \in Seq(Letras)
  PROVE  /\ FilaDe(nom, con[k]) \in Seq(SinSep) /\ FilaDe(nom, con[k]) \in Textos
         /\ FilaDe(nom, con[k]) # <<>> /\ Contains(FilaDe(nom, con[k]), Campo)
         /\ Leida(FilaDe(nom, con[k])) =
              <<nom[con[k].usuario], <<"ip", con[k].ip>>, <<"puerto", con[k].puerto>>>>
<1>1. PICK w \in Seq(Letras) : w = nom[con[k].usuario]
  OBVIOUS
<1>2. PICK a, b : a = <<"ip", con[k].ip>> /\ b = <<"puerto", con[k].puerto>>
  OBVIOUS
<1>3. a \in Atomos /\ b \in Atomos
  BY <1>2, EntradaBien
<1>4. a \in SinSep /\ b \in SinSep
  <2>1. con[k].ip \in IPs /\ con[k].puerto \in Puertos
    BY EntradaBien DEF Entradas
  <2>2. a \in {"ip"} \X IPs /\ b \in {"puerto"} \X Puertos
    BY <1>2, <2>1
  <2> QED
    BY <2>2, AtomosDistintos
<1>5. FilaDe(nom, con[k]) = w \o <<Campo, a, Campo, b>>
  BY <1>1, <1>2 DEF FilaDe, Datos
<1>6. PICK t : t = w \o <<Campo, a, Campo, b>>
  OBVIOUS
<1>7. Contains(t, Campo) /\ Leida(t) = <<w, a, b>>
  BY <1>3, <1>6, FilaLeida
<1>8. t \in Seq(SinSep)
  <2>1. w \in Seq(SinSep)
    BY AtomosDistintos
  <2>2. <<Campo, a, Campo, b>> \in Seq(SinSep)
    BY <1>4, AtomosDistintos
  <2> QED
    BY <1>6, <2>1, <2>2, ConcatProperties
<1>9. t \in Textos
  BY <1>8 DEF SinSep, Textos
<1>10. t # <<>>
  <2>1. PICK i \in 1..Len(t) : t[i] = Campo
    BY <1>7 DEF Contains
  <2>2. Len(<<>>) = 0
    OBVIOUS
  <2> QED
    BY <2>1, <2>2
<1> QED
  BY <1>1, <1>2, <1>5, <1>6, <1>7, <1>8, <1>9, <1>10

\* A name is letters, or letters, a separator and more.
LEMMA NombrePartido ==
  ASSUME NEW w \in Seq(Letras \cup {Sep})
  PROVE  /\ Contains(w, Sep) <=> w \notin Seq(Letras)
         /\ w \notin Seq(Letras) =>
              \E x \in Seq(Letras), y \in Seq(Letras \cup {Sep}) : w = (x \o <<Sep>>) \o y
<1> DEFINE A == Letras \cup {Sep}
<1> DEFINE Partido(s) == \E x \in Seq(Letras), y \in Seq(A) : s = (x \o <<Sep>>) \o y
<1> DEFINE T == {s \in Seq(A) : s \in Seq(Letras) \/ Partido(s)}
<1>1. <<>> \in T
  BY EmptySeq
<1>2. ASSUME NEW s \in T, NEW a \in A PROVE Append(s, a) \in T
  <2>1. s \in Seq(A) /\ Append(s, a) \in Seq(A)
    BY AlFinal
  <2>2. CASE s \in Seq(Letras) /\ a \in Letras
    BY <2>1, <2>2, AlFinal
  <2>3. CASE s \in Seq(Letras) /\ a = Sep
    <3>1. <<>> \in Seq(A) /\ s \o <<Sep>> \in Seq(A) /\ Append(s, a) = s \o <<Sep>>
      BY <2>1, <2>3, EmptySeq
    <3>2. (s \o <<Sep>>) \o <<>> = s \o <<Sep>>
      BY <3>1, ConcatEmptySeq
    <3>3. Partido(Append(s, a))
      BY <2>3, <3>1, <3>2
    <3> QED
      BY <2>1, <3>3
  <2>4. CASE Partido(s)
    <3>1. PICK x \in Seq(Letras), y \in Seq(A) : s = (x \o <<Sep>>) \o y
      BY <2>4
    <3>2. x \o <<Sep>> \in Seq(A) /\ Append(y, a) \in Seq(A)
      BY AlFinal
    <3>3. (x \o <<Sep>>) \o Append(y, a) = Append((x \o <<Sep>>) \o y, a)
      BY <3>2, SumarAlFinal
    <3>4. Partido(Append(s, a))
      BY <3>1, <3>2, <3>3
    <3> QED
      BY <2>1, <3>4
  <2> QED
    BY <2>2, <2>3, <2>4
<1>3. T = Seq(A)
  <2>1. T \in SUBSET Seq(A)
    OBVIOUS
  <2> HIDE DEF T, A
  <2> QED
    BY <1>1, <1>2, <2>1, TextoInduccion
<1>4. w \in Seq(Letras) \/ Partido(w)
  <2>1. w \in T
    BY <1>3
  <2> QED
    BY <2>1
<1>5. w \in Seq(Letras) => ~Contains(w, Sep)
  BY AtomosDistintos DEF Contains
<1>6. Partido(w) => Contains(w, Sep)
  <2> SUFFICES ASSUME NEW x \in Seq(Letras), NEW y \in Seq(A), w = (x \o <<Sep>>) \o y
               PROVE  Contains(w, Sep)
    OBVIOUS
  <2>1. PICK n \in Nat : n = Len(x)
    OBVIOUS
  <2>2. x \in Seq(A) /\ Sep \in A /\ x \o <<Sep>> = Append(x, Sep)
    OBVIOUS
  <2>3. PICK z \in Seq(A) : w = z \o y /\ Len(z) = n + 1 /\ z[n + 1] = Sep
    <3> HIDE DEF A
    <3>1. /\ Append(x, Sep) \in Seq(A) /\ Len(Append(x, Sep)) = Len(x) + 1
          /\ Append(x, Sep)[Len(x) + 1] = Sep
      BY <2>2, AlFinal
    <3> QED
      BY <2>1, <2>2, <3>1
  <2>4. PICK m \in Nat : m = Len(y)
    OBVIOUS
  <2>5. /\ Len(w) = n + 1 + m
        /\ \A i \in 1..(n + 1 + m) : w[i] = IF i <= n + 1 THEN z[i] ELSE y[i - (n + 1)]
    <3> HIDE DEF A
    <3>1. /\ Len(z \o y) = Len(z) + Len(y)
          /\ \A i \in 1..(Len(z) + Len(y)) :
               (z \o y)[i] = IF i <= Len(z) THEN z[i] ELSE y[i - Len(z)]
      BY ConcatProperties
    <3> QED
      BY <2>3, <2>4, <3>1
  <2>6. n + 1 \in 1..(n + 1 + m)
    OBVIOUS
  <2>7. w[n + 1] = Sep
    BY <2>3, <2>5, <2>6
  <2> QED
    BY <2>5, <2>6, <2>7 DEF Contains
<1> QED
  BY <1>4, <1>5, <1>6
-----------------------------------------------------------------------------
\* The text after each user, and what strtok has made of it by then.
Escrito(g, nom, con) ==
  /\ g \in [0..Len(con) -> Textos]
  /\ g[0] = <<>> /\ Texto(nom, con) = g[Len(con)]
  /\ \A k \in 1..Len(con) : g[k] = g[k - 1] \o Linea(nom, con, k)

Limpio(nom, con, k) == \A j \in 1..k : nom[con[j].usuario] \in Seq(Letras)

SonFilas(r, nom, con, k) ==
  /\ r \in Seq(Textos) /\ Len(r) = k
  /\ \A j \in 1..k : r[j] = FilaDe(nom, con[j])

Cortado(g, nom, con, k) ==
  \E r : SonFilas(r, nom, con, k) /\ Trozos(g[k]) = Append(r, <<>>)

\* One more user whose name is clean: its row is the last piece, closed by the
\* separator if there is one.
LEMMA FilaMas ==
  ASSUME NEW con \in Seq(Entradas), NEW nom \in Nombres, NEW g, Escrito(g, nom, con),
         NEW k \in 1..Len(con), nom[con[k].usuario] \in Seq(Letras),
         NEW r, SonFilas(r, nom, con, k - 1), Trozos(g[k - 1]) = Append(r, <<>>)
  PROVE  /\ SonFilas(Append(r, FilaDe(nom, con[k])), nom, con, k)
         /\ Trozos(g[k]) = IF k < Len(con)
                           THEN Append(Append(r, FilaDe(nom, con[k])), <<>>)
                           ELSE Append(r, FilaDe(nom, con[k]))
<1>1. PICK n \in Nat : n = Len(con)
  OBVIOUS
<1>2. PICK f : f = FilaDe(nom, con[k])
  OBVIOUS
<1>3. f \in Seq(SinSep) /\ f \in Textos /\ f # <<>>
  BY <1>2, FilaBien
<1>4. PICK t : t = g[k - 1]
  OBVIOUS
<1>5. t \in Textos /\ g[k] = t \o Linea(nom, con, k)
  <2>1. k - 1 \in 0..Len(con)
    BY <1>1
  <2> QED
    BY <1>4, <2>1 DEF Escrito
<1>6. r \in Seq(Textos) /\ <<>> \in Textos /\ Trozos(t) = Append(r, <<>>)
  BY <1>4, UnaPieza DEF SonFilas
<1>7. t \o f \in Textos /\ Trozos(t \o f) = Append(r, f)
  BY <1>3, <1>5, <1>6, PiezaNueva
<1>8. SonFilas(Append(r, f), nom, con, k)
  <2>1. PICK m \in Nat : m = k - 1 /\ k = m + 1
    BY <1>1
  <2>2. Len(r) = m /\ \A j \in 1..m : r[j] = FilaDe(nom, con[j])
    BY <2>1 DEF SonFilas
  <2>3. /\ Append(r, f) \in Seq(Textos) /\ Len(Append(r, f)) = m + 1
        /\ \A j \in 1..m : Append(r, f)[j] = r[j]
        /\ Append(r, f)[m + 1] = f
    BY <1>3, <1>6, <2>2, AlFinal
  <2>4. \A j \in 1..(m + 1) : j \in 1..m \/ j = m + 1
    OBVIOUS
  <2>5. \A j \in 1..(m + 1) : Append(r, f)[j] = FilaDe(nom, con[j])
    BY <1>2, <2>1, <2>2, <2>3, <2>4
  <2> QED
    BY <2>1, <2>3, <2>5 DEF SonFilas
<1>9. g[k] = (t \o f) \o Cierre(con, k)
  <2>1. PICK z : z = Cierre(con, k)
    OBVIOUS
  <2>2. z \in Textos /\ Linea(nom, con, k) = f \o z
    BY <1>2, <2>1, LineaPartes DEF FilaDe
  <2>3. PICK w : w = f \o z
    OBVIOUS
  <2>4. (t \o f) \o z = t \o w
    BY <1>3, <1>5, <2>2, <2>3, Asociar DEF Asocia
  <2>5. g[k] = t \o w
    BY <1>5, <2>2, <2>3
  <2> QED
    BY <2>1, <2>4, <2>5
<1>10. CASE k < Len(con)
  <2>1. g[k] = (t \o f) \o <<Sep>>
    BY <1>9, <1>10 DEF Cierre
  <2>2. Trozos((t \o f) \o <<Sep>>) = Append(Append(r, f), <<>>)
    BY <1>3, <1>6, <1>7, TrozosConSep
  <2> QED
    BY <1>2, <1>8, <1>10, <2>1, <2>2
<1>11. CASE ~(k < Len(con))
  <2>1. g[k] = (t \o f) \o <<>>
    BY <1>9, <1>11 DEF Cierre
  <2>2. g[k] = t \o f
    BY <1>7, <2>1, ConcatEmptySeq DEF Textos
  <2> QED
    BY <1>2, <1>7, <1>8, <1>11, <2>2
<1> QED
  BY <1>10, <1>11

\* While the names are clean, there is a row for each user and an empty piece.
LEMMA CortadoHasta ==
  ASSUME NEW con \in Seq(Entradas), NEW nom \in Nombres, NEW g, Escrito(g, nom, con),
         NEW m \in Nat, m < Len(con) \/ m = 0, Limpio(nom, con, m)
  PROVE  Cortado(g, nom, con, m)
<1>1. PICK n \in Nat : n = Len(con)
  OBVIOUS
<1> DEFINE T == {k \in Nat : k <= m => Cortado(g, nom, con, k)}
<1>2. 0 \in T
  <2>1. Trozos(g[0]) = Append(<<>>, <<>>)
    BY TrozosVacio, UnaPieza DEF Escrito
  <2>2. SonFilas(<<>>, nom, con, 0)
    <3>1. Len(<<>>) = 0
      OBVIOUS
    <3> QED
      BY <3>1, UnaPieza DEF SonFilas
  <2> QED
    BY <2>1, <2>2 DEF Cortado
<1>3. ASSUME NEW k \in T PROVE k + 1 \in T
  <2> SUFFICES ASSUME k \in Nat, k + 1 <= m PROVE Cortado(g, nom, con, k + 1)
    OBVIOUS
  <2>1. Cortado(g, nom, con, k)
    OBVIOUS
  <2>2. PICK i : i = k + 1
    OBVIOUS
  <2>3. i \in 1..Len(con) /\ i - 1 = k /\ i < Len(con) /\ i \in 1..m
    BY <1>1, <2>2
  <2>4. nom[con[i].usuario] \in Seq(Letras)
    BY <2>3 DEF Limpio
  <2>5. PICK r : SonFilas(r, nom, con, i - 1) /\ Trozos(g[i - 1]) = Append(r, <<>>)
    BY <2>1, <2>3 DEF Cortado
  <2>6. /\ SonFilas(Append(r, FilaDe(nom, con[i])), nom, con, i)
        /\ Trozos(g[i]) = Append(Append(r, FilaDe(nom, con[i])), <<>>)
    BY <2>3, <2>4, <2>5, FilaMas
  <2> QED
    BY <2>2, <2>6 DEF Cortado
<1>4. T = Nat
  <2>1. T \in SUBSET Nat
    OBVIOUS
  <2> HIDE DEF T
  <2> QED
    BY <1>2, <1>3, <2>1, Induccion
<1>5. m \in T
  BY <1>4
<1> QED
  BY <1>5

\* If all the names are clean, the pieces are the rows of all the users.
LEMMA EnviarLimpio ==
  ASSUME NEW con \in Seq(Entradas), NEW nom \in Nombres, Limpio(nom, con, Len(con))
  PROVE  SonFilas(EnviarTrozos(Texto(nom, con)), nom, con, Len(con))
<1>1. PICK n \in Nat : n = Len(con)
  OBVIOUS
<1>2. PICK g : Escrito(g, nom, con)
  BY TextoPasos DEF Escrito
<1>3. PICK t : t = Texto(nom, con) /\ t = g[n]
  BY <1>1, <1>2 DEF Escrito
<1>4. CASE n = 0
  <2>1. Trozos(t) = Append(<<>>, <<>>)
    BY <1>2, <1>3, <1>4, TrozosVacio, UnaPieza DEF Escrito
  <2>2. Front(Append(<<>>, <<>>)) = <<>> /\ Last(Append(<<>>, <<>>)) = <<>>
    BY UnaPieza, PrincipioFin
  <2>3. EnviarTrozos(t) = <<>>
    BY <2>1, <2>2 DEF EnviarTrozos
  <2>4. Len(<<>>) = 0
    OBVIOUS
  <2>5. SonFilas(<<>>, nom, con, 0)
    BY <2>4, UnaPieza DEF SonFilas
  <2> QED
    BY <1>1, <1>3, <1>4, <2>3, <2>5
<1>5. CASE n # 0
  <2>1. n \in 1..n /\ n \in 1..Len(con) /\ n - 1 \in Nat /\ n - 1 < Len(con) /\ ~(n < Len(con))
    BY <1>1, <1>5
  <2>2. \A j \in 1..(n - 1) : j \in 1..n
    OBVIOUS
  <2>3. Limpio(nom, con, n - 1) /\ nom[con[n].usuario] \in Seq(Letras)
    BY <1>1, <2>1, <2>2 DEF Limpio
  <2>4. Cortado(g, nom, con, n - 1)
    BY <1>2, <2>1, <2>3, CortadoHasta
  <2>5. PICK r : SonFilas(r, nom, con, n - 1) /\ Trozos(g[n - 1]) = Append(r, <<>>)
    BY <2>4 DEF Cortado
  <2>6. PICK f : f = FilaDe(nom, con[n])
    OBVIOUS
  <2>7. SonFilas(Append(r, f), nom, con, n) /\ Trozos(g[n]) = Append(r, f)
    BY <1>2, <2>1, <2>3, <2>5, <2>6, FilaMas
  <2>8. f \in Textos /\ f # <<>> /\ r \in Seq(Textos)
    BY <2>1, <2>3, <2>5, <2>6, FilaBien DEF SonFilas
  <2>9. Last(Append(r, f)) = f
    BY <2>8, PrincipioFin
  <2>10. EnviarTrozos(t) = Append(r, f)
    BY <1>3, <2>7, <2>8, <2>9 DEF EnviarTrozos
  <2> QED
    BY <1>1, <1>3, <2>7, <2>10
<1> QED
  BY <1>4, <1>5

\* The pieces closed while the text is read are among those that are sent.
LEMMA EnviarEmpieza ==
  ASSUME NEW t \in Textos, NEW s \in Seq(Textos), Empieza(t, s)
  PROVE  /\ EnviarTrozos(t) \in Seq(Textos) /\ Len(s) <= Len(EnviarTrozos(t))
         /\ \A j \in 1..Len(s) : EnviarTrozos(t)[j] = s[j]
<1>1. Trozos(t) \in Seq(Textos) /\ Trozos(t) # <<>>
  BY TrozosMas, AtomosDistintos DEF Piezas
<1>2. PICK r \in Seq(Textos) : \E l \in Textos : Trozos(t) = Append(r, l)
  BY <1>1, TieneFin
<1>3. PICK l \in Textos : Trozos(t) = Append(r, l)
  BY <1>2
<1>4. PICK n \in Nat : n = Len(s)
  OBVIOUS
<1>5. PICK m \in Nat : m = Len(r)
  OBVIOUS
<1>6. /\ Append(r, l) \in Seq(Textos) /\ Len(Append(r, l)) = m + 1
      /\ \A j \in 1..m : Append(r, l)[j] = r[j]
  BY <1>5, AlFinal
<1>7. n <= m /\ \A j \in 1..n : Append(r, l)[j] = s[j] /\ r[j] = s[j]
  BY <1>3, <1>4, <1>6 DEF Empieza
<1>8. Front(Append(r, l)) = r
  BY PrincipioFin
<1>9. EnviarTrozos(t) = r \/ EnviarTrozos(t) = Append(r, l)
  BY <1>3, <1>8 DEF EnviarTrozos
<1>10. EnviarTrozos(t) = r => /\ EnviarTrozos(t) \in Seq(Textos) /\ n <= Len(EnviarTrozos(t))
                             /\ \A j \in 1..n : EnviarTrozos(t)[j] = s[j]
  BY <1>5, <1>7
<1>11. EnviarTrozos(t) = Append(r, l) =>
         /\ EnviarTrozos(t) \in Seq(Textos) /\ n <= Len(EnviarTrozos(t))
         /\ \A j \in 1..n : EnviarTrozos(t)[j] = s[j]
  BY <1>6, <1>7
<1> QED
  BY <1>4, <1>9, <1>10, <1>11

\* The first name that has a separator gives a piece that is not a row, and the
\* pieces before it are rows.
LEMMA EnviarManchado ==
  ASSUME NEW con \in Seq(Entradas), NEW nom \in Nombres, NEW m \in 1..Len(con),
         Limpio(nom, con, m - 1), nom[con[m].usuario] \notin Seq(Letras),
         nom[con[m].usuario][1] # Sep
  PROVE  \E s \in Seq(Textos) :
           /\ Len(s) = m /\ ~Contains(s[m], Campo)
           /\ \A j \in 1..(m - 1) : s[j] = FilaDe(nom, con[j])
           /\ Empieza(Texto(nom, con), s)
<1>1. PICK n \in Nat : n = Len(con)
  OBVIOUS
<1>2. PICK g : Escrito(g, nom, con)
  BY TextoPasos DEF Escrito
<1>3. PICK w : w = nom[con[m].usuario]
  OBVIOUS
<1>4. w \in Seq(Letras \cup {Sep}) /\ w \in Textos
  BY <1>3, EntradaBien, NombreTexto
<1>5. PICK x \in Textos : \E y \in Textos : x \in Seq(Letras) /\ w = (x \o <<Sep>>) \o y
  <2>1. PICK e \in Seq(Letras), f \in Seq(Letras \cup {Sep}) : w = (e \o <<Sep>>) \o f
    BY <1>3, <1>4, NombrePartido
  <2>2. Letras \subseteq Atomos /\ Letras \cup {Sep} \subseteq Atomos
    BY AtomosDistintos DEF SinSep
  <2>3. e \in Textos /\ f \in Textos
    BY <2>2 DEF Textos
  <2> QED
    BY <2>1, <2>3
<1>6. PICK y \in Textos : x \in Seq(SinSep) /\ <<Sep>> \in Textos /\ w = (x \o <<Sep>>) \o y
  <2>1. x \in Seq(SinSep)
    BY <1>5, AtomosDistintos
  <2> QED
    BY <1>5, <2>1, LargoUno, AtomosDistintos
<1>7. x # <<>>
  <2> SUFFICES ASSUME x = <<>> PROVE FALSE
    OBVIOUS
  <2>1. x \o <<Sep>> = <<Sep>>
    BY <1>6, ConcatEmptySeq DEF Textos
  <2>2. w = <<Sep>> \o y
    BY <1>6, <2>1
  <2>3. (<<Sep>> \o y)[1] = Sep
    BY <1>6 DEF Textos
  <2> QED
    BY <1>3, <2>2, <2>3
<1>8. ~Contains(x, Campo)
  BY <1>5, AtomosDistintos DEF Contains
<1>9. Cortado(g, nom, con, m - 1)
  <2>1. m - 1 \in Nat /\ m - 1 < Len(con)
    BY <1>1
  <2> QED
    BY <1>2, <2>1, CortadoHasta
<1>10. PICK r : SonFilas(r, nom, con, m - 1) /\ Trozos(g[m - 1]) = Append(r, <<>>)
  BY <1>9 DEF Cortado
<1>11. PICK t : t = g[m - 1]
  OBVIOUS
<1>12. t \in Textos /\ g[m] = t \o Linea(nom, con, m)
  <2>1. m - 1 \in 0..Len(con)
    BY <1>1
  <2> QED
    BY <1>2, <1>11, <2>1 DEF Escrito
<1>13. r \in Seq(Textos) /\ <<>> \in Textos /\ Trozos(t) = Append(r, <<>>)
  BY <1>10, <1>11, UnaPieza DEF SonFilas
<1>14. t \o x \in Textos /\ Trozos(t \o x) = Append(r, x)
  <2>1. x \in Seq(SinSep) /\ Trozos(t) = Append(r, <<>>) /\ t \in Textos
    BY <1>6, <1>12, <1>13
  <2> QED
    BY <1>13, <2>1, PiezaNueva
<1>15. /\ (t \o x) \o <<Sep>> \in Textos
       /\ Trozos((t \o x) \o <<Sep>>) = Append(Append(r, x), <<>>)
  BY <1>6, <1>7, <1>13, <1>14, TrozosConSep
<1>16. PICK s : s = Append(r, x)
  OBVIOUS
<1>17. /\ s \in Seq(Textos) /\ Len(s) = m /\ s[m] = x
       /\ \A j \in 1..(m - 1) : s[j] = FilaDe(nom, con[j])
  <2>1. PICK k \in Nat : k = m - 1 /\ m = k + 1
    BY <1>1
  <2>2. Len(r) = k /\ \A j \in 1..k : r[j] = FilaDe(nom, con[j])
    BY <1>10, <2>1 DEF SonFilas
  <2>3. /\ s \in Seq(Textos) /\ Len(s) = k + 1 /\ s[k + 1] = x
        /\ \A j \in 1..k : s[j] = r[j]
    BY <1>6, <1>13, <1>16, <2>2, AlFinal
  <2> QED
    BY <2>1, <2>2, <2>3
<1>18. Empieza((t \o x) \o <<Sep>>, s)
  <2>1. /\ Len(Append(s, <<>>)) = m + 1
        /\ \A j \in 1..m : Append(s, <<>>)[j] = s[j]
    BY <1>13, <1>17, AlFinal
  <2>2. m < m + 1
    BY <1>1
  <2> QED
    BY <1>15, <1>16, <1>17, <2>1, <2>2 DEF Empieza
<1>19. \E v \in Textos : g[m] = ((t \o x) \o <<Sep>>) \o v
  <2>1. PICK d, c : d = Datos(con[m]) /\ c = Cierre(con, m)
    OBVIOUS
  <2>2. Linea(nom, con, m) = (w \o d) \o c /\ d \in Textos /\ c \in Textos
    BY <1>3, <2>1, LineaPartes
  <2>3. PICK z \in Textos : z = <<Sep>>
    BY <1>6
  <2>4. g[m] = t \o ((((x \o z) \o y) \o d) \o c)
    BY <1>6, <1>12, <2>2, <2>3
  <2>5. Reunida(t, x, z, y, d, c)
    <3>1. d \in Textos /\ c \in Textos /\ t \in Textos
      BY <1>12, <2>2
    <3> QED
      BY <3>1, UnirLinea
  <2> QED
    BY <2>3, <2>4, <2>5 DEF Reunida
<1>20. Empieza(g[m], s)
  BY <1>15, <1>17, <1>18, <1>19, EmpiezaSigue
<1> DEFINE T == {k \in Nat : m + k <= n => Empieza(g[m + k], s)}
<1>21. 0 \in T
  <2>1. m + 0 = m
    BY <1>1
  <2> QED
    BY <1>20, <2>1
<1>22. ASSUME NEW k \in T PROVE k + 1 \in T
  <2> SUFFICES ASSUME k \in Nat, m + (k + 1) <= n PROVE Empieza(g[m + (k + 1)], s)
    OBVIOUS
  <2>1. PICK i : i = m + (k + 1)
    OBVIOUS
  <2>2. PICK j : j = m + k
    OBVIOUS
  <2>3. i \in 1..Len(con) /\ i - 1 = j /\ j \in 0..Len(con) /\ j <= n
    BY <1>1, <2>1, <2>2
  <2>4. Empieza(g[j], s)
    BY <2>2, <2>3
  <2>5. g[j] \in Textos /\ g[i] = g[j] \o Linea(nom, con, i)
    BY <1>2, <2>3 DEF Escrito
  <2>6. Linea(nom, con, i) \in Textos
    BY <2>3, LineaTexto
  <2>7. Empieza(g[j] \o Linea(nom, con, i), s)
    BY <1>17, <2>4, <2>5, <2>6, EmpiezaSigue
  <2> QED
    BY <2>1, <2>5, <2>7
<1>23. T = Nat
  <2>1. T \in SUBSET Nat
    OBVIOUS
  <2> HIDE DEF T
  <2> QED
    BY <1>21, <1>22, <2>1, Induccion
<1>24. Empieza(g[n], s)
  <2>1. PICK k \in Nat : m + k = n
    <3>1. n - m \in Nat /\ m + (n - m) = n
      BY <1>1
    <3> QED
      BY <3>1
  <2>2. k \in T
    BY <1>23
  <2> QED
    BY <2>1, <2>2
<1>25. Texto(nom, con) = g[n]
  BY <1>1, <1>2 DEF Escrito
<1> QED
  BY <1>8, <1>17, <1>24, <1>25

-----------------------------------------------------------------------------
\* The table a client makes of the pieces.
Malos(tr, n) == {i \in 1..n : i > Len(tr) \/ ~Contains(tr[i], Campo)}
Leidos(tr, n) == {i \in 1..n : \A j \in Malos(tr, n) : i < j}

\* Tabla, by its parts.
LEMMA TablaPartes ==
  ASSUME NEW con \in Seq(Entradas), NEW nom \in Nombres, NEW tr,
         tr = EnviarTrozos(Texto(nom, con))
  PROVE  /\ Tabla(nom, con).ok <=> Malos(tr, Len(con)) = {}
         /\ Tabla(nom, con).filas = {Leida(tr[i]) : i \in Leidos(tr, Len(con))}
<1> HIDE DEF EnviarTrozos, Texto
<1> QED
  BY DEF Tabla, Malos, Leidos, Leida

\* A row reads as what the answer said of its user.
LEMMA FilaVerdadera ==
  ASSUME NEW con \in Seq(Entradas), NEW nom \in Nombres, NEW k \in 1..Len(con),
         nom[con[k].usuario] \in Seq(Letras)
  PROVE  /\ Contains(FilaDe(nom, con[k]), Campo)
         /\ Leida(FilaDe(nom, con[k])) \in Filas(nom, con)
<1>1. Len(con) \in Nat /\ DOMAIN con = 1..Len(con)
  OBVIOUS
<1>2. con[k] \in ToSet(con)
  BY <1>1 DEF ToSet
<1>3. /\ Contains(FilaDe(nom, con[k]), Campo)
      /\ Leida(FilaDe(nom, con[k])) =
           <<nom[con[k].usuario], <<"ip", con[k].ip>>, <<"puerto", con[k].puerto>>>>
  BY FilaBien
<1> QED
  BY <1>2, <1>3 DEF Filas

\* Without separators in the names the table is complete.
LEMMA TablaLimpia ==
  ASSUME NEW con \in Seq(Entradas), NEW nom \in Nombres, Limpio(nom, con, Len(con))
  PROVE  Tabla(nom, con).ok /\ Tabla(nom, con).filas = Filas(nom, con)
<1>1. PICK n \in Nat : n = Len(con) /\ DOMAIN con = 1..n
  OBVIOUS
<1>2. PICK tr : tr = EnviarTrozos(Texto(nom, con))
  OBVIOUS
<1>3. Len(tr) = n /\ \A j \in 1..n : tr[j] = FilaDe(nom, con[j])
  BY <1>1, <1>2, EnviarLimpio DEF SonFilas
<1>4. ASSUME NEW j \in 1..n
      PROVE  /\ Contains(tr[j], Campo) /\ Leida(tr[j]) \in Filas(nom, con)
             /\ Leida(tr[j]) = <<nom[con[j].usuario], <<"ip", con[j].ip>>,
                                 <<"puerto", con[j].puerto>>>>
  <2>1. nom[con[j].usuario] \in Seq(Letras) /\ j \in 1..Len(con)
    BY <1>1 DEF Limpio
  <2> QED
    BY <1>3, <2>1, FilaBien, FilaVerdadera
<1>5. Malos(tr, n) = {}
  BY <1>3, <1>4 DEF Malos
<1>6. Leidos(tr, n) = 1..n
  BY <1>5 DEF Leidos
<1>7. Tabla(nom, con).ok /\ Tabla(nom, con).filas = {Leida(tr[i]) : i \in 1..n}
  BY <1>1, <1>2, <1>5, <1>6, TablaPartes
<1>8. {Leida(tr[i]) : i \in 1..n} \subseteq Filas(nom, con)
  BY <1>4
<1>9. Filas(nom, con) \subseteq {Leida(tr[i]) : i \in 1..n}
  <2> SUFFICES ASSUME NEW x \in ToSet(con)
               PROVE  <<nom[x.usuario], <<"ip", x.ip>>, <<"puerto", x.puerto>>>>
                        \in {Leida(tr[i]) : i \in 1..n}
    BY DEF Filas
  <2>1. PICK j \in 1..n : x = con[j]
    BY <1>1 DEF ToSet
  <2> QED
    BY <1>4, <2>1
<1> QED
  BY <1>7, <1>8, <1>9

\* With one, and not in front, it ends before that user and has true rows only.
LEMMA TablaManchada ==
  ASSUME NEW con \in Seq(Entradas), NEW nom \in Nombres, NEW m \in 1..Len(con),
         Limpio(nom, con, m - 1), nom[con[m].usuario] \notin Seq(Letras),
         nom[con[m].usuario][1] # Sep
  PROVE  ~Tabla(nom, con).ok /\ Tabla(nom, con).filas \subseteq Filas(nom, con)
<1>1. PICK n \in Nat : n = Len(con)
  OBVIOUS
<1>2. PICK tr : tr = EnviarTrozos(Texto(nom, con))
  OBVIOUS
<1>3. PICK s \in Seq(Textos) :
        /\ Len(s) = m /\ ~Contains(s[m], Campo)
        /\ \A j \in 1..(m - 1) : s[j] = FilaDe(nom, con[j])
        /\ Empieza(Texto(nom, con), s)
  BY EnviarManchado
<1>4. Texto(nom, con) \in Textos
  <2>1. PICK g : Escrito(g, nom, con)
    BY TextoPasos DEF Escrito
  <2>2. n \in 0..n
    OBVIOUS
  <2> QED
    BY <1>1, <2>1, <2>2 DEF Escrito
<1>5. \A j \in 1..m : tr[j] = s[j]
  BY <1>2, <1>3, <1>4, EnviarEmpieza
<1>6. m \in Malos(tr, n)
  <2>1. m \in 1..m /\ m \in 1..n
    BY <1>1
  <2> QED
    BY <1>3, <1>5, <2>1 DEF Malos
<1>7. ASSUME NEW i \in Leidos(tr, n)
      PROVE  Leida(tr[i]) \in Filas(nom, con)
  <2>1. i \in 1..Len(con) /\ i \in 1..(m - 1) /\ i \in 1..m
    BY <1>1, <1>6 DEF Leidos
  <2>2. tr[i] = FilaDe(nom, con[i])
    BY <1>3, <1>5, <2>1
  <2>3. nom[con[i].usuario] \in Seq(Letras)
    BY <2>1 DEF Limpio
  <2> QED
    BY <2>1, <2>2, <2>3, FilaVerdadera
<1>8. /\ Tabla(nom, con).ok <=> Malos(tr, n) = {}
      /\ Tabla(nom, con).filas = {Leida(tr[i]) : i \in Leidos(tr, n)}
  BY <1>1, <1>2, TablaPartes
<1> QED
  BY <1>6, <1>7, <1>8

\* So is every table: complete, or cut at the first name with a separator.
LEMMA TodosFieles == TodasFieles
<1> SUFFICES ASSUME NEW con \in Respuestas, NEW nom \in Nombres
             PROVE  LET t == Tabla(nom, con) IN
                    /\ ConSep(nom, con) = {} => t.ok /\ t.filas = Filas(nom, con)
                    /\ (\A x \in ToSet(con) : nom[x.usuario][1] # Sep) =>
                         t.filas \subseteq Filas(nom, con) /\ (t.ok => ConSep(nom, con) = {})
  BY DEF TodasFieles
<1>1. con \in Seq(Entradas)
  BY RespuestaBien
<1>2. PICK n \in Nat : n = Len(con) /\ DOMAIN con = 1..n
  BY <1>1
<1>3. ASSUME NEW j \in 1..n
      PROVE  Contains(nom[con[j].usuario], Sep) <=> nom[con[j].usuario] \notin Seq(Letras)
  <2>1. nom[con[j].usuario] \in Seq(Letras \cup {Sep})
    BY <1>1, <1>2, EntradaBien, NombreTexto
  <2> QED
    BY <2>1, NombrePartido
<1>4. PICK S : S = {j \in 1..n : nom[con[j].usuario] \notin Seq(Letras)}
  OBVIOUS
<1>5. ConSep(nom, con) = S
  BY <1>2, <1>3, <1>4 DEF ConSep
<1>6. CASE S = {}
  <2>1. Limpio(nom, con, Len(con))
    BY <1>2, <1>4, <1>6 DEF Limpio
  <2> QED
    BY <1>1, <1>5, <1>6, <2>1, TablaLimpia
<1>7. CASE S # {}
  <2>1. S \in SUBSET Nat
    BY <1>4
  <2>2. PICK m \in S : \A j \in S : m <= j
    BY <1>7, <2>1, Minimo
  <2>3. m \in 1..n /\ nom[con[m].usuario] \notin Seq(Letras)
    BY <1>4
  <2>4. Limpio(nom, con, m - 1)
    <3> SUFFICES ASSUME NEW j \in 1..(m - 1) PROVE nom[con[j].usuario] \in Seq(Letras)
      BY DEF Limpio
    <3>1. j \in 1..n /\ ~(m <= j)
      BY <2>3
    <3> QED
      BY <1>4, <2>2, <3>1
  <2>5. con[m] \in ToSet(con)
    BY <1>2, <2>3 DEF ToSet
  <2>6. ASSUME \A x \in ToSet(con) : nom[x.usuario][1] # Sep
        PROVE  ~Tabla(nom, con).ok /\ Tabla(nom, con).filas \subseteq Filas(nom, con)
    <3>1. nom[con[m].usuario][1] # Sep /\ m \in 1..Len(con)
      BY <1>2, <2>3, <2>5, <2>6
    <3> QED
      BY <1>1, <2>3, <2>4, <3>1, TablaManchada
  <2> QED
    BY <1>5, <1>7, <2>6
<1> QED
  BY <1>6, <1>7

\* The client's table after USERS is true: for any users, addresses, ports and
\* names, and whatever made the list what it is, it has a row for each connected
\* user if no name has a ";"; if one has, and not in front, USERS fails and what
\* was learnt before it is still true.
THEOREM TablaFiel == Spec => []ListadoFiel
<1>1. TypeOK /\ RedCoherente /\ SinRepetidos => ListadoFiel
  BY TodosFieles, ConectadosRespuesta DEF ListadoFiel
<1> QED
  BY <1>1, TipoCorrecto, RedSiempreCoherente, NombresUnicos, PTL
=============================================================================
