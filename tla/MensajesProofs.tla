---------------------------- MODULE MensajesProofs --------------------------
(***************************************************************************)
(* Proofs about Mensajes for any texts, any size of the reader's buffer    *)
(* and any room in the kernel.                                             *)
(***************************************************************************)
EXTENDS Mensajes, Induccion, SequenceTheorems, TLAPS

\* The bytes of a text, none of which is the final zero.
Byte == (Nat \ {0}) \X Nat

Caracter(t, k) == [b \in 1..t[k] |-> <<k, b>>]

EsOctetos(t, m, o) ==
  o = [k \in 0..m |-> IF k = 0 THEN <<>> ELSE o[k - 1] \o Caracter(t, k)]

\* There is a function like the one in the definition of Octetos.
LEMMA HayOctetos == \A t : \A m \in Nat : \E o : EsOctetos(t, m, o)
<1> SUFFICES ASSUME NEW t PROVE \A m \in Nat : \E o : EsOctetos(t, m, o)
  OBVIOUS
<1> DEFINE T == {m \in Nat : \E o : EsOctetos(t, m, o)}
<1>1. 0 \in T
  <2> DEFINE z == [k \in 0..0 |-> <<>>]
  <2>1. z = [k \in 0..0 |-> IF k = 0 THEN <<>> ELSE z[k - 1] \o Caracter(t, k)]
    OBVIOUS
  <2> QED
    BY <2>1 DEF EsOctetos
<1>2. \A m \in T : m + 1 \in T
  <2> SUFFICES ASSUME NEW m \in Nat, NEW o, EsOctetos(t, m, o)
               PROVE  \E p : EsOctetos(t, m + 1, p)
    OBVIOUS
  <2> DEFINE p == [k \in 0..(m + 1) |-> IF k = m + 1 THEN o[m] \o Caracter(t, k) ELSE o[k]]
             d == [k \in 0..(m + 1) |-> IF k = 0 THEN <<>> ELSE p[k - 1] \o Caracter(t, k)]
  <2>1. ASSUME NEW k \in 0..(m + 1) PROVE p[k] = d[k]
    <3>1. CASE k = 0
      <4>1. 0 \in 0..m /\ 0 # m + 1
        OBVIOUS
      <4>2. o[0] = <<>>
        BY <4>1 DEF EsOctetos
      <4> QED
        BY <3>1, <4>1, <4>2
    <3>2. CASE k \in 1..m
      <4>1. k \in 0..m /\ k # 0 /\ k # m + 1 /\ k - 1 \in 0..(m + 1) /\ k - 1 # m + 1
        BY <3>2
      <4>2. o[k] = o[k - 1] \o Caracter(t, k)
        BY <4>1 DEF EsOctetos
      <4> QED
        BY <4>1, <4>2
    <3>3. CASE k = m + 1
      <4>1. k # 0 /\ k - 1 = m /\ m \in 0..(m + 1) /\ m # m + 1
        BY <3>3
      <4> QED
        BY <3>3, <4>1
    <3> QED
      BY <3>1, <3>2, <3>3
  <2>2. p = d
    <3> HIDE DEF T
    <3> QED BY <2>1
  <2> QED
    BY <2>2 DEF EsOctetos
<1>3. T = Nat
  <2> HIDE DEF T
  <2>1. T \in SUBSET Nat
    BY DEF T
  <2> QED
    BY <1>1, <1>2, <2>1, Induccion
<1> QED
  BY <1>3

LEMMA CaracterBien ==
  ASSUME NEW t \in Seq(Nat), NEW k \in 1..Len(t)
  PROVE  Caracter(t, k) \in Seq(Byte) /\ Len(Caracter(t, k)) = t[k]
<1>1. t[k] \in Nat
  OBVIOUS
<1>2. \A b \in 1..t[k] : <<k, b>> \in Byte
  BY <1>1 DEF Byte
<1> QED
  BY <1>1, <1>2 DEF Caracter

LEMMA OctetosBien ==
  ASSUME NEW t \in Seq(Nat)
  PROVE  /\ Octetos(t) \in Seq(Byte)
         /\ (\A j \in DOMAIN t : t[j] = 1) => Len(Octetos(t)) = Len(t)
<1> DEFINE o == CHOOSE f : f = [k \in 0..Len(t) |->
                                  IF k = 0 THEN <<>> ELSE f[k - 1] \o [b \in 1..t[k] |-> <<k, b>>]]
           Q(k) == /\ o[k] \in Seq(Byte)
                   /\ (\A j \in DOMAIN t : t[j] = 1) => Len(o[k]) = k
           T == {k \in Nat : k <= Len(t) => Q(k)}
<1>0. Len(t) \in Nat
  OBVIOUS
<1>1. Octetos(t) = o[Len(t)]
  BY DEF Octetos
<1>2. o = [k \in 0..Len(t) |-> IF k = 0 THEN <<>> ELSE o[k - 1] \o Caracter(t, k)]
  <2>1. \E f : f = [k \in 0..Len(t) |-> IF k = 0 THEN <<>> ELSE f[k - 1] \o Caracter(t, k)]
    BY <1>0, HayOctetos DEF EsOctetos
  <2> QED
    BY <2>1 DEF Caracter
<1> HIDE DEF o
<1>3. Q(0)
  BY <1>0, <1>2
<1>4. ASSUME NEW k \in Nat, k + 1 <= Len(t), Q(k) PROVE Q(k + 1)
  <2>1. k + 1 \in 0..Len(t) /\ k + 1 # 0 /\ (k + 1) - 1 = k /\ k + 1 \in 1..Len(t)
    BY <1>0, <1>4
  <2>2. o[k + 1] = o[k] \o Caracter(t, k + 1)
    BY <1>2, <2>1
  <2>3. Caracter(t, k + 1) \in Seq(Byte) /\ Len(Caracter(t, k + 1)) = t[k + 1]
    BY <2>1, CaracterBien
  <2>5. o[k] \in Seq(Byte)
    BY <1>4
  <2>4. o[k + 1] \in Seq(Byte) /\ Len(o[k + 1]) = Len(o[k]) + t[k + 1]
    <3> DEFINE u == o[k]
               v == Caracter(t, k + 1)
    <3> HIDE DEF u, v
    <3>1. u \in Seq(Byte) /\ v \in Seq(Byte)
      BY <2>3, <2>5 DEF u, v
    <3>2. u \o v \in Seq(Byte) /\ Len(u \o v) = Len(u) + Len(v)
      BY <3>1, ConcatProperties
    <3> QED
      BY <2>2, <2>3, <3>2 DEF u, v
  <2> QED
    BY <1>4, <2>1, <2>4
<1> HIDE DEF Q
<1>5. T = Nat
  <2>1. 0 \in T /\ T \in SUBSET Nat
    BY <1>3
  <2>2. \A k \in T : k + 1 \in T
    BY <1>0, <1>4
  <2> HIDE DEF T
  <2> QED
    BY <2>1, <2>2, Induccion
<1>6. Q(Len(t))
  BY <1>0, <1>5
<1> QED
  BY <1>1, <1>6 DEF Q
-----------------------------------------------------------------------------
\* The bytes of the f-th field, without and with the zero that ends it.
Texto(f) == Octetos(campos[f])
Lin(f)   == Linea(campos[f])

CamposOK == campos \in Seq(Seq(Nat))

LEMMA FinNoEsByte == Fin \in Octeto /\ Fin \notin Byte /\ Byte \subseteq Octeto
BY DEF Fin, Byte, Octeto

LEMMA LinBien ==
  ASSUME CamposOK, NEW f \in 1..Len(campos)
  PROVE  /\ Texto(f) \in Seq(Byte) /\ Texto(f) \in Seq(Octeto)
         /\ Lin(f) \in Seq(Octeto) /\ Len(Lin(f)) = Len(Texto(f)) + 1 /\ Len(Texto(f)) \in Nat
         /\ Len(Lin(f)) \in Nat \ {0}
         /\ Lin(f)[Len(Lin(f))] = Fin
         /\ \A o \in 1..Len(Texto(f)) : Lin(f)[o] = Texto(f)[o] /\ Lin(f)[o] # Fin
<1>1. campos[f] \in Seq(Nat)
  BY DEF CamposOK
<1>2. Texto(f) \in Seq(Byte)
  BY <1>1, OctetosBien DEF Texto
<1>3. Texto(f) \in Seq(Octeto)
  BY <1>2, FinNoEsByte, SeqMonotonic
<1>4. Lin(f) = Append(Texto(f), Fin)
  BY DEF Lin, Linea, Texto
<1> DEFINE t == Texto(f)
<1> HIDE DEF t
<1>5. t \in Seq(Byte) /\ t \in Seq(Octeto) /\ Fin \in Octeto /\ Fin \notin Byte
  BY <1>2, <1>3, FinNoEsByte DEF t
<1>6. /\ Append(t, Fin) \in Seq(Octeto) /\ Len(Append(t, Fin)) = Len(t) + 1
      /\ \A o \in 1..Len(t) : Append(t, Fin)[o] = t[o]
      /\ Append(t, Fin)[Len(t) + 1] = Fin
  BY <1>5, AppendProperties
<1>7. Len(t) \in Nat /\ \A o \in 1..Len(t) : t[o] \in Byte
  BY <1>5, LenProperties, ElementOfSeq
<1>8. Lin(f) = Append(t, Fin)
  BY <1>4 DEF t
<1>9. \A o \in 1..Len(t) : Lin(f)[o] = t[o] /\ Lin(f)[o] # Fin
  BY <1>5, <1>6, <1>7, <1>8
<1>10. Len(Lin(f)) = Len(t) + 1 /\ Len(Lin(f)) \in Nat \ {0}
  BY <1>6, <1>7, <1>8
<1> QED
  BY <1>2, <1>3, <1>6, <1>7, <1>8, <1>9, <1>10 DEF t

\* Where each field starts in the stream of everything there is to write.
Comienzos(s) ==
  /\ s \in [1..(Len(campos) + 1) -> Nat] /\ s[1] = 0
  /\ \A f \in 1..Len(campos) : s[f + 1] = s[f] + Len(Lin(f))

LEMMA HayComienzos == CamposOK => \E s : Comienzos(s)
<1> SUFFICES ASSUME CamposOK PROVE \E s : Comienzos(s)
  OBVIOUS
<1> DEFINE M == Len(campos)
           C(m, s) == /\ s \in [1..(m + 1) -> Nat] /\ s[1] = 0
                      /\ \A f \in 1..m : s[f + 1] = s[f] + Len(Lin(f))
           T == {m \in Nat : m <= M => \E s : C(m, s)}
<1>0. M \in Nat
  BY DEF CamposOK
<1>1. C(0, [f \in 1..1 |-> 0])
  OBVIOUS
<1>2. ASSUME NEW m \in Nat, m + 1 <= M, NEW s, C(m, s) PROVE \E z : C(m + 1, z)
  <2> DEFINE z == [f \in 1..(m + 2) |-> IF f = m + 2 THEN s[m + 1] + Len(Lin(m + 1)) ELSE s[f]]
  <2>1. m + 1 \in 1..M /\ Len(Lin(m + 1)) \in Nat
    <3>1. m + 1 \in 1..Len(campos)
      BY <1>0, <1>2
    <3> QED
      BY <3>1, LinBien
  <2>2. s[m + 1] \in Nat
    BY <1>2
  <2>3. z \in [1..(m + 2) -> Nat] /\ z[1] = 0
    BY <1>2, <2>1, <2>2
  <2>4. ASSUME NEW f \in 1..(m + 1) PROVE z[f + 1] = z[f] + Len(Lin(f))
    <3>1. CASE f = m + 1
      BY <3>1
    <3>2. CASE f \in 1..m
      <4>1. f + 1 \in 1..(m + 2) /\ f + 1 # m + 2 /\ f \in 1..(m + 2) /\ f # m + 2
        BY <3>2
      <4> QED
        BY <1>2, <3>2, <4>1
    <3> QED
      BY <3>1, <3>2
  <2>5. m + 1 + 1 = m + 2
    OBVIOUS
  <2> HIDE DEF z
  <2> QED
    BY <2>3, <2>4, <2>5
<1> HIDE DEF C
<1>3. T = Nat
  <2>1. 0 \in T /\ T \in SUBSET Nat
    BY <1>1
  <2>2. \A m \in T : m + 1 \in T
    BY <1>0, <1>2
  <2> HIDE DEF T
  <2> QED
    BY <2>1, <2>2, Induccion
<1>4. \E s : C(M, s)
  BY <1>0, <1>3
<1> QED
  BY <1>4 DEF C, Comienzos

LEMMA Crecen ==
  ASSUME CamposOK, NEW s, Comienzos(s),
         NEW f \in 1..Len(campos), NEW g \in 1..(Len(campos) + 1), f < g
  PROVE  s[f] + Len(Lin(f)) <= s[g]
<1> DEFINE M == Len(campos)
           T == {m \in Nat : f + 1 + m <= M + 1 => s[f] + Len(Lin(f)) <= s[f + 1 + m]}
<1>0. M \in Nat /\ f \in Nat
  BY DEF CamposOK
<1>1. Len(Lin(f)) \in Nat /\ s[f] \in Nat /\ s[f + 1] = s[f] + Len(Lin(f))
  <2>1. Len(Lin(f)) \in Nat
    BY LinBien
  <2>2. f \in 1..(Len(campos) + 1)
    BY <1>0
  <2> QED
    BY <2>1, <2>2 DEF Comienzos
<1>2. 0 \in T
  BY <1>0, <1>1
<1>3. ASSUME NEW m \in T PROVE m + 1 \in T
  <2> SUFFICES ASSUME f + 1 + (m + 1) <= M + 1
               PROVE  s[f] + Len(Lin(f)) <= s[f + 1 + (m + 1)]
    BY <1>3
  <2> DEFINE h == f + 1 + m
  <2>1. h \in 1..Len(campos) /\ h <= M + 1 /\ f + 1 + (m + 1) = h + 1
    BY <1>0, <1>3
  <2>2. s[h + 1] = s[h] + Len(Lin(h)) /\ s[h] \in Nat /\ Len(Lin(h)) \in Nat
    <3>1. h \in 1..(Len(campos) + 1)
      BY <1>0, <2>1
    <3>2. Len(Lin(h)) \in Nat
      BY <2>1, LinBien
    <3> HIDE DEF h
    <3> QED
      BY <2>1, <3>1, <3>2 DEF Comienzos
  <2>3. s[f] + Len(Lin(f)) <= s[h]
    BY <1>3, <2>1
  <2>4. s[f] + Len(Lin(f)) \in Nat /\ s[f + 1 + (m + 1)] = s[h + 1]
    BY <1>1, <2>1
  <2> HIDE DEF h
  <2> QED
    BY <2>2, <2>3, <2>4
<1>4. T = Nat
  <2>1. T \in SUBSET Nat
    OBVIOUS
  <2> HIDE DEF T
  <2> QED
    BY <1>2, <1>3, <2>1, Induccion
<1>5. g - (f + 1) \in T /\ f + 1 + (g - (f + 1)) = g /\ g <= M + 1
  <2>1. g - (f + 1) \in Nat /\ f + 1 + (g - (f + 1)) = g /\ g <= M + 1
    BY <1>0
  <2> QED
    BY <1>4, <2>1
<1> QED
  BY <1>5

\* A place in the stream is a byte of one field.
LEMMA UnSitio ==
  ASSUME CamposOK, NEW s, Comienzos(s),
         NEW f \in 1..Len(campos), NEW o \in 1..Len(Lin(f)),
         NEW g \in 1..Len(campos), NEW p \in 1..Len(Lin(g)), s[f] + o = s[g] + p
  PROVE  f = g /\ o = p
<1>0. /\ Len(campos) \in Nat /\ f \in Nat /\ g \in Nat /\ s[f] \in Nat /\ s[g] \in Nat
      /\ Len(Lin(f)) \in Nat /\ Len(Lin(g)) \in Nat
      /\ f \in 1..(Len(campos) + 1) /\ g \in 1..(Len(campos) + 1)
  <2>1. Len(campos) \in Nat
    BY DEF CamposOK
  <2>2. f \in 1..(Len(campos) + 1) /\ g \in 1..(Len(campos) + 1) /\ f \in Nat /\ g \in Nat
    BY <2>1
  <2> QED
    BY <2>1, <2>2, LinBien DEF Comienzos
<1>1. ~(f < g)
  <2> SUFFICES ASSUME f < g PROVE FALSE
    OBVIOUS
  <2>1. s[f] + Len(Lin(f)) <= s[g]
    BY <1>0, Crecen
  <2> QED
    BY <1>0, <2>1
<1>2. ~(g < f)
  <2> SUFFICES ASSUME g < f PROVE FALSE
    OBVIOUS
  <2>1. s[g] + Len(Lin(g)) <= s[f]
    BY <1>0, Crecen
  <2> QED
    BY <1>0, <2>1
<1>3. f = g
  BY <1>0, <1>1, <1>2
<1> QED
  BY <1>0, <1>3
-----------------------------------------------------------------------------
\* What readLine keeps of the first q bytes of a field.
Hasta(q) == IF q < n - 1 THEN q ELSE n - 1

\* The field being written has something left, or there is none.
Escritura ==
  /\ i <= Len(campos) => escrito < Len(Lin(i))
  /\ i = Len(campos) + 1 => escrito = 0

\* What was returned, and what is left once there is nothing else to read.
Historia ==
  /\ \A j \in 1..Len(resultados) :
       /\ resultados[j].r > 0 =>
            /\ j <= Len(campos)
            /\ j # cortado => resultados[j].texto = SubSeq(Texto(j), 1, Hasta(Len(Texto(j))))
       /\ j < Len(resultados) => resultados[j].r > 0
  /\ cortado <= Len(resultados)
  /\ cortado # 0 => conexion = "cerrada" /\ canal = <<>> /\ buffer = <<>>
  /\ conexion = "rota" => canal = <<>>

\* While it reads, the reader has read q bytes of the k-th field, the channel holds
\* what follows in the stream, and the next place is where the writer is.
Flujo(s, q, k, bytes, guardado, j, e) ==
  /\ Comienzos(s) /\ q \in Nat /\ k \in 1..(Len(campos) + 1)
  /\ k <= Len(campos) => q < Len(Lin(k)) /\ guardado = SubSeq(Texto(k), 1, Hasta(q))
  /\ k = Len(campos) + 1 => q = 0 /\ guardado = <<>>
  /\ s[k] + q + Len(bytes) = s[j] + e
  /\ \A m \in 1..Len(bytes), f \in 1..Len(campos) : \A o \in 1..Len(Lin(f)) :
       s[f] + o = s[k] + q + m => bytes[m] = Lin(f)[o]

EnCurso(s, q) == Flujo(s, q, Len(resultados) + 1, canal, buffer, i, escrito)

Leyendo == ~Parado /\ cortado = 0 /\ conexion # "rota"

Corriente == Leyendo => \E s, q : EnCurso(s, q)

Inv == TypeOK /\ CamposOK /\ Escritura /\ Historia /\ Corriente

LEMMA Tipos ==
  ASSUME TypeOK, CamposOK
  PROVE  /\ Len(campos) \in Nat /\ Len(canal) \in Nat /\ Len(buffer) \in Nat
         /\ Len(resultados) \in Nat
         /\ i \in Nat /\ i \in 1..(Len(campos) + 1) /\ escrito \in Nat /\ cortado \in Nat
         /\ n \in Nat /\ n >= 2 /\ Capacidad \in Nat
BY MensajesSupuestos DEF TypeOK, CamposOK

LEMMA InicioBien == Init => Inv
<1> SUFFICES ASSUME Init PROVE Inv
  OBVIOUS
<1>1. CamposOK
  <2>1. PICK k \in 1..MaxCampos : campos \in [1..k -> Campos]
    BY DEF Init
  <2>2. k \in Nat
    BY <2>1, MensajesSupuestos
  <2>3. campos \in [1..k -> Seq(Nat)]
    BY <2>1, MensajesSupuestos
  <2> QED
    BY <2>2, <2>3 DEF CamposOK
<1>2. Len(campos) \in Nat
  BY <1>1 DEF CamposOK
<1>3. TypeOK
  BY <1>2, MensajesSupuestos DEF Init, TypeOK
<1>4. Escritura
  <2>1. 1 <= Len(campos) => Len(Lin(1)) \in Nat \ {0}
    BY <1>1, <1>2, LinBien
  <2> QED
    BY <1>2, <2>1 DEF Init, Escritura
<1>5. Historia
  BY DEF Init, Historia
<1>6. Corriente
  <2>1. PICK s : Comienzos(s)
    BY <1>1, HayComienzos
  <2>2. 1 <= Len(campos) => 0 < Len(Lin(1)) /\ SubSeq(Texto(1), 1, Hasta(0)) = <<>>
    <3>1. Hasta(0) = 0
      BY MensajesSupuestos DEF Hasta
    <3>2. SubSeq(Texto(1), 1, 0) = <<>>
      BY SubSeqEmpty
    <3> QED
      BY <1>1, <1>2, <3>1, <3>2, LinBien
  <2>3. s[1] = 0
    BY <2>1 DEF Comienzos
  <2>4. Flujo(s, 0, 1, canal, buffer, i, escrito)
    <3>1. /\ i = 1 /\ escrito = 0 /\ canal = <<>> /\ buffer = <<>> /\ Len(canal) = 0
          /\ 1 \in 1..(Len(campos) + 1) /\ 0 \in Nat
      BY <1>2 DEF Init
    <3>2. 1 <= Len(campos) => 0 < Len(Lin(1)) /\ buffer = SubSeq(Texto(1), 1, Hasta(0))
      BY <2>2, <3>1
    <3>3. s[1] + 0 + Len(canal) = s[i] + escrito
      BY <2>3, <3>1
    <3>4. 1..Len(canal) = {}
      BY <3>1
    <3> QED
      BY <2>1, <3>1, <3>2, <3>3, <3>4 DEF Flujo
  <2>5. Len(resultados) + 1 = 1
    BY DEF Init
  <2> QED
    BY <2>4, <2>5 DEF Corriente, EnCurso
<1> QED
  BY <1>1, <1>3, <1>4, <1>5, <1>6 DEF Inv

\* What is written never changes.
LEMMA Iguales ==
  ASSUME campos' = campos
  PROVE  /\ CamposOK' <=> CamposOK
         /\ \A f : Lin(f)' = Lin(f) /\ Texto(f)' = Texto(f)
         /\ \A s : Comienzos(s)' <=> Comienzos(s)
<1>1. \A f : Lin(f)' = Lin(f) /\ Texto(f)' = Texto(f)
  BY DEF Lin, Texto
<1>2. \A s : Comienzos(s)' <=> Comienzos(s)
  BY <1>1 DEF Comienzos
<1> QED
  BY <1>1, <1>2 DEF CamposOK

LEMMA CorrienteTras ==
  ASSUME campos' = campos, NEW s, NEW q,
         Leyendo' => Flujo(s, q, Len(resultados') + 1, canal', buffer', i', escrito')
  PROVE  Corriente'
<1>1. Flujo(s, q, Len(resultados') + 1, canal', buffer', i', escrito') => EnCurso(s, q)'
  BY Iguales DEF EnCurso, Flujo
<1> QED
  BY <1>1 DEF Corriente

LEMMA HistoriaTras ==
  ASSUME Historia, campos' = campos, UNCHANGED <<resultados, cortado>>,
         cortado # 0 => conexion' = "cerrada" /\ canal' = <<>> /\ buffer' = <<>>,
         conexion' = "rota" => canal' = <<>>
  PROVE  Historia'
BY Iguales DEF Historia

LEMMA EscribirPaso == Inv /\ Escribir => Inv'
<1> SUFFICES ASSUME Inv, Escribir PROVE Inv'
  OBVIOUS
<1>0. /\ TypeOK /\ CamposOK /\ Escritura /\ Historia /\ Corriente
      /\ UNCHANGED <<campos, conexion, buffer, resultados, cortado>>
      /\ conexion = "abierta"
  BY DEF Inv, Escribir, lector
<1>t. /\ Len(campos) \in Nat /\ Len(canal) \in Nat /\ i \in 1..Len(campos) /\ escrito \in Nat
      /\ i \in Nat /\ i + 1 \in 1..(Len(campos) + 1) /\ i \in 1..(Len(campos) + 1)
      /\ canal \in Seq(Octeto)
  <2>1. i <= Len(campos)
    BY DEF Escribir
  <2> QED
    BY <1>0, <2>1, Tipos DEF TypeOK
<1>l. Lin(i) \in Seq(Octeto) /\ Len(Lin(i)) \in Nat \ {0}
  BY <1>0, <1>t, LinBien
<1>1. PICK r \in 1..(Len(Lin(i)) - escrito) :
        /\ Len(canal) + r <= Capacidad
        /\ canal' = canal \o SubSeq(Lin(i), escrito + 1, escrito + r)
        /\ IF escrito + r = Len(Lin(i))
           THEN i' = i + 1 /\ escrito' = 0
           ELSE i' = i /\ escrito' = escrito + r
  BY DEF Escribir, Lin
<1> DEFINE w == SubSeq(Lin(i), escrito + 1, escrito + r)
<1>2. r \in Nat /\ r >= 1 /\ escrito + r <= Len(Lin(i))
  BY <1>t, <1>l
<1>3. w \in Seq(Octeto) /\ Len(w) = r /\ \A j \in 1..r : w[j] = Lin(i)[escrito + j]
  <2> DEFINE a == escrito + 1
             b == escrito + r
             v == Lin(i)
  <2>1. a \in Int /\ b \in Int /\ a <= b /\ b - a + 1 = r
    BY <1>t, <1>2
  <2>2. \A j \in a..b : v[j] \in Octeto
    <3>1. \A j \in a..b : j \in 1..Len(v)
      BY <1>t, <1>l, <1>2
    <3> HIDE DEF a, b, v
    <3>2. v \in Seq(Octeto)
      BY <1>l DEF v
    <3> QED
      BY <3>1, <3>2, ElementOfSeq
  <2>3. \A j \in 1..r : a + j - 1 = escrito + j
    BY <1>t, <1>2
  <2>4. w = SubSeq(v, a, b)
    OBVIOUS
  <2> HIDE DEF a, b, v, w
  <2>5. /\ SubSeq(v, a, b) \in Seq(Octeto) /\ Len(SubSeq(v, a, b)) = r
        /\ \A j \in 1..r : SubSeq(v, a, b)[j] = v[a + j - 1]
    BY <2>1, <2>2, SubSeqProperties
  <2> QED
    BY <2>3, <2>4, <2>5 DEF v
<1> HIDE DEF w
<1>4. /\ canal' \in Seq(Octeto) /\ Len(canal') = Len(canal) + r
      /\ \A m \in 1..(Len(canal) + r) :
           canal'[m] = IF m <= Len(canal) THEN canal[m] ELSE w[m - Len(canal)]
  <2>1. canal' = canal \o w
    BY <1>1 DEF w
  <2> QED
    BY <1>t, <1>3, <2>1, ConcatProperties
<1>5. TypeOK'
  <2>1. i' \in 1..(Len(campos) + 1) /\ escrito' \in Nat
    BY <1>t, <1>1, <1>2
  <2>2. Len(canal') <= Capacidad
    BY <1>1, <1>4
  <2> QED
    BY <1>0, <1>4, <2>1, <2>2 DEF TypeOK
<1>6. Escritura'
  <2>1. i + 1 <= Len(campos) => Len(Lin(i + 1)) \in Nat \ {0}
    BY <1>0, <1>t, LinBien
  <2>2. CASE escrito + r = Len(Lin(i))
    <3>1. i' = i + 1 /\ escrito' = 0
      BY <1>1, <2>2
    <3>2. i' <= Len(campos') => escrito' < Len(Lin(i'))
      BY <1>0, <2>1, <3>1
    <3>3. Lin(i)' = Lin(i')
      BY <1>0 DEF Lin
    <3> QED
      BY <3>1, <3>2, <3>3 DEF Escritura
  <2>3. CASE escrito + r # Len(Lin(i))
    <3>1. i' = i /\ escrito' = escrito + r
      BY <1>1, <2>3
    <3>2. escrito' < Len(Lin(i)) /\ i' # Len(campos) + 1
      BY <1>t, <1>l, <1>2, <2>3, <3>1
    <3>3. Lin(i)' = Lin(i)
      BY <1>0, <3>1 DEF Lin
    <3> QED
      BY <1>0, <3>2, <3>3 DEF Escritura
  <2> QED
    BY <2>2, <2>3
<1>7. Historia'
  BY <1>0, HistoriaTras DEF Historia
<1>8. Corriente'
  <2> SUFFICES ASSUME Leyendo PROVE Corriente'
    BY <1>0 DEF Corriente, Leyendo, Parado
  <2>1. PICK s, q : EnCurso(s, q)
    BY <1>0 DEF Corriente
  <2>k. PICK k : k = Len(resultados) + 1
    OBVIOUS
  <2>2. /\ Comienzos(s) /\ q \in Nat /\ k \in 1..(Len(campos) + 1)
        /\ s[k] + q + Len(canal) = s[i] + escrito
    BY <2>1, <2>k DEF EnCurso, Flujo
  <2>c. \A m \in 1..Len(canal), f \in 1..Len(campos) : \A o \in 1..Len(Lin(f)) :
          s[f] + o = s[k] + q + m => canal[m] = Lin(f)[o]
    BY <2>1, <2>k DEF EnCurso, Flujo
  <2>3. s[k] \in Nat /\ s[i] \in Nat /\ s[i + 1] = s[i] + Len(Lin(i))
    BY <1>t, <2>2 DEF Comienzos
  <2>n. PICK x \in Nat, y \in Nat, z \in Nat : x = s[k] /\ y = s[i] /\ z = Len(canal)
    BY <1>t, <2>3
  <2>x. x + q + z = y + escrito /\ q \in Nat /\ escrito \in Nat
    BY <1>t, <2>2, <2>n
  <2>4. s[k] + q + Len(canal') = s[i'] + escrito'
    <3>1. s[k] + q + (Len(canal) + r) = s[i] + (escrito + r)
      <4>1. x + q + (z + r) = y + (escrito + r)
        BY <1>2, <2>x
      <4> QED
        BY <2>n, <4>1
    <3>2. s[i'] + escrito' = s[i] + (escrito + r)
      <4>1. CASE escrito + r = Len(Lin(i))
        <5>1. i' = i + 1 /\ escrito' = 0
          BY <1>1, <4>1
        <5>2. s[i'] = s[i] + Len(Lin(i))
          BY <2>3, <5>1
        <5> QED
          BY SMTT(20), <1>t, <1>l, <1>2, <2>3, <4>1, <5>1, <5>2
      <4>2. CASE escrito + r # Len(Lin(i))
        BY <1>1, <4>2
      <4> QED
        BY <4>1, <4>2
    <3>3. Len(canal') = Len(canal) + r
      BY <1>4
    <3> QED
      BY <3>1, <3>2, <3>3
  <2>5. ASSUME NEW m \in 1..Len(canal'), NEW f \in 1..Len(campos), NEW o \in 1..Len(Lin(f)),
               s[f] + o = s[k] + q + m
        PROVE  canal'[m] = Lin(f)[o]
    <3>1. CASE m <= Len(canal)
      <4>1. m \in 1..Len(canal) /\ canal'[m] = canal[m]
        BY <1>t, <1>2, <1>4, <3>1
      <4> QED
        BY <2>c, <2>5, <4>1
    <3>2. CASE m > Len(canal)
      <4>j. PICK j : j = m - Len(canal)
        OBVIOUS
      <4>1. j \in 1..r /\ canal'[m] = w[j] /\ m = Len(canal) + j
        <5>1. Len(canal') = Len(canal) + r
          BY <1>4
        <5>2. m \in 1..(Len(canal) + r)
          BY <5>1
        <5>3. j \in 1..r /\ m = Len(canal) + j /\ ~(m <= Len(canal))
          BY <1>t, <1>2, <3>2, <4>j, <5>2
        <5>4. canal'[m] = w[j]
          BY <1>4, <4>j, <5>2, <5>3
        <5> QED
          BY <5>3, <5>4
      <4>2. escrito + j \in 1..Len(Lin(i)) /\ j \in Nat
        BY <1>t, <1>2, <1>l, <4>1
      <4>3. s[f] + o = s[i] + (escrito + j)
        <5>1. s[f] + o = x + q + (z + j)
          BY <2>5, <2>n, <4>1
        <5>2. x + q + (z + j) = y + (escrito + j)
          BY <2>x, <4>2
        <5> QED
          BY <2>n, <5>1, <5>2
      <4>4. f = i /\ o = escrito + j
        BY <1>0, <1>t, <2>2, <4>2, <4>3, UnSitio
      <4> QED
        BY <1>3, <4>1, <4>4
    <3> QED
      BY <1>t, <1>2, <1>4, <3>1, <3>2
  <2>6. /\ k <= Len(campos) => q < Len(Lin(k)) /\ buffer' = SubSeq(Texto(k), 1, Hasta(q))
        /\ k = Len(campos) + 1 => q = 0 /\ buffer' = <<>>
    BY <1>0, <2>1, <2>k DEF EnCurso, Flujo
  <2>7. Flujo(s, q, k, canal', buffer', i', escrito')
    BY <2>2, <2>4, <2>5, <2>6 DEF Flujo
  <2>8. Flujo(s, q, Len(resultados') + 1, canal', buffer', i', escrito')
    BY <1>0, <2>7, <2>k
  <2> QED
    BY <1>0, <2>8, CorrienteTras
<1> QED
  BY <1>0, <1>5, <1>6, <1>7, <1>8, Iguales DEF Inv

Devuelto == [r : -1..(n - 1), texto : Seq(Octeto)]

LEMMA DevolverBien ==
  ASSUME Inv, NEW r \in -1..(n - 1), NEW c \in BOOLEAN, Devolver(r, c)
  PROVE  /\ resultados' \in Seq(Devuelto) /\ Len(resultados') = Len(resultados) + 1
         /\ resultados'[Len(resultados) + 1] = [r |-> r, texto |-> buffer]
         /\ \A j \in 1..Len(resultados) : resultados'[j] = resultados[j]
         /\ buffer' = <<>> /\ cortado' \in Nat
         /\ Parado' <=> r <= 0
<1> DEFINE x == [r |-> r, texto |-> buffer]
<1>1. resultados \in Seq(Devuelto) /\ x \in Devuelto
  BY DEF Inv, TypeOK, Devuelto
<1>2. resultados' = Append(resultados, x)
  BY DEF Devolver
<1>3. x.r = r
  OBVIOUS
<1>t. Len(resultados) \in Nat /\ cortado \in Nat
  BY Tipos DEF Inv
<1> HIDE DEF x
<1>4. /\ resultados' \in Seq(Devuelto) /\ resultados' # <<>>
      /\ Len(resultados') = Len(resultados) + 1
      /\ resultados'[Len(resultados) + 1] = x
      /\ \A j \in 1..Len(resultados) : resultados'[j] = resultados[j]
  BY <1>1, <1>2, AppendProperties
<1>5. Parado' <=> r <= 0
  BY <1>3, <1>4 DEF Parado
<1>6. buffer' = <<>> /\ cortado' \in Nat
  BY <1>t DEF Devolver
<1> QED
  BY <1>4, <1>5, <1>6 DEF x

LEMMA DevueltoDevuelto == ASSUME NEW x \in Devuelto PROVE x.r \in Int /\ x.texto \in Seq(Octeto)
BY MensajesSupuestos DEF Devuelto

\* A call of readLine that returns leaves the history as it should be.
LEMMA HistoriaDevuelta ==
  ASSUME Inv, ~Parado, NEW r \in -1..(n - 1), NEW c \in BOOLEAN, Devolver(r, c),
         campos' = campos, NEW k, k = Len(resultados) + 1,
         r > 0 => /\ k <= Len(campos)
                  /\ c \/ buffer = SubSeq(Texto(k), 1, Hasta(Len(Texto(k)))),
         c => cortado = 0,
         cortado' # 0 => conexion' = "cerrada" /\ canal' = <<>>,
         conexion' = "rota" => canal' = <<>>
  PROVE  Historia'
<1>0. Historia /\ Len(resultados) \in Nat /\ cortado \in Nat
  BY Tipos DEF Inv
<1>d. /\ resultados' \in Seq(Devuelto) /\ Len(resultados') = k
      /\ resultados'[k].r = r /\ resultados'[k].texto = buffer
      /\ \A j \in 1..Len(resultados) : resultados'[j] = resultados[j]
      /\ buffer' = <<>> /\ cortado' \in Nat
  <2>1. [r |-> r, texto |-> buffer].r = r /\ [r |-> r, texto |-> buffer].texto = buffer
    OBVIOUS
  <2> QED
    BY <2>1, DevolverBien
<1>1. \A j \in 1..Len(resultados) : resultados[j].r > 0
  <2> SUFFICES ASSUME NEW j \in 1..Len(resultados) PROVE resultados[j].r > 0
    OBVIOUS
  <2>1. CASE j < Len(resultados)
    BY <1>0, <2>1 DEF Historia
  <2>2. CASE j = Len(resultados)
    <3>1. resultados # <<>>
      BY <1>0, <2>2
    <3>2. resultados[j] \in Devuelto
      <4>1. resultados \in Seq(Devuelto)
        BY DEF Inv, TypeOK, Devuelto
      <4> QED
        BY <4>1, ElementOfSeq
    <3>3. ~(resultados[j].r <= 0)
      BY <2>2, <3>1 DEF Parado
    <3> QED
      BY <3>2, <3>3, DevueltoDevuelto
  <2> QED
    BY <1>0, <2>1, <2>2
<1>2. ASSUME NEW j \in 1..k
      PROVE  /\ resultados'[j].r > 0 =>
                  /\ j <= Len(campos)
                  /\ j # cortado' => resultados'[j].texto = SubSeq(Texto(j), 1, Hasta(Len(Texto(j))))
             /\ j < k => resultados'[j].r > 0
  <2>1. CASE j = k
    <3>1. c => cortado' = k
      BY DEF Devolver
    <3> QED
      BY <1>0, <1>d, <2>1, <3>1
  <2>2. CASE j < k
    <3>1. j \in 1..Len(resultados) /\ resultados'[j] = resultados[j]
      BY <1>0, <1>d, <2>2
    <3>2. j # cortado' => j # cortado
      <4>1. c => j # cortado
        BY <1>0, <3>1
      <4>2. ~c => cortado' = cortado
        BY DEF Devolver
      <4> QED
        BY <4>1, <4>2
    <3> QED
      BY <1>0, <1>1, <3>1, <3>2 DEF Historia
  <2> QED
    BY <1>0, <2>1, <2>2
<1>3. cortado' <= k
  BY <1>0 DEF Devolver, Historia
<1>4. \A j : Texto(j)' = Texto(j)
  BY Iguales
<1> QED
  BY <1>d, <1>2, <1>3, <1>4 DEF Historia

\* The next byte in the channel is the next one of the field that is being read.
LEMMA Proximo ==
  ASSUME TypeOK, CamposOK, Escritura, canal # <<>>, NEW s, NEW q, NEW k,
         Flujo(s, q, k, canal, buffer, i, escrito)
  PROVE  k \in 1..Len(campos) /\ q + 1 \in 1..Len(Lin(k)) /\ Head(canal) = Lin(k)[q + 1]
<1>t. /\ Len(campos) \in Nat /\ Len(canal) \in Nat /\ escrito \in Nat /\ i \in Nat
      /\ i \in 1..(Len(campos) + 1) /\ canal \in Seq(Octeto)
  BY Tipos DEF TypeOK
<1>1. Len(canal) >= 1 /\ Head(canal) = canal[1]
  BY <1>t
<1>2. /\ Comienzos(s) /\ q \in Nat /\ k \in 1..(Len(campos) + 1)
      /\ s[k] + q + Len(canal) = s[i] + escrito
      /\ k = Len(campos) + 1 => q = 0
      /\ k <= Len(campos) => q < Len(Lin(k))
  BY DEF Flujo
<1>3. s[k] \in Nat /\ s[i] \in Nat
  BY <1>t, <1>2 DEF Comienzos
<1>4. k # Len(campos) + 1
  <2> SUFFICES ASSUME k = Len(campos) + 1 PROVE FALSE
    OBVIOUS
  <2>1. s[k] + Len(canal) = s[i] + escrito
    BY <1>2, <1>3
  <2>2. CASE i = k
    <3>1. escrito = 0
      BY <2>2 DEF Escritura
    <3> QED
      BY <1>t, <1>1, <1>3, <2>1, <2>2, <3>1
  <2>3. CASE i # k
    <3>1. i \in 1..Len(campos) /\ i < k
      BY <1>t, <2>3
    <3>2. escrito < Len(Lin(i)) /\ Len(Lin(i)) \in Nat
      BY <3>1, LinBien DEF Escritura
    <3>3. s[i] + Len(Lin(i)) <= s[k]
      BY <1>t, <1>2, <3>1, Crecen
    <3>4. PICK x \in Nat, y \in Nat, z \in Nat, l \in Nat :
            x = s[k] /\ y = s[i] /\ z = Len(canal) /\ l = Len(Lin(i))
      BY <1>t, <1>3, <3>2
    <3>5. y + l <= x /\ x + z = y + escrito /\ escrito < l /\ z >= 1 /\ escrito \in Nat
      BY <1>t, <1>1, <2>1, <3>2, <3>3, <3>4
    <3> QED
      BY <3>5
  <2> QED
    BY <2>2, <2>3
<1>5. k \in 1..Len(campos) /\ k \in Nat
  BY <1>t, <1>2, <1>4
<1>6. q + 1 \in 1..Len(Lin(k))
  <2>1. Len(Lin(k)) \in Nat /\ q < Len(Lin(k))
    BY <1>2, <1>5, LinBien
  <2> QED
    BY <1>2, <2>1
<1>7. canal[1] = Lin(k)[q + 1]
  <2>1. \A m \in 1..Len(canal), f \in 1..Len(campos) : \A o \in 1..Len(Lin(f)) :
          s[f] + o = s[k] + q + m => canal[m] = Lin(f)[o]
    BY DEF Flujo
  <2>2. 1 \in 1..Len(canal)
    BY <1>t, <1>1
  <2>3. s[k] + (q + 1) = s[k] + q + 1
    <3>1. PICK x \in Nat : x = s[k]
      BY <1>3
    <3>2. x + (q + 1) = x + q + 1
      BY <1>2
    <3> QED
      BY <3>1, <3>2
  <2> QED
    BY <1>5, <1>6, <2>1, <2>2, <2>3
<1> QED
  BY <1>1, <1>5, <1>6, <1>7

\* One more byte of a text.
LEMMA UnByteMas ==
  ASSUME CamposOK, NEW k \in 1..Len(campos), NEW q \in Nat, q + 1 <= Len(Texto(k)),
         NEW b, b = SubSeq(Texto(k), 1, Hasta(q))
  PROVE  /\ Len(b) = Hasta(q)
         /\ SubSeq(Texto(k), 1, Hasta(q + 1)) =
              IF Len(b) < n - 1 THEN Append(b, Texto(k)[q + 1]) ELSE b
<1>t. PICK t : t = Texto(k)
  OBVIOUS
<1>n. n \in Nat /\ n >= 2
  BY MensajesSupuestos
<1>1. t \in Seq(Octeto) /\ Len(t) \in Nat /\ q + 1 <= Len(t)
  BY <1>t, LinBien
<1>2. Hasta(q) \in Nat /\ Hasta(q) <= q /\ Hasta(q) \in 0..Len(t)
  BY <1>1, <1>n DEF Hasta
<1>3. \A h \in 0..Len(t) : SubSeq(t, 1, h) \in Seq(Octeto) /\ Len(SubSeq(t, 1, h)) = h
  <2> SUFFICES ASSUME NEW h \in 0..Len(t)
               PROVE  SubSeq(t, 1, h) \in Seq(Octeto) /\ Len(SubSeq(t, 1, h)) = h
    OBVIOUS
  <2>1. \A j \in 1..h : t[j] \in Octeto
    BY <1>1, ElementOfSeq
  <2>2. h \in Int /\ 1 \in Int /\ (IF 1 <= h THEN h - 1 + 1 ELSE 0) = h
    BY <1>1
  <2> QED
    BY <2>1, <2>2, SubSeqProperties
<1>4. Len(b) = Hasta(q)
  BY <1>t, <1>2, <1>3
<1>5. CASE q < n - 1
  <2>1. Hasta(q) = q /\ Hasta(q + 1) = q + 1
    BY <1>5, <1>n DEF Hasta
  <2>2. SubSeq(t, 1, q + 1) = Append(SubSeq(t, 1, q), t[q + 1])
    <3>1. q + 1 \in 1..Len(t) /\ 1 \in 1..Len(t) /\ (q + 1) - 1 = q /\ q + 1 \in 1..Len(t)
      BY <1>1
    <3>2. SubSeq(t, 1, q + 1) = SubSeq(t, 1, q) \o <<t[q + 1]>>
      BY <1>1, <3>1, SubSeqRecursiveSecond
    <3>3. SubSeq(t, 1, q) \in Seq(Octeto) /\ t[q + 1] \in Octeto
      BY <1>1, <1>3, <3>1, ElementOfSeq
    <3> QED
      BY <3>2, <3>3, AppendIsConcat
  <2> QED
    BY <1>t, <1>4, <1>5, <2>1, <2>2
<1>6. CASE ~(q < n - 1)
  <2>1. Hasta(q) = n - 1 /\ Hasta(q + 1) = n - 1
    BY <1>6, <1>n DEF Hasta
  <2> QED
    BY <1>t, <1>4, <1>n, <2>1
<1> QED
  BY <1>4, <1>5, <1>6

\* What the reader does with a byte, in terms of the texts.
LeeByte(s, q, k) ==
  /\ q \in Nat /\ k \in 1..Len(campos) /\ k = Len(resultados) + 1
  /\ Flujo(s, q, k, canal, buffer, i, escrito)
  /\ \/ /\ q = Len(Texto(k))
        /\ buffer = SubSeq(Texto(k), 1, Hasta(Len(Texto(k))))
        /\ Devolver(Len(buffer), FALSE)
     \/ /\ q + 1 <= Len(Texto(k)) /\ Head(canal) # Fin
        /\ UNCHANGED <<resultados, cortado>>
        /\ buffer' = SubSeq(Texto(k), 1, Hasta(q + 1))

LEMMA LeerBien == ASSUME Inv, Leer PROVE Leyendo /\ \E s, q, k : LeeByte(s, q, k)
<1>0. /\ TypeOK /\ CamposOK /\ Escritura /\ Historia /\ Corriente
      /\ ~Parado /\ canal # <<>>
  BY DEF Inv, Leer
<1>1. Leyendo
  BY <1>0 DEF Historia, Leyendo
<1>2. PICK s, q : EnCurso(s, q)
  BY <1>0, <1>1 DEF Corriente
<1>3. PICK k : k = Len(resultados) + 1
  OBVIOUS
<1>4. Flujo(s, q, k, canal, buffer, i, escrito)
  BY <1>2, <1>3 DEF EnCurso
<1>5. k \in 1..Len(campos) /\ q + 1 \in 1..Len(Lin(k)) /\ Head(canal) = Lin(k)[q + 1]
  BY <1>0, <1>4, Proximo
<1>6. q \in Nat /\ buffer = SubSeq(Texto(k), 1, Hasta(q))
  <2>1. k <= Len(campos)
    BY <1>0, <1>5, Tipos
  <2> QED
    BY <1>4, <2>1 DEF Flujo
<1>7. /\ Len(Lin(k)) = Len(Texto(k)) + 1 /\ Len(Texto(k)) \in Nat
      /\ Lin(k)[Len(Lin(k))] = Fin
      /\ \A o \in 1..Len(Texto(k)) : Lin(k)[o] = Texto(k)[o] /\ Lin(k)[o] # Fin
  BY <1>0, <1>5, LinBien
<1>8. CASE q = Len(Texto(k))
  <2>1. Head(canal) = Fin
    BY <1>5, <1>7, <1>8
  <2>2. Devolver(Len(buffer), FALSE)
    BY <2>1 DEF Leer
  <2> QED
    BY <1>1, <1>3, <1>4, <1>5, <1>6, <1>8, <2>1, <2>2 DEF LeeByte
<1>9. CASE q # Len(Texto(k))
  <2>1. q + 1 <= Len(Texto(k)) /\ q + 1 \in 1..Len(Texto(k))
    BY <1>5, <1>6, <1>7, <1>9
  <2>2. Head(canal) = Texto(k)[q + 1] /\ Head(canal) # Fin
    BY <1>5, <1>7, <2>1
  <2>3. Guardar(Head(canal))
    BY <2>2 DEF Leer
  <2>4. buffer' = IF Len(buffer) < n - 1 THEN Append(buffer, Texto(k)[q + 1]) ELSE buffer
    BY <2>2, <2>3 DEF Guardar
  <2>5. buffer' = SubSeq(Texto(k), 1, Hasta(q + 1))
    BY <1>0, <1>5, <1>6, <2>1, <2>4, UnByteMas
  <2>6. UNCHANGED <<resultados, cortado>>
    BY <2>3 DEF Guardar
  <2> QED
    BY <1>1, <1>3, <1>4, <1>5, <1>6, <2>1, <2>2, <2>5, <2>6 DEF LeeByte
<1> QED
  BY <1>8, <1>9

\* Past a byte the stream goes on, in the same field or at the start of the next.
LEMMA FlujoSigue ==
  ASSUME TypeOK, CamposOK, canal # <<>>, NEW s, NEW q \in Nat, NEW k \in 1..Len(campos),
         Flujo(s, q, k, canal, buffer, i, escrito),
         NEW p \in Nat, NEW h \in 1..(Len(campos) + 1), NEW b,
         s[h] + p = s[k] + q + 1,
         h <= Len(campos) => p < Len(Lin(h)) /\ b = SubSeq(Texto(h), 1, Hasta(p)),
         h = Len(campos) + 1 => p = 0 /\ b = <<>>
  PROVE  Flujo(s, p, h, Tail(canal), b, i, escrito)
<1>t. /\ Len(campos) \in Nat /\ Len(canal) \in Nat /\ canal \in Seq(Octeto)
      /\ escrito \in Nat /\ i \in 1..(Len(campos) + 1)
  BY Tipos DEF TypeOK
<1>1. /\ Tail(canal) \in Seq(Octeto) /\ Len(Tail(canal)) = Len(canal) - 1 /\ Len(canal) >= 1
      /\ \A m \in 1..Len(Tail(canal)) : Tail(canal)[m] = canal[m + 1]
  BY <1>t, HeadTailProperties
<1>2. Comienzos(s) /\ s[k] + q + Len(canal) = s[i] + escrito
  BY DEF Flujo
<1>3. k \in 1..(Len(campos) + 1)
  BY <1>t
<1>4. PICK x \in Nat, y \in Nat, z \in Nat, l \in Nat :
        x = s[h] /\ y = s[k] /\ z = s[i] /\ l = Len(canal)
  BY <1>t, <1>2, <1>3 DEF Comienzos
<1>5. x + p = y + q + 1 /\ y + q + l = z + escrito /\ l >= 1
  BY <1>1, <1>2, <1>4
<1>6. s[h] + p + Len(Tail(canal)) = s[i] + escrito
  <2>1. x + p + (l - 1) = z + escrito
    BY <1>t, <1>5
  <2> QED
    BY <1>1, <1>4, <2>1
<1>7. ASSUME NEW m \in 1..Len(Tail(canal)), NEW f \in 1..Len(campos), NEW o \in 1..Len(Lin(f)),
             s[f] + o = s[h] + p + m
      PROVE  Tail(canal)[m] = Lin(f)[o]
  <2>1. m + 1 \in 1..Len(canal) /\ m \in Nat
    BY <1>t, <1>1
  <2>2. s[f] + o = s[k] + q + (m + 1)
    <3>1. x + p + m = y + q + (m + 1)
      BY <1>5, <2>1
    <3> QED
      BY <1>4, <1>7, <3>1
  <2>3. canal[m + 1] = Lin(f)[o]
    BY <2>1, <2>2 DEF Flujo
  <2> QED
    BY <1>1, <2>3
<1> QED
  BY <1>2, <1>6, <1>7 DEF Flujo

LEMMA LeerPaso == Inv /\ Leer => Inv'
<1> SUFFICES ASSUME Inv, Leer PROVE Inv'
  OBVIOUS
<1>0. /\ TypeOK /\ CamposOK /\ Escritura /\ Historia
      /\ canal # <<>> /\ ~Parado /\ canal' = Tail(canal)
      /\ UNCHANGED <<campos, i, escrito, conexion>>
  BY DEF Inv, Leer, escritor
<1>t. /\ Len(campos) \in Nat /\ Len(canal) \in Nat /\ canal \in Seq(Octeto)
      /\ Len(resultados) \in Nat /\ n \in Nat /\ n >= 2 /\ Len(buffer) \in Nat /\ Len(buffer) < n
      /\ Len(canal) <= Capacidad /\ Capacidad \in Nat
  BY <1>0, Tipos DEF TypeOK
<1>1. Leyendo
  BY LeerBien
<1>p. PICK s, q, k : LeeByte(s, q, k)
  BY LeerBien
<1>2. /\ q \in Nat /\ k \in 1..Len(campos) /\ k = Len(resultados) + 1
      /\ Flujo(s, q, k, canal, buffer, i, escrito)
      /\ \/ /\ q = Len(Texto(k))
            /\ buffer = SubSeq(Texto(k), 1, Hasta(Len(Texto(k))))
            /\ Devolver(Len(buffer), FALSE)
         \/ /\ q + 1 <= Len(Texto(k)) /\ Head(canal) # Fin
            /\ UNCHANGED <<resultados, cortado>>
            /\ buffer' = SubSeq(Texto(k), 1, Hasta(q + 1))
  BY <1>p DEF LeeByte
<1>3. /\ Len(Lin(k)) = Len(Texto(k)) + 1 /\ Len(Texto(k)) \in Nat
      /\ Texto(k) \in Seq(Octeto)
  BY <1>0, <1>2, LinBien
<1>4. /\ canal' \in Seq(Octeto) /\ Len(canal') <= Capacidad
  <2>1. Len(Tail(canal)) = Len(canal) - 1 /\ Tail(canal) \in Seq(Octeto)
    BY <1>0, <1>t, HeadTailProperties
  <2> QED
    BY <1>0, <1>t, <2>1
<1>e. Escritura'
  BY <1>0, Iguales DEF Escritura, Lin
<1>s. Comienzos(s) /\ s[k] \in Nat /\ s[k + 1] = s[k] + Len(Lin(k))
  <2>1. k \in 1..(Len(campos) + 1)
    BY <1>t, <1>2
  <2> QED
    BY <1>2, <2>1 DEF Flujo, Comienzos
<1>5. CASE /\ q = Len(Texto(k))
           /\ buffer = SubSeq(Texto(k), 1, Hasta(Len(Texto(k))))
           /\ Devolver(Len(buffer), FALSE)
  <2>r. Len(buffer) \in -1..(n - 1)
    BY <1>t
  <2>1. /\ resultados' \in Seq(Devuelto) /\ Len(resultados') = k
        /\ buffer' = <<>> /\ cortado' \in Nat /\ cortado' = cortado
    BY <1>2, <1>5, <2>r, DevolverBien DEF Devolver
  <2>2. TypeOK'
    <3>1. Len(buffer') < n /\ buffer' \in Seq(Octeto)
      BY <1>t, <2>1
    <3> QED
      BY <1>0, <1>4, <2>1, <3>1 DEF TypeOK, Devuelto
  <2>3. Historia'
    <3>1. k <= Len(campos)
      BY <1>t, <1>2
    <3>2. cortado' = 0 /\ conexion' # "rota" /\ FALSE \in BOOLEAN
      BY <1>0, <1>1, <2>1 DEF Leyendo
    <3> QED
      BY <1>0, <1>2, <1>5, <2>r, <3>1, <3>2, HistoriaDevuelta
  <2>4. Corriente'
    <3>1. k + 1 \in 1..(Len(campos) + 1)
      BY <1>t, <1>2
    <3>2. s[k + 1] + 0 = s[k] + q + 1
      <4>1. PICK x \in Nat : x = s[k]
        BY <1>s
      <4>2. x + (q + 1) = x + q + 1
        BY <1>2
      <4>3. s[k + 1] = x + (q + 1)
        BY <1>3, <1>5, <1>s, <4>1
      <4>4. s[k + 1] \in Nat
        BY <1>2, <4>1, <4>3
      <4> QED
        BY <4>1, <4>2, <4>3, <4>4
    <3>3. k + 1 <= Len(campos) =>
            0 < Len(Lin(k + 1)) /\ <<>> = SubSeq(Texto(k + 1), 1, Hasta(0))
      <4>1. Hasta(0) = 0
        BY <1>t DEF Hasta
      <4>2. SubSeq(Texto(k + 1), 1, 0) = <<>>
        BY SubSeqEmpty
      <4>3. k + 1 <= Len(campos) => Len(Lin(k + 1)) \in Nat \ {0}
        BY <1>0, <1>t, <1>2, LinBien
      <4> QED
        BY <4>1, <4>2, <4>3
    <3>4. Flujo(s, 0, k + 1, Tail(canal), <<>>, i, escrito)
      BY <1>0, <1>2, <3>1, <3>2, <3>3, FlujoSigue
    <3>5. Flujo(s, 0, Len(resultados') + 1, canal', buffer', i', escrito')
      BY <1>0, <2>1, <3>4
    <3> QED
      BY <1>0, <3>5, CorrienteTras
  <2> QED
    BY <1>0, <1>e, <2>2, <2>3, <2>4, Iguales DEF Inv
<1>6. CASE /\ q + 1 <= Len(Texto(k))
           /\ UNCHANGED <<resultados, cortado>>
           /\ buffer' = SubSeq(Texto(k), 1, Hasta(q + 1))
  <2>1. buffer' \in Seq(Octeto) /\ Len(buffer') < n
    <3>1. Guardar(Head(canal))
      BY <1>2, <1>6 DEF Leer, Devolver
    <3>2. Head(canal) \in Octeto
      BY <1>0, <1>t, HeadTailProperties
    <3>3. buffer \in Seq(Octeto)
      BY <1>0 DEF TypeOK
    <3>4. Append(buffer, Head(canal)) \in Seq(Octeto)
          /\ Len(Append(buffer, Head(canal))) = Len(buffer) + 1
      BY <3>2, <3>3, AppendProperties
    <3> QED
      BY <1>t, <3>1, <3>3, <3>4 DEF Guardar
  <2>2. TypeOK'
    BY <1>0, <1>4, <1>6, <2>1 DEF TypeOK
  <2>3. Historia'
    BY <1>0, <1>1, <1>6, HistoriaTras DEF Leyendo
  <2>4. Corriente'
    <3>1. k \in 1..(Len(campos) + 1) /\ q + 1 \in Nat /\ k # Len(campos) + 1
      BY <1>t, <1>2
    <3>2. s[k] + (q + 1) = s[k] + q + 1
      <4>1. PICK x \in Nat : x = s[k]
        BY <1>s
      <4>2. x + (q + 1) = x + q + 1
        BY <1>2
      <4> QED
        BY <4>1, <4>2
    <3>3. q + 1 < Len(Lin(k))
      BY <1>2, <1>3, <1>6
    <3>4. Flujo(s, q + 1, k, Tail(canal), buffer', i, escrito)
      BY <1>0, <1>2, <1>6, <3>1, <3>2, <3>3, FlujoSigue
    <3>5. Flujo(s, q + 1, Len(resultados') + 1, canal', buffer', i', escrito')
      BY <1>0, <1>2, <1>6, <3>4
    <3> QED
      BY <1>0, <3>5, CorrienteTras
  <2> QED
    BY <1>0, <1>e, <2>2, <2>3, <2>4, Iguales DEF Inv
<1> QED
  BY <1>2, <1>5, <1>6

LEMMA LeerCeroPaso == Inv /\ LeerCero => Inv'
<1> SUFFICES ASSUME Inv, LeerCero PROVE Inv'
  OBVIOUS
<1>0. /\ TypeOK /\ CamposOK /\ Escritura /\ Historia /\ Corriente /\ ~Parado
      /\ canal = <<>> /\ conexion = "cerrada" /\ Devolver(Len(buffer), buffer # <<>>)
      /\ UNCHANGED <<campos, i, escrito, canal, conexion>>
  BY DEF Inv, LeerCero, escritor
<1>t. /\ Len(campos) \in Nat /\ Len(resultados) \in Nat /\ n \in Nat /\ n >= 2
      /\ Len(buffer) \in Nat /\ Len(buffer) < n /\ buffer \in Seq(Octeto)
      /\ Len(buffer) \in -1..(n - 1) /\ (Len(buffer) > 0 <=> buffer # <<>>)
  BY <1>0, Tipos DEF TypeOK
<1>k. PICK k : k = Len(resultados) + 1
  OBVIOUS
<1>c. PICK c \in BOOLEAN : c <=> buffer # <<>>
  OBVIOUS
<1>1. Devolver(Len(buffer), c)
  BY <1>0, <1>c DEF Devolver
<1>2. /\ resultados' \in Seq(Devuelto) /\ Len(resultados') = k
      /\ buffer' = <<>> /\ cortado' \in Nat /\ (Parado' <=> Len(buffer) <= 0)
  BY <1>k, <1>t, <1>1, DevolverBien
<1>3. c => cortado = 0
  BY <1>0, <1>c DEF Historia
<1>4. c => k <= Len(campos)
  <2> SUFFICES ASSUME c PROVE k <= Len(campos)
    OBVIOUS
  <2>1. Leyendo
    BY <1>0, <1>3 DEF Leyendo
  <2>2. PICK s, q : EnCurso(s, q)
    BY <1>0, <2>1 DEF Corriente
  <2>3. k \in 1..(Len(campos) + 1) /\ (k = Len(campos) + 1 => buffer = <<>>)
    BY <1>k, <2>2 DEF EnCurso, Flujo
  <2> QED
    BY <1>t, <1>c, <2>3
<1>5. Historia'
  BY <1>0, <1>k, <1>c, <1>t, <1>1, <1>3, <1>4, HistoriaDevuelta
<1>6. ~Leyendo'
  <2>1. c => cortado' # 0
    BY <1>1, <1>t DEF Devolver
  <2>2. ~c => Parado'
    BY <1>c, <1>t, <1>2
  <2> QED
    BY <2>1, <2>2 DEF Leyendo
<1>7. TypeOK'
  <2>1. Len(buffer') < n /\ buffer' \in Seq(Octeto)
    BY <1>t, <1>2
  <2> QED
    BY <1>0, <1>2, <2>1 DEF TypeOK, Devuelto
<1>8. Escritura'
  BY <1>0, Iguales DEF Escritura, Lin
<1> QED
  BY <1>0, <1>5, <1>6, <1>7, <1>8, Iguales DEF Inv, Corriente

LEMMA LeerErrorPaso == Inv /\ LeerError => Inv'
<1> SUFFICES ASSUME Inv, LeerError PROVE Inv'
  OBVIOUS
<1>0. /\ TypeOK /\ CamposOK /\ Escritura /\ Historia /\ ~Parado
      /\ conexion = "rota" /\ Devolver(-1, FALSE)
      /\ UNCHANGED <<campos, i, escrito, canal, conexion>>
  BY DEF Inv, LeerError, escritor
<1>t. /\ Len(resultados) \in Nat /\ n \in Nat /\ n >= 2 /\ -1 \in -1..(n - 1)
      /\ FALSE \in BOOLEAN /\ ~(-1 > 0)
  BY <1>0, Tipos
<1>k. PICK k : k = Len(resultados) + 1
  OBVIOUS
<1>1. /\ resultados' \in Seq(Devuelto) /\ buffer' = <<>> /\ cortado' = cortado /\ cortado \in Nat
  BY <1>0, <1>t, DevolverBien, Tipos DEF Devolver
<1>2. cortado = 0 /\ canal = <<>>
  BY <1>0 DEF Historia
<1>3. Historia'
  BY <1>0, <1>k, <1>t, <1>1, <1>2, HistoriaDevuelta
<1>4. TypeOK'
  <2>1. Len(buffer') < n /\ buffer' \in Seq(Octeto)
    BY <1>t, <1>1
  <2> QED
    BY <1>0, <1>1, <2>1 DEF TypeOK, Devuelto
<1>5. Escritura'
  BY <1>0, Iguales DEF Escritura, Lin
<1> QED
  BY <1>0, <1>3, <1>4, <1>5, Iguales DEF Inv, Corriente, Leyendo

LEMMA OtrosPasos ==
  Inv /\ (EscribirFalla \/ Cerrar \/ Romper \/ UNCHANGED vars) => Inv'
<1> SUFFICES ASSUME Inv PROVE EscribirFalla \/ Cerrar \/ Romper \/ UNCHANGED vars => Inv'
  OBVIOUS
<1>0. TypeOK /\ CamposOK /\ Escritura /\ Historia /\ Corriente
  BY DEF Inv
<1>1. ASSUME EscribirFalla PROVE Inv'
  <2>1. /\ conexion = "rota" /\ i <= Len(campos) /\ i' = i + 1 /\ escrito' = 0
        /\ UNCHANGED <<campos, canal, conexion, buffer, resultados, cortado>>
    BY <1>1 DEF EscribirFalla, lector
  <2>2. i \in Nat /\ Len(campos) \in Nat /\ i \in 1..(Len(campos) + 1)
    BY <1>0, Tipos
  <2>3. TypeOK'
    BY <1>0, <2>1, <2>2 DEF TypeOK
  <2>4. Escritura'
    <3>1. i' <= Len(campos) => i' \in 1..Len(campos)
      BY <2>1, <2>2
    <3>2. i' <= Len(campos) => 0 < Len(Lin(i'))
      BY <1>0, <3>1, LinBien
    <3>3. Lin(i)' = Lin(i')
      BY <2>1 DEF Lin
    <3> QED
      BY <2>1, <3>2, <3>3 DEF Escritura
  <2>5. Historia'
    BY <1>0, <2>1, HistoriaTras DEF Historia
  <2> QED
    BY <1>0, <2>1, <2>3, <2>4, <2>5, Iguales DEF Inv, Corriente, Leyendo
<1>2. ASSUME Cerrar PROVE Inv'
  <2>1. /\ conexion = "abierta" /\ conexion' = "cerrada"
        /\ UNCHANGED <<campos, i, escrito, canal, buffer, resultados, cortado>>
    BY <1>2 DEF Cerrar, escritor, lector
  <2>2. Historia'
    BY <1>0, <2>1, HistoriaTras DEF Historia
  <2>3. Corriente'
    <3> SUFFICES ASSUME Leyendo PROVE Corriente'
      BY <2>1 DEF Corriente, Leyendo, Parado
    <3>1. PICK s, q : EnCurso(s, q)
      BY <1>0 DEF Corriente
    <3>2. Flujo(s, q, Len(resultados') + 1, canal', buffer', i', escrito')
      BY <2>1, <3>1 DEF EnCurso
    <3> QED
      BY <2>1, <3>2, CorrienteTras
  <2>4. TypeOK' /\ Escritura'
    BY <1>0, <2>1, Iguales DEF TypeOK, Escritura, Lin
  <2> QED
    BY <1>0, <2>1, <2>2, <2>3, <2>4, Iguales DEF Inv
<1>3. ASSUME Romper PROVE Inv'
  <2>1. /\ conexion = "abierta" /\ conexion' = "rota" /\ canal' = <<>>
        /\ UNCHANGED <<campos, i, escrito, buffer, resultados, cortado>>
    BY <1>3 DEF Romper, escritor, lector
  <2>2. Historia'
    BY <1>0, <2>1, HistoriaTras DEF Historia
  <2>3. TypeOK'
    <3>1. canal' \in Seq(Octeto) /\ Len(canal') <= Capacidad
      BY <2>1, MensajesSupuestos
    <3> QED
      BY <1>0, <2>1, <3>1 DEF TypeOK
  <2>4. Escritura'
    BY <1>0, <2>1, Iguales DEF Escritura, Lin
  <2> QED
    BY <1>0, <2>1, <2>2, <2>3, <2>4, Iguales DEF Inv, Corriente, Leyendo
<1>4. ASSUME UNCHANGED vars PROVE Inv'
  <2>1. UNCHANGED <<campos, i, escrito, canal, conexion, buffer, resultados, cortado>>
    BY <1>4 DEF vars, escritor, lector
  <2>2. Historia'
    BY <1>0, <2>1, HistoriaTras DEF Historia
  <2>3. Corriente'
    <3> SUFFICES ASSUME Leyendo PROVE Corriente'
      BY <2>1 DEF Corriente, Leyendo, Parado
    <3>1. PICK s, q : EnCurso(s, q)
      BY <1>0 DEF Corriente
    <3>2. Flujo(s, q, Len(resultados') + 1, canal', buffer', i', escrito')
      BY <2>1, <3>1 DEF EnCurso
    <3> QED
      BY <2>1, <3>2, CorrienteTras
  <2>4. TypeOK' /\ Escritura'
    BY <1>0, <2>1, Iguales DEF TypeOK, Escritura, Lin
  <2> QED
    BY <1>0, <2>1, <2>2, <2>3, <2>4, Iguales DEF Inv
<1> QED
  BY <1>1, <1>2, <1>3, <1>4

LEMMA InvPaso == Inv /\ [Next]_vars => Inv'
BY EscribirPaso, LeerPaso, LeerCeroPaso, LeerErrorPaso, OtrosPasos DEF Next, Escritor, Lector

LEMMA InvSiempre == Spec => []Inv
BY InicioBien, InvPaso, PTL DEF Spec

\* The buffer of readLine never overflows, and no call returns more than fits in it.
THEOREM MensajesTipo == Spec => []TypeOK
<1>1. Inv => TypeOK
  BY DEF Inv
<1> QED
  BY <1>1, InvSiempre, PTL

\* Whatever the size of the buffer, a text of one-byte characters that fits arrives
\* as it was written.
THEOREM AsciiLlega == Spec => []AsciiEntero
<1>1. Inv => AsciiEntero
  <2> SUFFICES ASSUME Inv, NEW k \in DOMAIN resultados, resultados[k].r > 0, k # cortado,
                      Len(campos[k]) <= n - 1, \A j \in DOMAIN campos[k] : campos[k][j] = 1
               PROVE  resultados[k].texto = Octetos(campos[k])
    BY DEF AsciiEntero
  <2>0. TypeOK /\ CamposOK /\ Historia
    BY DEF Inv
  <2>1. k \in 1..Len(resultados) /\ k \in Nat
    BY SMTT(20), <2>0 DEF TypeOK
  <2>2. k \in 1..Len(campos) /\ resultados[k].texto = SubSeq(Texto(k), 1, Hasta(Len(Texto(k))))
    <3>1. k <= Len(campos) /\ resultados[k].texto = SubSeq(Texto(k), 1, Hasta(Len(Texto(k))))
      BY <2>0, <2>1 DEF Historia
    <3> QED
      BY <2>0, <2>1, <3>1, Tipos
  <2>3. campos[k] \in Seq(Nat)
    BY <2>0, <2>2 DEF CamposOK
  <2>4. Len(Texto(k)) = Len(campos[k]) /\ Texto(k) \in Seq(Byte) /\ Len(campos[k]) \in Nat
    BY <2>3, OctetosBien DEF Texto
  <2>5. Hasta(Len(Texto(k))) = Len(Texto(k))
    BY <2>4, MensajesSupuestos DEF Hasta
  <2>6. SubSeq(Texto(k), 1, Len(Texto(k))) = Texto(k)
    BY <2>4, SubSeqFull
  <2> QED
    BY <2>2, <2>5, <2>6 DEF Texto
<1> QED
  BY <1>1, InvSiempre, PTL
-----------------------------------------------------------------------------
\* The refinement: what the abstract channel has received, its texts, and whether it
\* has ended.
Rec  == [k \in {j \in DOMAIN resultados : resultados[j].r > 0} |-> resultados[k].texto]
Txs  == [k \in DOMAIN campos |-> Octetos(campos[k])]
Fino == Parado \/ cortado # 0

LEMMA AccionesCanal ==
  /\ P!Recibir <=> /\ ~Fino /\ Len(Rec) < Len(Txs)
                   /\ Rec' = Append(Rec, P!Recorte(Txs[Len(Rec) + 1]))
                   /\ Fino' = FALSE
  /\ P!RecibirCortado <=>
       /\ ~Fino /\ Len(Rec) < Len(Txs)
       /\ \E k \in 1..Len(P!Recorte(Txs[Len(Rec) + 1])) :
            Rec' = Append(Rec, SubSeq(Txs[Len(Rec) + 1], 1, k))
       /\ Fino' = TRUE
  /\ P!Terminar <=> ~Fino /\ Fino' = TRUE /\ Rec' = Rec
BY DEF P!Recibir, P!RecibirCortado, P!Terminar, P!Siguiente, Rec, Txs, Fino

LEMMA RecortePorHasta == \A t : P!Recorte(t) = SubSeq(t, 1, IF Len(t) < n - 1 THEN Len(t) ELSE n - 1)
BY DEF P!Recorte

LEMMA TxsBien ==
  ASSUME CamposOK
  PROVE  /\ Len(Txs) = Len(campos)
         /\ \A k \in 1..Len(campos) : Txs[k] = Texto(k)
<1>1. campos \in Seq(Seq(Nat)) /\ DOMAIN campos = 1..Len(campos) /\ Len(campos) \in Nat
  BY DEF CamposOK
<1>2. \A k \in 1..Len(campos) : Txs[k] = Texto(k)
  BY <1>1 DEF Txs, Texto
<1>3. Txs \in Seq(Seq(Byte))
  <2>1. \A k \in 1..Len(campos) : Texto(k) \in Seq(Byte)
    BY LinBien
  <2>2. Txs \in [1..Len(campos) -> Seq(Byte)]
    BY <1>1, <1>2, <2>1 DEF Txs
  <2>3. Len(campos) \in Nat
    BY <1>1
  <2> QED
    BY <2>2, <2>3, SeqDef
<1>4. DOMAIN Txs = 1..Len(campos)
  BY <1>1 DEF Txs
<1> QED
  BY <1>1, <1>2, <1>3, <1>4

LEMMA RecVivo ==
  ASSUME Inv, ~Parado
  PROVE  /\ Rec \in Seq(Seq(Octeto)) /\ Len(Rec) = Len(resultados)
         /\ \A j \in 1..Len(resultados) :
              resultados[j].r > 0 /\ Rec[j] = resultados[j].texto
<1>0. resultados \in Seq(Devuelto) /\ Len(resultados) \in Nat /\ Historia
  BY Tipos DEF Inv, TypeOK, Devuelto
<1>1. \A j \in 1..Len(resultados) : resultados[j].r > 0 /\ resultados[j].texto \in Seq(Octeto)
  <2> SUFFICES ASSUME NEW j \in 1..Len(resultados)
               PROVE  resultados[j].r > 0 /\ resultados[j].texto \in Seq(Octeto)
    OBVIOUS
  <2>1. resultados[j] \in Devuelto
    BY <1>0, ElementOfSeq
  <2>2. resultados[j].r \in Int /\ resultados[j].texto \in Seq(Octeto)
    BY <2>1, DevueltoDevuelto
  <2>3. CASE j < Len(resultados)
    BY <1>0, <2>2, <2>3 DEF Historia
  <2>4. CASE j = Len(resultados)
    <3>1. resultados # <<>>
      BY <1>0, <2>4
    <3> QED
      BY <2>2, <2>4, <3>1 DEF Parado
  <2> QED
    BY <1>0, <2>3, <2>4
<1>2. {j \in DOMAIN resultados : resultados[j].r > 0} = 1..Len(resultados)
  BY <1>0, <1>1
<1>3. Rec \in [1..Len(resultados) -> Seq(Octeto)]
  BY <1>1, <1>2 DEF Rec
<1>4. Rec \in Seq(Seq(Octeto)) /\ Len(Rec) = Len(resultados)
  BY <1>0, <1>3
<1> QED
  BY <1>1, <1>2, <1>4 DEF Rec

\* A call that returns something adds it to what was received, and one that does
\* not adds nothing.
LEMMA RecDevuelto ==
  ASSUME Inv, Inv', ~Parado, NEW r \in -1..(n - 1), NEW c \in BOOLEAN, Devolver(r, c)
  PROVE  /\ r > 0 => Rec' = Append(Rec, buffer) /\ ~Parado'
         /\ ~(r > 0) => Rec' = Rec /\ Parado'
<1>0. /\ Len(resultados) \in Nat /\ n \in Nat /\ n >= 2 /\ buffer \in Seq(Octeto)
      /\ resultados \in Seq(Devuelto)
  BY Tipos DEF Inv, TypeOK, Devuelto
<1>r. r \in Int
  BY <1>0
<1>1. /\ Rec \in Seq(Seq(Octeto)) /\ Len(Rec) = Len(resultados)
      /\ \A j \in 1..Len(resultados) : resultados[j].r > 0 /\ Rec[j] = resultados[j].texto
  BY RecVivo
<1>2. /\ resultados' \in Seq(Devuelto) /\ Len(resultados') = Len(resultados) + 1
      /\ resultados'[Len(resultados) + 1].r = r
      /\ resultados'[Len(resultados) + 1].texto = buffer
      /\ \A j \in 1..Len(resultados) : resultados'[j] = resultados[j]
      /\ Parado' <=> r <= 0
  <2>1. [r |-> r, texto |-> buffer].r = r /\ [r |-> r, texto |-> buffer].texto = buffer
    OBVIOUS
  <2> QED
    BY <2>1, DevolverBien
<1>3. ASSUME r > 0 PROVE Rec' = Append(Rec, buffer) /\ ~Parado'
  <2>1. ~Parado'
    BY <1>2, <1>3, <1>r
  <2>2. /\ Rec' \in Seq(Seq(Octeto)) /\ Len(Rec') = Len(resultados) + 1
        /\ \A j \in 1..Len(resultados') : Rec'[j] = resultados'[j].texto
    <3>1. (Rec \in Seq(Seq(Octeto)) /\ Len(Rec) = Len(resultados)
           /\ \A j \in 1..Len(resultados) :
                resultados[j].r > 0 /\ Rec[j] = resultados[j].texto)'
      BY <2>1, RecVivo, PTL
    <3> QED
      BY <1>2, <3>1
  <2>3. /\ Append(Rec, buffer) \in Seq(Seq(Octeto))
        /\ Len(Append(Rec, buffer)) = Len(resultados) + 1
        /\ \A j \in 1..Len(resultados) : Append(Rec, buffer)[j] = Rec[j]
        /\ Append(Rec, buffer)[Len(resultados) + 1] = buffer
    BY <1>0, <1>1, AppendProperties
  <2>4. \A j \in 1..(Len(resultados) + 1) : Rec'[j] = Append(Rec, buffer)[j]
    <3> SUFFICES ASSUME NEW j \in 1..(Len(resultados) + 1)
                 PROVE  Rec'[j] = Append(Rec, buffer)[j]
      OBVIOUS
    <3>1. j \in 1..Len(resultados) \/ j = Len(resultados) + 1
      BY <1>0
    <3> QED
      BY <1>1, <1>2, <2>2, <2>3, <3>1
  <2>5. Rec' = Append(Rec, buffer)
    BY <2>2, <2>3, <2>4, SeqEqual
  <2> QED
    BY <2>1, <2>5
<1>4. ASSUME ~(r > 0) PROVE Rec' = Rec /\ Parado'
  <2>1. Parado'
    BY <1>2, <1>4, <1>r
  <2>2. {j \in DOMAIN resultados' : resultados'[j].r > 0} = 1..Len(resultados)
    <3>1. DOMAIN resultados' = 1..(Len(resultados) + 1)
      BY <1>2
    <3>2. \A j \in 1..(Len(resultados) + 1) : j \in 1..Len(resultados) \/ j = Len(resultados) + 1
      BY <1>0
    <3>3. \A j \in 1..Len(resultados) : j \in 1..(Len(resultados) + 1) /\ resultados'[j].r > 0
      BY <1>0, <1>1, <1>2
    <3> QED
      BY <1>2, <1>4, <3>1, <3>2, <3>3, <1>0
  <2>3. {j \in DOMAIN resultados : resultados[j].r > 0} = 1..Len(resultados)
    BY <1>0, <1>1
  <2>4. Rec' = Rec
    BY <1>2, <2>2, <2>3 DEF Rec
  <2> QED
    BY <2>1, <2>4
<1> QED
  BY <1>3, <1>4

LEMMA Prefijo ==
  ASSUME NEW t \in Seq(Octeto), NEW h \in 0..Len(t)
  PROVE  Len(SubSeq(t, 1, h)) = h
<1>1. \A j \in 1..h : t[j] \in Octeto
  <2>1. \A j \in 1..h : j \in 1..Len(t)
    OBVIOUS
  <2> QED
    BY <2>1, ElementOfSeq
<1>2. h \in Int /\ 1 \in Int /\ (IF 1 <= h THEN h - 1 + 1 ELSE 0) = h
  OBVIOUS
<1> QED
  BY <1>1, <1>2, SubSeqProperties

PasoCanal == (P!Recibir \/ P!RecibirCortado \/ P!Terminar) /\ UNCHANGED Txs

LEMMA LargoBuffer ==
  ASSUME TypeOK, CamposOK
  PROVE  Len(buffer) \in -1..(n - 1)
<1>1. Len(buffer) \in Nat /\ Len(buffer) < n
  BY Tipos DEF TypeOK
<1>2. PICK l \in Nat : l = Len(buffer) /\ l < n
  BY <1>1
<1>3. l \in -1..(n - 1)
  BY <1>2, MensajesSupuestos
<1> QED
  BY <1>2, <1>3

LEMMA RefinaLeer == Inv /\ Inv' /\ Leer => [PasoCanal]_<<Txs, Rec, Fino>>
<1> SUFFICES ASSUME Inv, Inv', Leer PROVE [PasoCanal]_<<Txs, Rec, Fino>>
  OBVIOUS
<1>0. CamposOK /\ campos' = campos /\ Len(buffer) \in -1..(n - 1) /\ Len(buffer) \in Nat
      /\ Len(campos) \in Nat /\ Len(resultados) \in Nat
  <2>1. campos' = campos
    BY DEF Leer, escritor
  <2>2. Len(buffer) \in -1..(n - 1)
    BY LargoBuffer DEF Inv
  <2> QED
    BY <2>1, <2>2, Tipos DEF Inv
<1>1. Leyendo
  BY LeerBien
<1>2. ~Parado /\ cortado = 0 /\ ~Fino
  BY <1>1 DEF Leyendo, Fino
<1>x. Txs' = Txs
  BY <1>0 DEF Txs
<1>3. PICK s, q, k : LeeByte(s, q, k)
  BY LeerBien
<1>4. CASE UNCHANGED <<resultados, cortado>>
  <2>1. Rec' = Rec /\ Fino' = Fino
    BY <1>4 DEF Rec, Fino, Parado
  <2> QED
    BY <1>x, <2>1
<1>5. CASE /\ k \in 1..Len(campos) /\ k = Len(resultados) + 1
           /\ buffer = SubSeq(Texto(k), 1, Hasta(Len(Texto(k))))
           /\ Devolver(Len(buffer), FALSE)
  <2>1. /\ Len(buffer) > 0 => Rec' = Append(Rec, buffer) /\ ~Parado'
        /\ ~(Len(buffer) > 0) => Rec' = Rec /\ Parado'
    BY <1>0, <1>2, <1>5, RecDevuelto
  <2>2. cortado' = 0
    BY <1>2, <1>5 DEF Devolver
  <2>3. CASE Len(buffer) > 0
    <3>1. Fino' = FALSE
      BY <2>1, <2>2, <2>3 DEF Fino
    <3>2. Len(Rec) + 1 = k /\ Len(Rec) < Len(Txs) /\ Txs[k] = Texto(k)
      BY <1>0, <1>2, <1>5, RecVivo, TxsBien
    <3>3. P!Recorte(Txs[Len(Rec) + 1]) = buffer
      BY <1>5, <3>2, RecortePorHasta DEF Hasta
    <3>4. P!Recibir
      BY <1>2, <2>1, <2>3, <3>1, <3>2, <3>3, AccionesCanal
    <3> QED
      BY <1>x, <3>4 DEF PasoCanal
  <2>4. CASE ~(Len(buffer) > 0)
    <3>1. Fino' = TRUE
      BY <2>1, <2>4 DEF Fino
    <3>2. P!Terminar
      BY <1>2, <2>1, <2>4, <3>1, AccionesCanal
    <3> QED
      BY <1>x, <3>2 DEF PasoCanal
  <2> QED
    BY <2>3, <2>4
<1> QED
  BY <1>3, <1>4, <1>5 DEF LeeByte

LEMMA RefinaCero == Inv /\ Inv' /\ LeerCero => [PasoCanal]_<<Txs, Rec, Fino>>
<1> SUFFICES ASSUME Inv, Inv', LeerCero PROVE [PasoCanal]_<<Txs, Rec, Fino>>
  OBVIOUS
<1>0. /\ CamposOK /\ campos' = campos /\ Historia /\ Corriente
      /\ ~Parado /\ conexion = "cerrada" /\ Devolver(Len(buffer), buffer # <<>>)
  BY DEF Inv, LeerCero, escritor
<1>t. /\ Len(campos) \in Nat /\ Len(resultados) \in Nat /\ n \in Nat /\ n >= 2
      /\ Len(buffer) \in Nat /\ buffer \in Seq(Octeto)
      /\ Len(buffer) \in -1..(n - 1) /\ (Len(buffer) > 0 <=> buffer # <<>>)
  <2>1. Len(campos) \in Nat /\ Len(resultados) \in Nat /\ Len(buffer) \in Nat
    BY Tipos DEF Inv
  <2>5. buffer \in Seq(Octeto)
    BY DEF Inv, TypeOK
  <2>2. n \in Nat /\ n >= 2
    BY MensajesSupuestos
  <2>3. Len(buffer) \in -1..(n - 1)
    BY LargoBuffer DEF Inv
  <2>4. Len(buffer) > 0 <=> buffer # <<>>
    BY <2>5
  <2> QED
    BY <2>1, <2>2, <2>3, <2>4, <2>5
<1>x. Txs' = Txs
  BY <1>0 DEF Txs
<1>c. PICK c \in BOOLEAN : c <=> buffer # <<>>
  OBVIOUS
<1>1. Devolver(Len(buffer), c)
  BY <1>0, <1>c DEF Devolver
<1>2. /\ Len(buffer) > 0 => Rec' = Append(Rec, buffer) /\ ~Parado'
      /\ ~(Len(buffer) > 0) => Rec' = Rec /\ Parado'
  BY <1>0, <1>t, <1>1, RecDevuelto
<1>3. CASE buffer = <<>>
  <2>1. Rec' = Rec /\ Fino' = TRUE
    BY <1>2, <1>3, <1>t DEF Fino
  <2>2. CASE Fino
    <3>1. Fino = TRUE
      BY <2>2 DEF Fino
    <3> QED
      BY <1>x, <2>1, <3>1
  <2>3. CASE ~Fino
    <3>1. P!Terminar
      BY <2>1, <2>3, AccionesCanal
    <3> QED
      BY <1>x, <3>1 DEF PasoCanal
  <2> QED
    BY <2>2, <2>3
<1>4. CASE buffer # <<>>
  <2>1. cortado = 0 /\ ~Fino
    BY <1>0, <1>4 DEF Historia, Fino
  <2>2. PICK s, q : EnCurso(s, q)
    BY <1>0, <2>1 DEF Corriente, Leyendo
  <2>3. PICK k : k = Len(resultados) + 1
    OBVIOUS
  <2>4. /\ q \in Nat /\ k \in 1..(Len(campos) + 1) /\ k # Len(campos) + 1
        /\ k <= Len(campos) => q < Len(Lin(k)) /\ buffer = SubSeq(Texto(k), 1, Hasta(q))
    BY <1>4, <2>2, <2>3 DEF EnCurso, Flujo
  <2>5. k \in 1..Len(campos) /\ q < Len(Lin(k)) /\ buffer = SubSeq(Texto(k), 1, Hasta(q))
    BY <1>t, <2>4
  <2>6. PICK t : t = Texto(k)
    OBVIOUS
  <2>7. t \in Seq(Octeto) /\ Len(t) \in Nat /\ q <= Len(t)
    <3>1. Texto(k) \in Seq(Octeto) /\ Len(Texto(k)) \in Nat /\ Len(Lin(k)) = Len(Texto(k)) + 1
      BY <1>0, <2>5, LinBien
    <3> QED
      BY <2>4, <2>5, <2>6, <3>1
  <2>8. /\ Hasta(q) \in 0..Len(t) /\ Hasta(Len(t)) \in 0..Len(t) /\ Hasta(q) <= Hasta(Len(t))
    BY <1>t, <2>4, <2>7 DEF Hasta
  <2>9. Len(buffer) = Hasta(q) /\ Len(SubSeq(t, 1, Hasta(Len(t)))) = Hasta(Len(t))
    BY <2>5, <2>6, <2>7, <2>8, Prefijo
  <2>10. Len(Rec) + 1 = k /\ Len(Rec) < Len(Txs) /\ Txs[k] = t
    BY <1>0, <1>t, <2>3, <2>5, <2>6, RecVivo, TxsBien
  <2>11. Len(buffer) \in 1..Len(P!Recorte(Txs[Len(Rec) + 1]))
    <3>1. P!Recorte(t) = SubSeq(t, 1, Hasta(Len(t)))
      BY RecortePorHasta DEF Hasta
    <3> QED
      BY <1>t, <1>4, <2>8, <2>9, <2>10, <3>1
  <2>12. Rec' = Append(Rec, SubSeq(Txs[Len(Rec) + 1], 1, Len(buffer)))
    BY <1>2, <1>4, <1>t, <2>5, <2>6, <2>9, <2>10
  <2>13. Fino' = TRUE
    <3>1. cortado' # 0
      BY <1>1, <1>c, <1>4, <1>t DEF Devolver
    <3> QED
      BY <3>1 DEF Fino
  <2>14. P!RecibirCortado
    BY <2>1, <2>10, <2>11, <2>12, <2>13, AccionesCanal
  <2> QED
    BY <1>x, <2>14 DEF PasoCanal
<1> QED
  BY <1>3, <1>4

LEMMA RefinaError == Inv /\ Inv' /\ LeerError => [PasoCanal]_<<Txs, Rec, Fino>>
<1> SUFFICES ASSUME Inv, Inv', LeerError PROVE [PasoCanal]_<<Txs, Rec, Fino>>
  OBVIOUS
<1>0. campos' = campos /\ Historia /\ ~Parado /\ conexion = "rota" /\ Devolver(-1, FALSE)
  BY DEF Inv, LeerError, escritor
<1>1. -1 \in -1..(n - 1) /\ FALSE \in BOOLEAN /\ ~(-1 > 0)
  BY MensajesSupuestos
<1>2. Rec' = Rec /\ Parado'
  BY <1>0, <1>1, RecDevuelto
<1>3. ~Fino /\ Fino' = TRUE
  BY <1>0, <1>2 DEF Historia, Fino
<1>4. P!Terminar
  BY <1>2, <1>3, AccionesCanal
<1>5. Txs' = Txs
  BY <1>0 DEF Txs
<1> QED
  BY <1>4, <1>5 DEF PasoCanal

LEMMA RefinaPaso == Inv /\ Inv' /\ [Next]_vars => [PasoCanal]_<<Txs, Rec, Fino>>
<1> SUFFICES ASSUME UNCHANGED <<campos, resultados, cortado>>
             PROVE  [PasoCanal]_<<Txs, Rec, Fino>>
  BY RefinaLeer, RefinaCero, RefinaError
  DEF Next, Escritor, Lector, Escribir, EscribirFalla, Cerrar, Romper, vars, escritor, lector
<1>1. UNCHANGED <<Txs, Rec, Fino>>
  BY DEF Txs, Rec, Fino, Parado
<1> QED
  BY <1>1

\* Whatever the writes are cut into and wherever the connection ends, the texts are read
\* one by one and in order, each cut to the reader's buffer, and at most the last one is
\* part of what was written: the program's framing implements the abstract channel.
THEOREM CanalCumplido == Spec => ImplementaCanal
<1>1. Init => Rec = <<>> /\ Fino = FALSE
  <2> SUFFICES ASSUME Init PROVE Rec = <<>> /\ Fino = FALSE
    OBVIOUS
  <2>1. resultados = <<>> /\ cortado = 0
    BY DEF Init
  <2>2. {j \in DOMAIN resultados : resultados[j].r > 0} = {}
    BY <2>1
  <2>3. Rec = <<>>
    BY <2>2 DEF Rec
  <2>4. ~Fino
    BY <2>1 DEF Fino, Parado
  <2> QED
    BY <2>3, <2>4 DEF Fino
<1> QED
  BY <1>1, RefinaPaso, InvSiempre, PTL
  DEF Spec, ImplementaCanal, P!CanalSpec, PasoCanal, Rec, Txs, Fino
=============================================================================
