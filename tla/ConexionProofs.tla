---------------------------- MODULE ConexionProofs --------------------------
(***************************************************************************)
(* Proofs about Conexion for any number of connections and descriptors,    *)
(* any operations the clients ask for and whatever they interrupt.         *)
(***************************************************************************)
EXTENDS Conexion, Induccion, SequenceTheorems, FiniteSetTheorems, TLAPS

Viva(c) == hilo[c] \notin {"no", "fin"}

\* Connection c has not been accepted, or its thread has a number and what its
\* client asked for.
Empezadas ==
  \A c \in Conexiones :
    IF hilo[c] = "no"
    THEN /\ enviados[c] = 0 /\ leidos[c] = 0 /\ respuestas[c] = 0
         /\ ~vacio[c] /\ ~a_medias[c] /\ ~cerrada[c]
    ELSE /\ peticion[c] \in Operaciones /\ my_sc[c] \in Descriptores
         /\ leidos[c] <= enviados[c] /\ enviados[c] <= 1 + Campos[peticion[c]]

\* A descriptor in use is the one its connection got, and its thread has not ended.
DescriptorVivo ==
  \A f \in Descriptores, c \in Conexiones :
    descriptor[f] = c => Viva(c) /\ my_sc[c] = f

\* Where a thread is inside the switch and what it has read agree ...
EnPeticion ==
  \A c \in Conexiones :
    /\ hilo[c] \in {"campo", "registrar", "espera", "ejecutar", "responder"} =>
         op[c] \in DOMAIN Campos
    /\ hilo[c] = "campo" => n[c] < Campos[op[c]]
    /\ hilo[c] \in {"registrar", "espera"} => n[c] = CamposParaRegistrar(op[c])
    /\ hilo[c] \in {"ejecutar", "responder"} => n[c] = Campos[op[c]]

\* ... and past the call to the log there is something to show for it.
YaAnotada ==
  \A c \in Conexiones :
    \/ hilo[c] = "campo" /\ n[c] >= CamposParaRegistrar(op[c])
    \/ hilo[c] = "ejecutar"
    => Anotada(Anotacion(c))

MuertoParado == ~vivo => \A c \in Conexiones : ~Viva(c)

General == /\ TypeOK /\ Empezadas /\ DescriptorVivo /\ EnPeticion /\ YaAnotada
           /\ RegistradaAntes /\ MuertoParado
-----------------------------------------------------------------------------
\* From here on, what holds as long as no client cuts its request short.

\* What a request leaves in the log and in the history.
Hecha(c) == [hilo |-> c, op |-> peticion[c], origen |-> {c}]

Todos(c) == 1 + Campos[peticion[c]]

\* A thread has its own descriptor until it ends, and reads its own connection.
SuDescriptor ==
  \A c \in Conexiones :
    /\ Viva(c) => descriptor[my_sc[c]] = c
    /\ hilo[c] # "dejar"
    /\ hilo[c] = "operacion" => leidos[c] \in {0, Todos(c)}
    /\ hilo[c] \in {"campo", "registrar", "espera", "ejecutar", "responder"} =>
         /\ op[c] = peticion[c] /\ origen[c] = {c}
         /\ leidos[c] = 1 + n[c] /\ respuestas[c] = 0
    /\ origen[c] \subseteq {c}

\* What was logged and executed is what was asked, and once.
SoloHechas ==
  \A a \in ejecutadas \cup llamadas \cup sin_registrar
             \cup {impresas[i] : i \in DOMAIN impresas} :
    \E c \in Conexiones : hilo[c] # "no" /\ a = Hecha(c)

Respondidas ==
  \A c \in Conexiones :
    /\ hilo[c] = "responder" => Hecha(c) \in ejecutadas
    /\ respuestas[c] > 0 =>
         respuestas[c] = 1 /\ leidos[c] = Todos(c) /\ Hecha(c) \in ejecutadas

\* The call to the log is made once, and printed once.
SinLlamar(c) ==
  hilo[c] = "registrar" \/ leidos[c] < 1 + CamposParaRegistrar(peticion[c])

LlamadaUnaVez ==
  /\ \A c \in Conexiones : SinLlamar(c) => Hecha(c) \notin llamadas /\ ~Impresa(Hecha(c))
  /\ \A a \in llamadas : ~Impresa(a)

PreviasRespondidas == \A c \in Conexiones : \A d \in previas[c] : respuestas[d] > 0

Ordenada == /\ SuDescriptor /\ SoloHechas /\ Respondidas /\ LlamadaUnaVez
            /\ PreviasRespondidas /\ RegistroFiel /\ CaeSoloPorAbandono

Inv == General /\ (Completas => Ordenada)
-----------------------------------------------------------------------------
LEMMA CamposCotas ==
  /\ \A o \in DOMAIN Campos :
       /\ Campos[o] \in 1..4
       /\ CamposParaRegistrar(o) \in 1..4
       /\ CamposParaRegistrar(o) <= Campos[o]
  /\ "SEND" \in DOMAIN Campos /\ "-1" \notin DOMAIN Campos /\ Ninguna \notin DOMAIN Campos
BY DEF Campos, CamposParaRegistrar, Ninguna

LEMMA OperacionesValidas == Operaciones \subseteq DOMAIN Campos
BY ConexionSupuestos

\* Numbers that are added to.
LEMMA Cuentas ==
  ASSUME TypeOK, NEW c \in Conexiones
  PROVE  /\ enviados[c] \in 0..5 /\ leidos[c] \in 0..5 /\ n[c] \in 0..4
         /\ respuestas[c] \in Nat
BY DEF TypeOK

LEMMA UnoMas ==
  ASSUME NEW S, NEW k \in Nat, NEW f \in [S -> 0..k], NEW d \in S, f[d] < k
  PROVE  [f EXCEPT ![d] = f[d] + 1] \in [S -> 0..k]
<1>1. f[d] \in 0..k
  OBVIOUS
<1>2. f[d] + 1 \in 0..k
  BY <1>1
<1> QED
  BY <1>2

\* accept gives a descriptor that was closed.
LEMMA DescriptorNuevo ==
  ASSUME NEW libres \in SUBSET Descriptores, libres # {}
  PROVE  (CHOOSE x \in libres : \A y \in libres : x <= y) \in libres
<1>1. libres \in SUBSET Nat
  BY ConexionSupuestos
<1>2. \E x \in libres : \A y \in libres : x <= y
  BY <1>1, Minimo
<1> QED
  BY <1>2

\* What accept does, with the descriptor it gives.
LEMMA Aceptada ==
  ASSUME NEW c \in Conexiones, Aceptar(c)
  PROVE  \E f \in Descriptores : \E o \in Operaciones :
           /\ descriptor[f] = Cerrado
           /\ descriptor' = [descriptor EXCEPT ![f] = c]
           /\ my_sc' = [my_sc EXCEPT ![c] = f]
           /\ peticion' = [peticion EXCEPT ![c] = o]
<1> DEFINE libres == {f \in Descriptores : descriptor[f] = Cerrado}
           f == CHOOSE x \in libres : \A y \in libres : x <= y
<1>1. f \in libres
  BY DescriptorNuevo DEF Aceptar
<1>2. descriptor' = [descriptor EXCEPT ![f] = c] /\ my_sc' = [my_sc EXCEPT ![c] = f]
  BY DEF Aceptar
<1>3. PICK o \in Operaciones : peticion' = [peticion EXCEPT ![c] = o]
  BY DEF Aceptar
<1> QED
  BY <1>1, <1>2, <1>3

\* A field is read from a connection whose thread has not ended.
LEMMA Lectura ==
  ASSUME TypeOK, Empezadas, DescriptorVivo,
         NEW c \in Conexiones, NEW d \in Conexiones, Viva(c), HayCampo(c, d)
  PROVE  /\ Viva(d) /\ my_sc[d] = my_sc[c] /\ peticion[d] \in DOMAIN Campos
         /\ leidos[d] \in 0..4 /\ leidos[d] < enviados[d]
         /\ leidos' = [leidos EXCEPT ![d] = leidos[d] + 1]
<1>1. my_sc[c] \in Descriptores /\ descriptor[my_sc[c]] = d
  BY DEF Empezadas, Viva, HayCampo
<1>2. Viva(d) /\ my_sc[d] = my_sc[c]
  BY <1>1 DEF DescriptorVivo
<1>3. peticion[d] \in DOMAIN Campos
  BY <1>2, OperacionesValidas DEF Empezadas, Viva
<1>4. leidos[d] < enviados[d] /\ leidos' = [leidos EXCEPT ![d] = @ + 1]
  BY DEF HayCampo
<1>5. leidos[d] \in 0..5 /\ enviados[d] \in 0..5
  BY DEF TypeOK
<1> QED
  BY <1>2, <1>3, <1>4, <1>5

LEMMA LeeUnCero ==
  ASSUME TypeOK, Empezadas, DescriptorVivo, NEW c \in Conexiones, Viva(c),
         LeeCero(c) \/ LeeError(c)
  PROVE  \/ UNCHANGED leidos
         \/ \E d \in Conexiones :
              /\ vacio[d] /\ leidos[d] \in 0..4 /\ leidos[d] < enviados[d] /\ Viva(d)
              /\ leidos' = [leidos EXCEPT ![d] = leidos[d] + 1]
<1>1. CASE LeeError(c)
  BY <1>1 DEF LeeError
<1>2. CASE LeeCero(c)
  <2>1. PICK d \in Conexiones :
          /\ descriptor[my_sc[c]] = d
          /\ \/ leidos[d] < enviados[d] /\ EsVacio(d) /\ leidos' = [leidos EXCEPT ![d] = @ + 1]
             \/ UNCHANGED leidos
    BY <1>2 DEF LeeCero
  <2>2. leidos[d] \in 0..5 /\ enviados[d] \in 0..5
    BY DEF TypeOK
  <2>3. Viva(d)
    BY <2>1 DEF Empezadas, Viva, DescriptorVivo
  <2> QED
    BY <2>1, <2>2, <2>3 DEF EsVacio
<1> QED
  BY <1>1, <1>2

LEMMA LeidosTipo ==
  ASSUME TypeOK, Empezadas, DescriptorVivo, NEW c \in Conexiones, Viva(c),
         (\E d \in Conexiones : HayCampo(c, d)) \/ LeeCero(c) \/ LeeError(c)
  PROVE  leidos' \in [Conexiones -> 0..5]
<1>1. leidos \in [Conexiones -> 0..5]
  BY DEF TypeOK
<1>2. \/ UNCHANGED leidos
      \/ \E d \in Conexiones :
           leidos[d] \in 0..4 /\ leidos' = [leidos EXCEPT ![d] = leidos[d] + 1]
  BY Lectura, LeeUnCero
<1>3. ASSUME NEW d \in Conexiones, leidos[d] \in 0..4 PROVE leidos[d] < 5
  BY <1>3
<1> QED
  BY <1>1, <1>2, <1>3, UnoMas

\* What the field at the top of the loop may be taken for.
LEMMA OperacionLeida ==
  ASSUME TypeOK, Empezadas, DescriptorVivo, NEW c \in Conexiones, NEW d \in Conexiones,
         Viva(c), HayCampo(c, d), NEW o \in OpAInt(d), Reconocida(o)
  PROVE  /\ o \in DOMAIN Campos /\ leidos[d] = 0
         /\ ~a_medias[d] => o = peticion[d]
BY Lectura, CamposCotas DEF OpAInt, Reconocida

LEMMA TipoPaso == General /\ [Next]_vars => TypeOK'
<1> SUFFICES ASSUME General, [Next]_vars PROVE TypeOK'
  OBVIOUS
<1>0. TypeOK /\ Empezadas /\ DescriptorVivo /\ EnPeticion
  BY DEF General
<1>1. CASE UNCHANGED vars
  BY <1>0, <1>1 DEF TypeOK, vars, cliente, memoria, registro, historia
<1>2. ASSUME NEW c \in Conexiones, Aceptar(c) PROVE TypeOK'
  <2>1. PICK f \in Descriptores, o \in Operaciones :
           /\ descriptor[f] = Cerrado
           /\ descriptor' = [descriptor EXCEPT ![f] = c]
           /\ my_sc' = [my_sc EXCEPT ![c] = f]
           /\ peticion' = [peticion EXCEPT ![c] = o]
    BY <1>2, Aceptada
  <2>2. /\ vacio' \in [Conexiones -> BOOLEAN]
        /\ previas' \in [Conexiones -> SUBSET Conexiones]
    BY <1>0, <1>2 DEF TypeOK, Aceptar
  <2>3. /\ descriptor' \in [Descriptores -> Conexiones \cup {Cerrado}]
        /\ peticion' \in [Conexiones -> Operaciones \cup {Ninguna}]
        /\ my_sc' \in [Conexiones -> Descriptores \cup {0}]
    BY <1>0, <2>1 DEF TypeOK
  <2>4. /\ hilo' = [hilo EXCEPT ![c] = "operacion"]
        /\ UNCHANGED <<enviados, cerrada, a_medias, leidos, respuestas, op, n, origen, vivo,
                       registro, ejecutadas>>
    BY <1>2 DEF Aceptar
  <2> QED
    BY <1>0, <2>2, <2>3, <2>4 DEF TypeOK, registro
<1>3. ASSUME NEW c \in Conexiones, ClienteEnvia(c) PROVE TypeOK'
  <2>1. peticion[c] \in DOMAIN Campos
    BY <1>0, <1>3, OperacionesValidas DEF Empezadas, ClienteEnvia
  <2>2. enviados[c] < 5
    <3>1. Campos[peticion[c]] \in 1..4 /\ enviados[c] < 1 + Campos[peticion[c]]
      BY <1>3, <2>1, CamposCotas DEF ClienteEnvia
    <3> QED
      BY <1>0, <3>1, Cuentas
  <2>3. enviados' \in [Conexiones -> 0..5]
    BY <1>0, <1>3, <2>2, UnoMas DEF ClienteEnvia, TypeOK
  <2> QED
    BY <1>0, <1>3, <2>3 DEF TypeOK, ClienteEnvia, memoria, registro, historia
<1>4. ASSUME NEW c \in Conexiones, ClienteCierra(c) PROVE TypeOK'
  <2>1. peticion[c] \in DOMAIN Campos
    BY <1>0, <1>4, OperacionesValidas DEF Empezadas, ClienteCierra
  <2>2. enviados[c] < 1 + Campos[peticion[c]] => enviados[c] < 5
    <3>1. Campos[peticion[c]] \in 1..4
      BY <2>1, CamposCotas
    <3> QED
      BY <1>0, <3>1, Cuentas
  <2>3. enviados' \in [Conexiones -> 0..5] /\ a_medias' \in [Conexiones -> BOOLEAN]
    <3>1. /\ enviados \in [Conexiones -> 0..5] /\ a_medias \in [Conexiones -> BOOLEAN]
          /\ 5 \in Nat
      BY <1>0 DEF TypeOK
    <3>2. enviados[c] < 5 => [enviados EXCEPT ![c] = enviados[c] + 1] \in [Conexiones -> 0..5]
      BY <3>1, UnoMas
    <3>3. \/ UNCHANGED <<enviados, a_medias>>
          \/ /\ enviados[c] < 5
             /\ enviados' = [enviados EXCEPT ![c] = enviados[c] + 1]
             /\ a_medias' = [a_medias EXCEPT ![c] = TRUE]
      BY <1>4, <2>2 DEF ClienteCierra
    <3> QED
      BY <3>1, <3>2, <3>3
  <2> QED
    BY <1>0, <1>4, <2>3 DEF TypeOK, ClienteCierra, memoria, registro, historia
<1>5. ASSUME NEW c \in Conexiones, LeerOperacion(c) PROVE TypeOK'
  <2>1. Viva(c)
    BY <1>5 DEF LeerOperacion, Viva
  <2>2. ASSUME NEW d \in Conexiones, HayCampo(c, d) PROVE leidos' \in [Conexiones -> 0..5]
    BY <1>0, <2>1, <2>2, LeidosTipo
  <2>3. ASSUME LeeCero(c) \/ LeeError(c) PROVE leidos' \in [Conexiones -> 0..5]
    BY <1>0, <2>1, <2>3, LeidosTipo
  <2>4. ASSUME NEW d \in Conexiones, NEW o \in OpAInt(d), Reconocida(o), HayCampo(c, d),
               op' = [op EXCEPT ![c] = o], n' = [n EXCEPT ![c] = 0],
               origen' = [origen EXCEPT ![c] = {d}], hilo' = [hilo EXCEPT ![c] = "campo"]
        PROVE  TypeOK'
    <3>1. o \in DOMAIN Campos
      BY <1>0, <2>1, <2>4, OperacionLeida
    <3> QED
      BY <1>0, <1>5, <2>2, <2>4, <3>1 DEF TypeOK, LeerOperacion, cliente, registro, historia
  <2>5. ASSUME \/ \E d \in Conexiones : HayCampo(c, d)
               \/ LeeCero(c) \/ LeeError(c),
               hilo' = [hilo EXCEPT ![c] = "terminar"], UNCHANGED <<op, n, origen>>
        PROVE  TypeOK'
    BY <1>0, <1>5, <2>2, <2>3, <2>5 DEF TypeOK, LeerOperacion, cliente, registro, historia
  <2> QED
    BY <1>5, <2>4, <2>5 DEF LeerOperacion
<1>6. ASSUME NEW c \in Conexiones, LeerCampo(c) PROVE TypeOK'
  <2>1. Viva(c) /\ hilo[c] = "campo" /\ op[c] \in DOMAIN Campos /\ n[c] < Campos[op[c]]
    BY <1>0, <1>6 DEF LeerCampo, Viva, EnPeticion
  <2>2. ASSUME NEW d \in Conexiones, HayCampo(c, d),
               n' = [n EXCEPT ![c] = @ + 1], origen' = [origen EXCEPT ![c] = @ \cup {d}],
               hilo' = [hilo EXCEPT ![c] = TrasCampo(op[c], n'[c])]
        PROVE  TypeOK'
    <3>1. leidos' \in [Conexiones -> 0..5]
      BY <1>0, <2>1, <2>2, LeidosTipo
    <3>2. n' \in [Conexiones -> 0..4]
      <4>1. n[c] < 4
        BY <1>0, <2>1, CamposCotas, Cuentas
      <4> QED
        BY <1>0, <2>2, <4>1, UnoMas DEF TypeOK
    <3>3. hilo' \in [Conexiones -> {"no", "operacion", "campo", "registrar", "espera",
                              "ejecutar", "responder", "dejar", "terminar", "fin"}]
      BY <1>0, <2>2 DEF TypeOK, TrasCampo
    <3> QED
      BY <1>0, <1>6, <2>2, <3>1, <3>2, <3>3 DEF TypeOK, LeerCampo, cliente, registro, historia
  <2>3. ASSUME LeeCero(c) \/ LeeError(c), hilo' = [hilo EXCEPT ![c] = "dejar"],
               UNCHANGED <<n, origen>>
        PROVE  TypeOK'
    <3>1. leidos' \in [Conexiones -> 0..5]
      BY <1>0, <2>1, <2>3, LeidosTipo
    <3> QED
      BY <1>0, <1>6, <2>3, <3>1 DEF TypeOK, LeerCampo, cliente, registro, historia
  <2> QED
    BY <1>6, <2>2, <2>3 DEF LeerCampo
<1>a. ASSUME NEW c \in Conexiones, hilo[c] \in {"registrar", "espera", "ejecutar"}
      PROVE  Anotacion(c) \in Nota
  BY <1>0, <1>a DEF TypeOK, EnPeticion, Anotacion, Nota
<1>7. ASSUME NEW c \in Conexiones, RegistrarOperacion(c) PROVE TypeOK'
  BY ZenonT(40), <1>0, <1>7, <1>a DEF TypeOK, RegistrarOperacion, TrasRegistrar, cliente, memoria, historia
<1>8. ASSUME NEW c \in Conexiones, VolverDelRegistro(c) PROVE TypeOK'
  BY <1>0, <1>8, <1>a DEF TypeOK, VolverDelRegistro, TrasRegistrar, cliente, memoria, historia
<1>9. ASSUME NEW c \in Conexiones, Ejecutar(c) PROVE TypeOK'
  BY <1>0, <1>9, <1>a DEF TypeOK, Ejecutar, cliente, memoria, registro
<1>10. ASSUME NEW c \in Conexiones, NEW sigue \in {"operacion"}, ResponderBien(c, sigue) PROVE TypeOK'
  <2>1. respuestas' \in [Conexiones -> Nat]
    <3>1. respuestas \in [Conexiones -> Nat] /\ \A d \in Conexiones : respuestas[d] + 1 \in Nat
      BY <1>0, Cuentas DEF TypeOK
    <3>2. \/ respuestas' = respuestas
          \/ \E d \in Conexiones : respuestas' = [respuestas EXCEPT ![d] = @ + 1]
      BY <1>0, <1>10 DEF ResponderBien, TypeOK, Empezadas
    <3> QED
      BY <3>1, <3>2
  <2> QED
    BY <1>0, <1>10, <2>1 DEF TypeOK, ResponderBien, cliente, memoria, registro, historia
<1>11. ASSUME NEW c \in Conexiones, Sigpipe(c) PROVE TypeOK'
  BY <1>0, <1>11 DEF TypeOK, Sigpipe, cliente, memoria, registro, historia
<1>12. ASSUME NEW c \in Conexiones, DejarSwitch(c) \/ Terminar(c) PROVE TypeOK'
  BY <1>0, <1>12 DEF TypeOK, DejarSwitch, Terminar, Cerrar, cliente, memoria, registro, historia
<1>13. ASSUME NEW a \in llamadas, Atender(a) PROVE TypeOK'
  <2>1. a \in Nota /\ impresas' \in Seq(Nota)
    BY <1>0, <1>13, AppendProperties DEF TypeOK, Atender, Imprimir
  <2> QED
    BY <1>0, <1>13, <2>1 DEF TypeOK, Atender, cliente, memoria, historia
<1> QED
  BY <1>1, <1>2, <1>3, <1>4, <1>5, <1>6, <1>7, <1>8, <1>9, <1>10, <1>11, <1>12, <1>13
  DEF Next, Hilo, Responder
-----------------------------------------------------------------------------
\* A step of a thread that reads: from whom, and where it goes on.
LEMMA PasoLectura ==
  ASSUME General, NEW c \in Conexiones, LeerOperacion(c) \/ LeerCampo(c)
  PROVE  /\ Viva(c)
         /\ \E s \in {"campo", "terminar", "registrar", "ejecutar", "dejar"} :
              hilo' = [hilo EXCEPT ![c] = s]
         /\ UNCHANGED <<descriptor, cliente, respuestas, my_sc, vivo, registro, historia>>
         /\ \/ UNCHANGED leidos
            \/ \E d \in Conexiones :
                 /\ Viva(d) /\ leidos[d] < enviados[d]
                 /\ leidos' = [leidos EXCEPT ![d] = leidos[d] + 1]
<1>0. TypeOK /\ Empezadas /\ DescriptorVivo
  BY DEF General
<1>1. Viva(c)
  BY DEF LeerOperacion, LeerCampo, Viva
<1>2. /\ (\E d \in Conexiones : HayCampo(c, d)) \/ LeeCero(c) \/ LeeError(c)
      /\ \E s \in {"campo", "terminar", "registrar", "ejecutar", "dejar"} :
           hilo' = [hilo EXCEPT ![c] = s]
      /\ UNCHANGED <<descriptor, cliente, respuestas, my_sc, vivo, registro, historia>>
  BY DEF LeerOperacion, LeerCampo, TrasCampo
<1> QED
  BY <1>0, <1>1, <1>2, Lectura, LeeUnCero

\* What the other steps of a thread do to it, but for what they are about.
LEMMA PasoRegistro ==
  ASSUME NEW c \in Conexiones, RegistrarOperacion(c) \/ VolverDelRegistro(c) \/ Ejecutar(c)
  PROVE  /\ Viva(c)
         /\ \E s \in {"espera", "campo", "ejecutar", "responder"} :
              hilo' = [hilo EXCEPT ![c] = s]
         /\ UNCHANGED <<descriptor, cliente, leidos, respuestas, memoria, vivo, impresas, previas>>
BY DEF RegistrarOperacion, VolverDelRegistro, TrasRegistrar, Ejecutar, Viva, registro, historia

LEMMA EmpezadasPaso == General /\ [Next]_vars => Empezadas'
<1> SUFFICES ASSUME General, [Next]_vars PROVE Empezadas'
  OBVIOUS
<1>0. TypeOK /\ Empezadas /\ DescriptorVivo
  BY DEF General
<1>1. CASE UNCHANGED vars
  BY <1>0, <1>1 DEF Empezadas, vars, cliente, memoria
<1>2. ASSUME NEW c \in Conexiones, Aceptar(c) PROVE Empezadas'
  <2>1. PICK f \in Descriptores, o \in Operaciones :
           /\ descriptor[f] = Cerrado
           /\ descriptor' = [descriptor EXCEPT ![f] = c]
           /\ my_sc' = [my_sc EXCEPT ![c] = f]
           /\ peticion' = [peticion EXCEPT ![c] = o]
    BY <1>2, Aceptada
  <2>2. /\ hilo[c] = "no" /\ hilo' = [hilo EXCEPT ![c] = "operacion"]
        /\ UNCHANGED <<enviados, cerrada, a_medias, leidos, respuestas>>
        /\ \E v \in BOOLEAN : vacio' = [vacio EXCEPT ![c] = v]
    BY <1>2 DEF Aceptar
  <2>3. 1 + Campos[o] >= 0
    BY OperacionesValidas, CamposCotas
  <2>4. ASSUME NEW d \in Conexiones \ {c}
        PROVE  /\ hilo'[d] = hilo[d] /\ my_sc'[d] = my_sc[d] /\ peticion'[d] = peticion[d]
               /\ vacio'[d] = vacio[d]
    BY <1>0, <2>1, <2>2, <2>4 DEF TypeOK
  <2>5. /\ hilo'[c] = "operacion" /\ my_sc'[c] = f /\ peticion'[c] = o
        /\ leidos[c] = 0 /\ enviados[c] = 0
    BY <1>0, <2>1, <2>2 DEF TypeOK, Empezadas
  <2> QED
    BY <1>0, <2>2, <2>3, <2>4, <2>5 DEF Empezadas
<1>3. ASSUME NEW c \in Conexiones, ClienteEnvia(c) PROVE Empezadas'
  <2>1. Campos[peticion[c]] \in 1..4 /\ enviados[c] \in 0..5 /\ leidos[c] \in 0..5
    BY <1>0, <1>3, OperacionesValidas, CamposCotas, Cuentas DEF Empezadas, ClienteEnvia
  <2> QED
    BY <1>0, <1>3, <2>1 DEF TypeOK, Empezadas, ClienteEnvia, memoria
<1>4. ASSUME NEW c \in Conexiones, ClienteCierra(c) PROVE Empezadas'
  <2>1. Campos[peticion[c]] \in 1..4 /\ enviados[c] \in 0..5 /\ leidos[c] \in 0..5
    BY <1>0, <1>4, OperacionesValidas, CamposCotas, Cuentas DEF Empezadas, ClienteCierra
  <2>2. /\ hilo[c] # "no"
        /\ UNCHANGED <<peticion, vacio, leidos, respuestas, hilo, my_sc>>
        /\ cerrada' = [cerrada EXCEPT ![c] = TRUE]
        /\ \/ UNCHANGED <<enviados, a_medias>>
           \/ /\ enviados[c] < 1 + Campos[peticion[c]]
              /\ enviados' = [enviados EXCEPT ![c] = @ + 1]
              /\ a_medias' = [a_medias EXCEPT ![c] = TRUE]
    BY <1>4 DEF ClienteCierra, memoria
  <2> QED
    BY <1>0, <2>1, <2>2 DEF TypeOK, Empezadas
<1>5. ASSUME NEW c \in Conexiones, LeerOperacion(c) \/ LeerCampo(c) PROVE Empezadas'
  <2>1. /\ hilo[c] # "no"
        /\ \E s \in {"campo", "terminar", "registrar", "ejecutar", "dejar"} :
              hilo' = [hilo EXCEPT ![c] = s]
        /\ UNCHANGED <<cliente, respuestas, my_sc>>
        /\ \/ UNCHANGED leidos
           \/ \E d \in Conexiones :
                 /\ hilo[d] # "no" /\ leidos[d] < enviados[d]
                 /\ leidos' = [leidos EXCEPT ![d] = leidos[d] + 1]
    BY <1>5, PasoLectura DEF Viva
  <2>2. \A d \in Conexiones : leidos[d] \in 0..5 /\ enviados[d] \in 0..5
    BY <1>0, Cuentas
  <2>3. \A d \in Conexiones : hilo'[d] = "no" <=> hilo[d] = "no"
    BY <1>0, <2>1 DEF TypeOK
  <2>4. ASSUME NEW d \in Conexiones
        PROVE  IF hilo[d] = "no" THEN leidos'[d] = 0 ELSE leidos'[d] <= enviados[d]
    <3>1. CASE UNCHANGED leidos
      BY <1>0, <3>1 DEF Empezadas
    <3>2. ASSUME NEW x \in Conexiones, hilo[x] # "no", leidos[x] < enviados[x],
                 leidos' = [leidos EXCEPT ![x] = leidos[x] + 1]
          PROVE  IF hilo[d] = "no" THEN leidos'[d] = 0 ELSE leidos'[d] <= enviados[d]
      <4>1. leidos'[d] = IF d = x THEN leidos[x] + 1 ELSE leidos[d]
        BY <1>0, <3>2 DEF TypeOK
      <4>2. CASE d = x
        BY <2>2, <3>2, <4>1, <4>2
      <4>3. CASE d # x
        BY <1>0, <4>1, <4>3 DEF Empezadas
      <4> QED
        BY <4>2, <4>3
    <3> QED
      BY <2>1, <3>1, <3>2
  <2> QED
    BY <1>0, <2>1, <2>3, <2>4 DEF Empezadas, cliente
<1>6. ASSUME NEW c \in Conexiones, RegistrarOperacion(c) \/ VolverDelRegistro(c) \/ Ejecutar(c)
      PROVE  Empezadas'
  <2>1. /\ Viva(c)
        /\ \E s \in {"espera", "campo", "ejecutar", "responder"} :
             hilo' = [hilo EXCEPT ![c] = s]
        /\ UNCHANGED <<descriptor, cliente, leidos, respuestas, memoria>>
    BY <1>6, PasoRegistro
  <2> QED
    BY <1>0, <2>1 DEF TypeOK, Empezadas, Viva, cliente, memoria
<1>7. ASSUME NEW c \in Conexiones, ResponderBien(c, "operacion") PROVE Empezadas'
  <2>1. /\ hilo[c] = "responder" /\ hilo' = [hilo EXCEPT ![c] = "operacion"]
        /\ UNCHANGED <<cliente, leidos, memoria>>
    BY <1>7 DEF ResponderBien
  <2>2. \/ respuestas' = respuestas
        \/ \E d \in Conexiones :
             hilo[d] # "no" /\ respuestas' = [respuestas EXCEPT ![d] = @ + 1]
    <3>1. my_sc[c] \in Descriptores
      BY <1>0, <2>1 DEF Empezadas
    <3>2. descriptor[my_sc[c]] # Cerrado =>
            descriptor[my_sc[c]] \in Conexiones /\ hilo[descriptor[my_sc[c]]] # "no"
      BY <1>0, <3>1 DEF TypeOK, DescriptorVivo, Viva
    <3> QED
      BY <1>7, <3>2 DEF ResponderBien
  <2> QED
    BY <1>0, <2>1, <2>2 DEF TypeOK, Empezadas, cliente, memoria
<1>8. ASSUME NEW c \in Conexiones, Sigpipe(c) \/ DejarSwitch(c) \/ Terminar(c)
      PROVE  Empezadas'
  <2>1. /\ \A d \in Conexiones : hilo'[d] = "no" <=> hilo[d] = "no"
        /\ UNCHANGED <<cliente, leidos, respuestas, memoria>>
    BY <1>0, <1>8 DEF TypeOK, Sigpipe, DejarSwitch, Terminar, Cerrar
  <2> QED
    BY <1>0, <2>1 DEF Empezadas, cliente, memoria
<1>9. ASSUME NEW a, Atender(a) PROVE Empezadas'
  BY <1>0, <1>9 DEF Empezadas, Atender, cliente, memoria
<1> QED
  BY <1>1, <1>2, <1>3, <1>4, <1>5, <1>6, <1>7, <1>8, <1>9 DEF Next, Hilo, Responder

LEMMA DescriptorPaso == General /\ [Next]_vars => DescriptorVivo' /\ MuertoParado'
<1> SUFFICES ASSUME General, [Next]_vars PROVE DescriptorVivo' /\ MuertoParado'
  OBVIOUS
<1>0. TypeOK /\ Empezadas /\ DescriptorVivo /\ MuertoParado /\ Cerrado \notin Conexiones
  BY ConexionSupuestos DEF General
<1>1. CASE UNCHANGED <<descriptor, hilo, my_sc, vivo>>
  BY <1>0, <1>1 DEF DescriptorVivo, MuertoParado, Viva
<1>2. ASSUME NEW c \in Conexiones, Aceptar(c) PROVE DescriptorVivo' /\ MuertoParado'
  <2>1. PICK f \in Descriptores, o \in Operaciones :
           /\ descriptor[f] = Cerrado
           /\ descriptor' = [descriptor EXCEPT ![f] = c]
           /\ my_sc' = [my_sc EXCEPT ![c] = f]
           /\ peticion' = [peticion EXCEPT ![c] = o]
    BY <1>2, Aceptada
  <2>2. hilo[c] = "no" /\ hilo' = [hilo EXCEPT ![c] = "operacion"] /\ vivo /\ vivo' = vivo
    BY <1>2 DEF Aceptar
  <2>3. ASSUME NEW g \in Descriptores, NEW d \in Conexiones, descriptor'[g] = d
        PROVE  Viva(d)' /\ my_sc'[d] = g
    <3>1. CASE g = f
      BY <1>0, <2>1, <2>2, <2>3, <3>1 DEF TypeOK, Viva
    <3>2. CASE g # f
      <4>1. descriptor[g] = d
        BY <1>0, <2>1, <2>3, <3>2 DEF TypeOK
      <4>2. Viva(d) /\ my_sc[d] = g /\ d # c
        BY <1>0, <2>2, <4>1 DEF DescriptorVivo, Viva
      <4> QED
        BY <1>0, <2>1, <2>2, <4>2 DEF TypeOK, Viva
    <3> QED
      BY <3>1, <3>2
  <2> QED
    BY <2>2, <2>3 DEF DescriptorVivo, MuertoParado
<1>3. ASSUME NEW c \in Conexiones, Viva(c), UNCHANGED <<descriptor, my_sc, vivo>>,
             NEW s \in {"operacion", "campo", "registrar", "espera", "ejecutar",
                              "responder", "dejar", "terminar"},
             hilo' = [hilo EXCEPT ![c] = s]
      PROVE  DescriptorVivo' /\ MuertoParado'
  <2>1. \A d \in Conexiones : Viva(d)' <=> Viva(d)
    BY <1>0, <1>3 DEF TypeOK, Viva
  <2> QED
    BY <1>0, <1>3, <2>1 DEF DescriptorVivo, MuertoParado
<1>4. ASSUME NEW c \in Conexiones, Sigpipe(c) PROVE DescriptorVivo' /\ MuertoParado'
  BY <1>0, <1>4 DEF Sigpipe, DescriptorVivo, MuertoParado, Viva
<1>5. ASSUME NEW c \in Conexiones, DejarSwitch(c) \/ Terminar(c)
      PROVE  DescriptorVivo' /\ MuertoParado'
  <2>1. /\ Viva(c) /\ descriptor' = [descriptor EXCEPT ![my_sc[c]] = Cerrado]
        /\ UNCHANGED <<my_sc, vivo>>
        /\ \E s \in {"operacion", "fin"} : hilo' = [hilo EXCEPT ![c] = s]
    BY <1>5 DEF DejarSwitch, Terminar, Cerrar, Viva, memoria
  <2>2. ASSUME NEW g \in Descriptores, NEW d \in Conexiones, descriptor'[g] = d
        PROVE  Viva(d)' /\ my_sc'[d] = g
    <3>1. descriptor[g] = d /\ g # my_sc[c]
      BY <1>0, <2>1, <2>2 DEF TypeOK
    <3>2. Viva(d) /\ my_sc[d] = g /\ d # c
      BY <1>0, <3>1 DEF DescriptorVivo
    <3> QED
      BY <1>0, <2>1, <3>2 DEF TypeOK, Viva
  <2>3. MuertoParado'
    BY <1>0, <2>1 DEF MuertoParado
  <2> QED
    BY <2>2, <2>3 DEF DescriptorVivo
<1>6. ASSUME NEW c \in Conexiones, LeerOperacion(c) \/ LeerCampo(c)
      PROVE  DescriptorVivo' /\ MuertoParado'
  BY <1>3, <1>6, PasoLectura
<1>7. ASSUME NEW c \in Conexiones, RegistrarOperacion(c) \/ VolverDelRegistro(c) \/ Ejecutar(c)
      PROVE  DescriptorVivo' /\ MuertoParado'
  BY <1>3, <1>7, PasoRegistro DEF memoria
<1>8. ASSUME NEW c \in Conexiones, ResponderBien(c, "operacion")
      PROVE  DescriptorVivo' /\ MuertoParado'
  BY <1>3, <1>8 DEF ResponderBien, memoria, Viva
<1>9. ASSUME NEW c \in Conexiones, ClienteEnvia(c) \/ ClienteCierra(c)
      PROVE  DescriptorVivo' /\ MuertoParado'
  BY <1>1, <1>9 DEF ClienteEnvia, ClienteCierra, memoria
<1>10. ASSUME NEW a, Atender(a) PROVE DescriptorVivo' /\ MuertoParado'
  BY <1>1, <1>10 DEF Atender, memoria
<1>11. CASE UNCHANGED vars
  BY <1>1, <1>11 DEF vars, memoria
<1> QED
  BY <1>2, <1>4, <1>5, <1>6, <1>7, <1>8, <1>9, <1>10, <1>11 DEF Next, Hilo, Responder

\* The log only grows.
LEMMA AnotadaSigue ==
  ASSUME NEW e, sin_registrar \subseteq sin_registrar',
         \A i \in DOMAIN impresas : \E j \in DOMAIN impresas' : impresas'[j] = impresas[i]
  PROVE  Anotada(e) => Anotada(e)'
BY DEF Anotada

LEMMA RegistroCrece ==
  ASSUME General, [Next]_vars
  PROVE  /\ sin_registrar \subseteq sin_registrar'
         /\ \A i \in DOMAIN impresas : \E j \in DOMAIN impresas' : impresas'[j] = impresas[i]
<1>1. CASE UNCHANGED impresas
  <2>1. sin_registrar \subseteq sin_registrar'
    BY DEF Next, Hilo, Aceptar, ClienteEnvia, ClienteCierra, LeerOperacion, LeerCampo,
           RegistrarOperacion, VolverDelRegistro, Ejecutar, Responder, ResponderBien, Sigpipe,
           DejarSwitch, Terminar, Cerrar, Atender, vars, registro
  <2> QED
    BY <1>1, <2>1
<1>2. ASSUME NEW a \in llamadas, Atender(a)
      PROVE  /\ sin_registrar' = sin_registrar
             /\ \A i \in DOMAIN impresas : \E j \in DOMAIN impresas' : impresas'[j] = impresas[i]
  <2>1. impresas \in Seq(Nota) /\ a \in Nota
    BY <1>2 DEF General, TypeOK
  <2>2. impresas' = Append(impresas, a) /\ sin_registrar' = sin_registrar
    BY <1>2 DEF Atender, Imprimir
  <2>3. /\ Len(impresas') = Len(impresas) + 1 /\ Len(impresas) \in Nat
        /\ impresas' \in Seq(Nota)
        /\ DOMAIN impresas = 1..Len(impresas) /\ DOMAIN impresas' = 1..Len(impresas')
        /\ \A i \in 1..Len(impresas) : impresas'[i] = impresas[i]
    BY <2>1, <2>2, AppendProperties, LenProperties
  <2> QED
    BY <2>2, <2>3
<1> QED
  BY <1>1, <1>2
  DEF Next, Hilo, Aceptar, ClienteEnvia, ClienteCierra, LeerOperacion, LeerCampo,
      RegistrarOperacion, VolverDelRegistro, Ejecutar, Responder, ResponderBien, Sigpipe,
      DejarSwitch, Terminar, Cerrar, vars, registro

\* Where the steps of a thread leave it.
LEMMA TrasCampoBien ==
  ASSUME NEW o \in DOMAIN Campos, NEW k \in Nat, k < Campos[o]
  PROVE  LET s == TrasCampo(o, k + 1) IN
         /\ s \in {"campo", "registrar", "ejecutar"}
         /\ s = "campo" => k + 1 < Campos[o] /\ k + 1 # CamposParaRegistrar(o)
         /\ s = "registrar" => k + 1 = CamposParaRegistrar(o)
         /\ s = "ejecutar" => k + 1 = Campos[o] /\ k + 1 # CamposParaRegistrar(o)
<1>1. Campos[o] \in 1..4
  BY CamposCotas
<1> QED
  BY <1>1 DEF TrasCampo

LEMMA SuPeticion ==
  ASSUME TypeOK, EnPeticion, NEW c \in Conexiones,
         hilo[c] \in {"campo", "registrar", "espera", "ejecutar", "responder"}
  PROVE  /\ op[c] \in DOMAIN Campos /\ n[c] \in 0..4
         /\ Campos[op[c]] \in 1..4 /\ CamposParaRegistrar(op[c]) \in 1..4
         /\ CamposParaRegistrar(op[c]) <= Campos[op[c]]
<1>1. op[c] \in DOMAIN Campos
  BY DEF EnPeticion
<1> QED
  BY <1>1, CamposCotas, Cuentas

\* The three parts of General about requests, for a thread that a step leaves alone
\* and for one that it moves.
Bien(c) ==
  /\ hilo[c] \in {"campo", "registrar", "espera", "ejecutar", "responder"} =>
       op[c] \in DOMAIN Campos
  /\ hilo[c] = "campo" => n[c] < Campos[op[c]]
  /\ hilo[c] \in {"registrar", "espera"} => n[c] = CamposParaRegistrar(op[c])
  /\ hilo[c] \in {"ejecutar", "responder"} => n[c] = Campos[op[c]]
  /\ (hilo[c] = "campo" /\ n[c] >= CamposParaRegistrar(op[c])) \/ hilo[c] = "ejecutar" =>
       Anotada(Anotacion(c))

LEMMA BienEsGeneral ==
  /\ (\A c \in Conexiones : Bien(c)) <=> EnPeticion /\ YaAnotada
  /\ (\A c \in Conexiones : Bien(c)') <=> EnPeticion' /\ YaAnotada'
BY DEF Bien, EnPeticion, YaAnotada

LEMMA BienIgual ==
  ASSUME General, [Next]_vars, NEW c \in Conexiones,
         hilo'[c] = hilo[c], op'[c] = op[c], n'[c] = n[c], origen'[c] = origen[c]
  PROVE  Bien(c)'
<1>1. Bien(c)
  BY BienEsGeneral DEF General
<1>2. Anotacion(c)' = Anotacion(c)
  BY DEF Anotacion
<1>3. Anotada(Anotacion(c)) => Anotada(Anotacion(c))'
  <2> DEFINE e == Anotacion(c)
  <2>1. Anotada(e) => \E a \in sin_registrar' \cup {impresas'[i] : i \in DOMAIN impresas'} :
            a.hilo = e.hilo /\ a.op = e.op /\ a.origen \subseteq e.origen
    BY RegistroCrece DEF Anotada
  <2> QED
    BY <1>2, <2>1 DEF Anotada
<1> QED
  BY <1>1, <1>3 DEF Bien

LEMMA PeticionPaso == General /\ [Next]_vars => EnPeticion' /\ YaAnotada'
<1> SUFFICES ASSUME General, [Next]_vars, NEW c \in Conexiones PROVE Bien(c)'
  BY BienEsGeneral
<1>0. TypeOK /\ Empezadas /\ DescriptorVivo /\ EnPeticion /\ YaAnotada
  BY DEF General
<1>a. ASSUME hilo'[c] \in {"no", "operacion", "dejar", "terminar", "fin"} PROVE Bien(c)'
  BY <1>a DEF Bien
<1>1. CASE UNCHANGED <<hilo, op, n, origen>>
  BY <1>1, BienIgual
<1>2. ASSUME NEW d \in Conexiones, Aceptar(d) PROVE Bien(c)'
  <2>1. hilo' = [hilo EXCEPT ![d] = "operacion"] /\ UNCHANGED <<op, n, origen>>
    BY <1>2 DEF Aceptar
  <2>2. CASE c = d
    BY <1>0, <1>a, <2>1, <2>2 DEF TypeOK
  <2>3. CASE c # d
    BY <1>0, <2>1, <2>3, BienIgual DEF TypeOK
  <2> QED
    BY <2>2, <2>3
<1>3. ASSUME NEW d \in Conexiones, LeerOperacion(d) PROVE Bien(c)'
  <2>1. CASE hilo' = [hilo EXCEPT ![d] = "terminar"] /\ UNCHANGED <<op, n, origen>>
    <3>1. CASE c = d
      BY <1>0, <1>a, <2>1, <3>1 DEF TypeOK
    <3>2. CASE c # d
      BY <1>0, <2>1, <3>2, BienIgual DEF TypeOK
    <3> QED
      BY <3>1, <3>2
  <2>2. ASSUME NEW x \in Conexiones, NEW o \in OpAInt(x), Reconocida(o), HayCampo(d, x),
               op' = [op EXCEPT ![d] = o], n' = [n EXCEPT ![d] = 0],
               origen' = [origen EXCEPT ![d] = {x}], hilo' = [hilo EXCEPT ![d] = "campo"]
        PROVE  Bien(c)'
    <3>1. CASE c = d
      <4>1. Viva(d)
        BY <1>3 DEF LeerOperacion, Viva
      <4>2. o \in DOMAIN Campos
        BY <1>0, <2>2, <4>1, OperacionLeida
      <4>3. Campos[o] \in 1..4 /\ CamposParaRegistrar(o) \in 1..4
        BY <4>2, CamposCotas
      <4>4. hilo'[c] = "campo" /\ op'[c] = o /\ n'[c] = 0
        BY <1>0, <2>2, <3>1 DEF TypeOK
      <4>5. ~(0 >= CamposParaRegistrar(o)) /\ 0 < Campos[o]
        BY <4>3
      <4> QED
        BY <4>2, <4>4, <4>5 DEF Bien
    <3>2. CASE c # d
      BY <1>0, <2>2, <3>2, BienIgual DEF TypeOK
    <3> QED
      BY <3>1, <3>2
  <2> QED
    BY <1>3, <2>1, <2>2 DEF LeerOperacion
<1>4. ASSUME NEW d \in Conexiones, LeerCampo(d) PROVE Bien(c)'
  <2>0. hilo[d] = "campo" /\ op' = op
    BY <1>4 DEF LeerCampo
  <2>1. CASE hilo' = [hilo EXCEPT ![d] = "dejar"] /\ UNCHANGED <<n, origen>>
    <3>1. CASE c = d
      BY <1>0, <1>a, <2>1, <3>1 DEF TypeOK
    <3>2. CASE c # d
      BY <1>0, <2>0, <2>1, <3>2, BienIgual DEF TypeOK
    <3> QED
      BY <3>1, <3>2
  <2>2. ASSUME NEW x \in Conexiones, HayCampo(d, x),
               n' = [n EXCEPT ![d] = @ + 1], origen' = [origen EXCEPT ![d] = @ \cup {x}],
               hilo' = [hilo EXCEPT ![d] = TrasCampo(op[d], n'[d])]
        PROVE  Bien(c)'
    <3>1. CASE c = d
      <4> DEFINE o == op[c]
                 k == n[c]
                 s == TrasCampo(o, k + 1)
      <4>1. /\ o \in DOMAIN Campos /\ k \in Nat /\ k < Campos[o]
            /\ Campos[o] \in 1..4 /\ CamposParaRegistrar(o) \in 1..4
        BY <1>0, <2>0, <3>1, SuPeticion DEF EnPeticion
      <4>2. /\ hilo'[c] = s /\ op'[c] = o /\ n'[c] = k + 1 /\ origen'[c] = origen[c] \cup {x}
        BY <1>0, <2>0, <2>2, <3>1 DEF TypeOK
      <4>3. /\ s \in {"campo", "registrar", "ejecutar"}
            /\ s = "campo" => k + 1 < Campos[o] /\ k + 1 # CamposParaRegistrar(o)
            /\ s = "registrar" => k + 1 = CamposParaRegistrar(o)
            /\ s = "ejecutar" => k + 1 = Campos[o] /\ k + 1 # CamposParaRegistrar(o)
        BY <4>1, TrasCampoBien
      <4>4. k >= CamposParaRegistrar(o) => Anotada(Anotacion(c))'
        <5>1. k >= CamposParaRegistrar(o) => Anotada(Anotacion(c))
          BY <1>0, <2>0, <3>1 DEF YaAnotada
        <5>2. UNCHANGED <<impresas, sin_registrar>>
          BY <1>4 DEF LeerCampo, registro
        <5>3. /\ Anotacion(c)' = [hilo |-> c, op |-> o, origen |-> origen[c] \cup {x}]
              /\ Anotacion(c) = [hilo |-> c, op |-> o, origen |-> origen[c]]
          BY <4>2 DEF Anotacion
        <5> QED
          BY <5>1, <5>2, <5>3 DEF Anotada
      <4>5. /\ s = "campo" /\ k + 1 >= CamposParaRegistrar(o) => k >= CamposParaRegistrar(o)
            /\ s = "ejecutar" => k >= CamposParaRegistrar(o)
        <5>1. CamposParaRegistrar(o) <= Campos[o]
          BY <4>1, CamposCotas
        <5> HIDE DEF s
        <5> QED
          BY <4>1, <4>3, <5>1
      <4> HIDE DEF o, k, s
      <4> QED
        BY <4>1, <4>2, <4>3, <4>4, <4>5 DEF Bien
    <3>2. CASE c # d
      BY <1>0, <2>0, <2>2, <3>2, BienIgual DEF TypeOK
    <3> QED
      BY <3>1, <3>2
  <2> QED
    BY <1>4, <2>1, <2>2 DEF LeerCampo
<1>5. ASSUME NEW d \in Conexiones, RegistrarOperacion(d) \/ VolverDelRegistro(d) PROVE Bien(c)'
  <2>1. UNCHANGED <<op, n, origen>> /\ Viva(d)
    BY <1>5, PasoRegistro DEF memoria
  <2>2. \E s \in {"espera", "campo", "ejecutar", "responder"} : hilo' = [hilo EXCEPT ![d] = s]
    BY <1>5, PasoRegistro
  <2>3. CASE c = d
    <3> DEFINE o == op[c]
               a == Anotacion(c)
    <3>1. /\ o \in DOMAIN Campos /\ n[c] = CamposParaRegistrar(o)
          /\ CamposParaRegistrar(o) \in 1..4 /\ CamposParaRegistrar(o) <= Campos[o]
          /\ Campos[o] \in 1..4
      BY <1>0, <1>5, <2>3, SuPeticion DEF EnPeticion, RegistrarOperacion, VolverDelRegistro
    <3>2. \/ hilo' = [hilo EXCEPT ![c] = "espera"]
          \/ /\ TrasRegistrar(c)
             /\ a \in sin_registrar' \/ (Impresa(a) /\ UNCHANGED impresas)
      BY <1>5, <2>3 DEF RegistrarOperacion, VolverDelRegistro, registro
    <3>3. Anotacion(c)' = a
      BY <2>1 DEF Anotacion
    <3>4. CASE hilo' = [hilo EXCEPT ![c] = "espera"]
      <4>1. hilo'[c] = "espera" /\ op'[c] = o /\ n'[c] = n[c]
        BY <1>0, <2>1, <3>4 DEF TypeOK
      <4> QED
        BY <3>1, <4>1 DEF Bien
    <3>5. CASE /\ TrasRegistrar(c)
               /\ a \in sin_registrar' \/ (Impresa(a) /\ UNCHANGED impresas)
      <4>1. /\ hilo'[c] = IF n[c] = Campos[o] THEN "ejecutar" ELSE "campo"
            /\ op'[c] = o /\ n'[c] = n[c]
        BY <1>0, <2>1, <3>5 DEF TypeOK, TrasRegistrar
      <4>2. Anotada(a)'
        <5>1. a' = a
          BY <3>3
        <5>2. a \in sin_registrar' \cup {impresas'[i] : i \in DOMAIN impresas'}
          BY <3>5 DEF Impresa
        <5> QED
          BY <5>1, <5>2 DEF Anotada
      <4>3. n[c] # Campos[o] => n[c] < Campos[o]
        BY <3>1
      <4> QED
        BY <3>1, <4>1, <4>2, <4>3 DEF Bien
    <3> QED
      BY <3>2, <3>4, <3>5
  <2>4. CASE c # d
    BY <1>0, <2>1, <2>2, <2>4, BienIgual DEF TypeOK
  <2> QED
    BY <2>3, <2>4
<1>6. ASSUME NEW d \in Conexiones, Ejecutar(d) PROVE Bien(c)'
  <2>1. UNCHANGED <<op, n, origen>> /\ hilo[d] = "ejecutar" /\ hilo' = [hilo EXCEPT ![d] = "responder"]
    BY <1>6 DEF Ejecutar, memoria
  <2>2. CASE c = d
    <3>1. op[c] \in DOMAIN Campos /\ n[c] = Campos[op[c]]
      BY <1>0, <2>1, <2>2 DEF EnPeticion
    <3>2. hilo'[c] = "responder" /\ op'[c] = op[c] /\ n'[c] = n[c]
      BY <1>0, <2>1, <2>2 DEF TypeOK
    <3> QED
      BY <3>1, <3>2 DEF Bien
  <2>3. CASE c # d
    BY <1>0, <2>1, <2>3, BienIgual DEF TypeOK
  <2> QED
    BY <2>2, <2>3
<1>7. ASSUME NEW d \in Conexiones,
             ResponderBien(d, "operacion") \/ Sigpipe(d) \/ DejarSwitch(d) \/ Terminar(d)
      PROVE  Bien(c)'
  <2>1. /\ UNCHANGED <<op, n, origen>>
        /\ hilo'[c] = hilo[c] \/ hilo'[c] \in {"no", "operacion", "fin"}
    BY <1>0, <1>7 DEF TypeOK, ResponderBien, Sigpipe, DejarSwitch, Terminar, Cerrar, memoria
  <2> QED
    BY <1>a, <2>1, BienIgual
<1>8. ASSUME NEW d \in Conexiones, ClienteEnvia(d) \/ ClienteCierra(d) PROVE Bien(c)'
  BY <1>1, <1>8 DEF ClienteEnvia, ClienteCierra, memoria
<1>9. ASSUME NEW a, Atender(a) PROVE Bien(c)'
  BY <1>1, <1>9 DEF Atender, memoria
<1>10. CASE UNCHANGED vars
  BY <1>1, <1>10 DEF vars, memoria
<1> QED
  BY <1>2, <1>3, <1>4, <1>5, <1>6, <1>7, <1>8, <1>9, <1>10 DEF Next, Hilo, Responder

LEMMA AntesPaso == General /\ [Next]_vars => RegistradaAntes'
<1> SUFFICES ASSUME General, [Next]_vars, NEW e \in ejecutadas' PROVE Anotada(e)'
  BY DEF RegistradaAntes
<1>1. Anotada(e) => Anotada(e)'
  BY RegistroCrece, AnotadaSigue
<1>2. CASE e \in ejecutadas
  BY <1>1, <1>2 DEF General, RegistradaAntes
<1>3. ASSUME NEW c \in Conexiones, Ejecutar(c), e = Anotacion(c) PROVE Anotada(e)
  BY <1>3 DEF General, YaAnotada, Ejecutar
<1>4. \/ e \in ejecutadas
      \/ \E c \in Conexiones : Ejecutar(c) /\ e = Anotacion(c)
  BY DEF Next, Hilo, Aceptar, ClienteEnvia, ClienteCierra, LeerOperacion, LeerCampo,
         RegistrarOperacion, VolverDelRegistro, Ejecutar, Responder, ResponderBien, Sigpipe,
         DejarSwitch, Terminar, Cerrar, Atender, vars, historia
<1> QED
  BY <1>1, <1>2, <1>3, <1>4

LEMMA GeneralPaso == General /\ [Next]_vars => General'
BY TipoPaso, EmpezadasPaso, DescriptorPaso, PeticionPaso, AntesPaso DEF General

LEMMA GeneralInicial == Init => General
<1> SUFFICES ASSUME Init PROVE General
  OBVIOUS
<1>1. TypeOK
  BY DEF Init, TypeOK
<1>2. Empezadas
  BY DEF Init, Empezadas
<1>3. DescriptorVivo
  BY ConexionSupuestos DEF Init, DescriptorVivo
<1>4. EnPeticion /\ YaAnotada /\ MuertoParado /\ RegistradaAntes
  BY DEF Init, EnPeticion, YaAnotada, MuertoParado, RegistradaAntes
<1> QED
  BY <1>1, <1>2, <1>3, <1>4 DEF General

LEMMA GeneralSiempre == Spec => []General
BY GeneralInicial, GeneralPaso, PTL DEF Spec

\* Every variable of the threads keeps its type, whatever clients interrupt and
\* whoever's descriptor a number is: no counter passes the fields of a request.
THEOREM ConexionTipo == Spec => []TypeOK
BY GeneralSiempre, PTL DEF General

\* Nothing takes effect without having been logged or the call having failed, even in
\* a thread that reads what another connection sends.
THEOREM NadaSinRegistrar == Spec => []RegistradaAntes
BY GeneralSiempre, PTL DEF General

\* No descriptor leaks: a descriptor in use has a thread that will close it.
THEOREM NoHayFugas == Spec => []SinFugas
<1>1. General => SinFugas
  BY DEF General, TypeOK, DescriptorVivo, Viva, SinFugas
<1> QED
  BY <1>1, GeneralSiempre, PTL
-----------------------------------------------------------------------------
\* Whoever cuts a request short has cut it for ever.
LEMMA CompletasAntes == General /\ [Next]_vars /\ Completas' => Completas
<1> SUFFICES ASSUME General, [Next]_vars, Completas', NEW c \in Conexiones
             PROVE  /\ ~vacio[c] /\ ~a_medias[c]
                    /\ cerrada[c] => enviados[c] \in {0, 1 + Campos[peticion[c]]}
  BY DEF Completas
<1>0. TypeOK /\ Empezadas
  BY DEF General
<1>a. CASE UNCHANGED cliente
  BY <1>a DEF Completas, cliente
<1>1. ASSUME NEW d \in Conexiones, Aceptar(d)
      PROVE  /\ ~vacio[c] /\ ~a_medias[c]
             /\ cerrada[c] => enviados[c] \in {0, 1 + Campos[peticion[c]]}
  <2>1. CASE c = d
    BY <1>0, <1>1, <2>1 DEF Aceptar, Empezadas
  <2>2. CASE c # d
    <3>1. vacio'[c] = vacio[c] /\ peticion'[c] = peticion[c]
      BY <1>0, <1>1, <2>2 DEF TypeOK, Aceptar
    <3> QED
      BY <1>1, <3>1 DEF Completas, Aceptar
  <2> QED
    BY <2>1, <2>2
<1>2. ASSUME NEW d \in Conexiones, ClienteEnvia(d)
      PROVE  /\ ~vacio[c] /\ ~a_medias[c]
             /\ cerrada[c] => enviados[c] \in {0, 1 + Campos[peticion[c]]}
  BY <1>0, <1>2 DEF TypeOK, ClienteEnvia, Completas
<1>3. ASSUME NEW d \in Conexiones, ClienteCierra(d)
      PROVE  /\ ~vacio[c] /\ ~a_medias[c]
             /\ cerrada[c] => enviados[c] \in {0, 1 + Campos[peticion[c]]}
  BY <1>0, <1>3 DEF TypeOK, ClienteCierra, Completas
<1>4. \/ UNCHANGED cliente
      \/ \E d \in Conexiones : Aceptar(d) \/ ClienteEnvia(d) \/ ClienteCierra(d)
  BY DEF Next, Hilo, LeerOperacion, LeerCampo,
         RegistrarOperacion, VolverDelRegistro, Ejecutar, Responder, ResponderBien, Sigpipe,
         DejarSwitch, Terminar, Cerrar, Atender, vars
<1> QED
  BY <1>a, <1>1, <1>2, <1>3, <1>4

\* What may happen to a thread while every request is whole: it reads its own client
\* and nobody else's ...
Sana == General /\ Completas /\ Ordenada

Empieza(c) ==
  /\ hilo[c] = "operacion" /\ leidos[c] = 0
  /\ hilo' = [hilo EXCEPT ![c] = "campo"]
  /\ leidos' = [leidos EXCEPT ![c] = 1]
  /\ op' = [op EXCEPT ![c] = peticion[c]]
  /\ n' = [n EXCEPT ![c] = 0]
  /\ origen' = [origen EXCEPT ![c] = {c}]

LEMMA OperacionSana ==
  ASSUME Sana, NEW c \in Conexiones, LeerOperacion(c)
  PROVE  \/ Empieza(c)
         \/ /\ hilo[c] = "operacion" /\ hilo' = [hilo EXCEPT ![c] = "terminar"]
            /\ UNCHANGED <<leidos, op, n, origen>>
<1>0. TypeOK /\ Empezadas /\ DescriptorVivo /\ SuDescriptor /\ Completas
  BY DEF Sana, General, Ordenada
<1>1. Viva(c) /\ hilo[c] = "operacion"
  BY DEF LeerOperacion, Viva
<1>2. /\ descriptor[my_sc[c]] = c /\ leidos[c] \in {0, Todos(c)} /\ Cerrado \notin Conexiones
      /\ ~vacio[c] /\ ~a_medias[c]
  BY <1>0, <1>1, ConexionSupuestos DEF SuDescriptor, Completas
<1>3. ASSUME NEW d \in Conexiones, HayCampo(c, d)
      PROVE  d = c /\ leidos[c] = 0 /\ leidos' = [leidos EXCEPT ![c] = 1]
  <2>1. d = c
    BY <1>2, <1>3 DEF HayCampo
  <2>2. leidos[c] < enviados[c] /\ enviados[c] <= Todos(c) /\ leidos[c] \in 0..5 /\ enviados[c] \in 0..5
    BY <1>0, <1>1, <1>3, <2>1, Cuentas DEF HayCampo, Empezadas, Viva, Todos
  <2>3. Campos[peticion[c]] \in 1..4
    BY <1>0, <1>1, OperacionesValidas, CamposCotas DEF Empezadas, Viva
  <2>4. leidos[c] = 0
    BY <1>2, <2>2, <2>3 DEF Todos
  <2> QED
    BY <1>3, <2>1, <2>4 DEF HayCampo
<1>4. ASSUME LeeCero(c) \/ LeeError(c) PROVE UNCHANGED leidos
  BY <1>2, <1>4 DEF LeeCero, LeeError, EsVacio
<1>5. ASSUME NEW d \in Conexiones, NEW o \in OpAInt(d), HayCampo(c, d)
      PROVE  Reconocida(o) /\ o = peticion[c]
  <2>1. d = c /\ leidos[c] = 0
    BY <1>3, <1>5
  <2>2. o = peticion[c]
    BY <1>2, <1>5, <2>1 DEF OpAInt
  <2>3. peticion[c] \in DOMAIN Campos
    BY <1>0, <1>1, OperacionesValidas DEF Empezadas, Viva
  <2> QED
    BY <2>2, <2>3, CamposCotas DEF Reconocida
<1>6. \/ \E d \in Conexiones : \E o \in OpAInt(d) :
          /\ HayCampo(c, d)
          /\ op' = [op EXCEPT ![c] = o]
          /\ n' = [n EXCEPT ![c] = 0]
          /\ origen' = [origen EXCEPT ![c] = {d}]
          /\ hilo' = [hilo EXCEPT ![c] = "campo"]
      \/ /\ LeeCero(c) \/ LeeError(c)
         /\ hilo' = [hilo EXCEPT ![c] = "terminar"]
         /\ UNCHANGED <<op, n, origen>>
  BY <1>5 DEF LeerOperacion
<1> QED
  BY <1>1, <1>3, <1>4, <1>5, <1>6 DEF Empieza

LeeElCampo(c) ==
  /\ hilo[c] = "campo" /\ n[c] < Campos[op[c]]
  /\ hilo' = [hilo EXCEPT ![c] = TrasCampo(op[c], n[c] + 1)]
  /\ leidos' = [leidos EXCEPT ![c] = leidos[c] + 1]
  /\ n' = [n EXCEPT ![c] = n[c] + 1]
  /\ UNCHANGED <<op, origen>>

LEMMA CampoSano ==
  ASSUME Sana, NEW c \in Conexiones, LeerCampo(c)
  PROVE  LeeElCampo(c)
<1>0. TypeOK /\ Empezadas /\ EnPeticion /\ SuDescriptor /\ Completas
  BY DEF Sana, General, Ordenada
<1>1. Viva(c) /\ hilo[c] = "campo" /\ op' = op
  BY DEF LeerCampo, Viva
<1>2. /\ descriptor[my_sc[c]] = c /\ Cerrado \notin Conexiones
      /\ ~vacio[c] /\ op[c] = peticion[c] /\ origen[c] = {c} /\ leidos[c] = 1 + n[c]
      /\ cerrada[c] => enviados[c] \in {0, 1 + Campos[peticion[c]]}
  BY <1>0, <1>1, ConexionSupuestos DEF SuDescriptor, Completas
<1>3. n[c] \in 0..4 /\ n[c] < Campos[op[c]] /\ Campos[op[c]] \in 1..4
  BY <1>0, <1>1, SuPeticion DEF EnPeticion
<1>4. ~LeeCero(c) /\ ~LeeError(c)
  BY <1>2, <1>3 DEF LeeCero, LeeError, EsVacio
<1>5. PICK d \in Conexiones :
        /\ HayCampo(c, d)
        /\ n' = [n EXCEPT ![c] = @ + 1]
        /\ origen' = [origen EXCEPT ![c] = @ \cup {d}]
        /\ hilo' = [hilo EXCEPT ![c] = TrasCampo(op[c], n'[c])]
  BY <1>4 DEF LeerCampo
<1>6. d = c /\ leidos' = [leidos EXCEPT ![c] = leidos[c] + 1]
  BY <1>2, <1>5 DEF HayCampo
<1>7. origen' = origen
  BY <1>0, <1>2, <1>5, <1>6 DEF TypeOK
<1>8. n'[c] = n[c] + 1
  BY <1>0, <1>5 DEF TypeOK
<1> QED
  BY <1>1, <1>3, <1>5, <1>6, <1>7, <1>8 DEF LeeElCampo

\* ... what it logs and executes is its client's request ...
LEMMA AnotacionSana ==
  ASSUME Sana, NEW c \in Conexiones, hilo[c] \in {"registrar", "espera", "ejecutar", "responder"}
  PROVE  Anotacion(c) = Hecha(c) /\ leidos[c] = 1 + n[c] /\ respuestas[c] = 0
BY DEF Sana, Ordenada, SuDescriptor, Anotacion, Hecha

\* ... and it answers its client.
LEMMA RespuestaSana ==
  ASSUME Sana, NEW c \in Conexiones, ResponderBien(c, "operacion")
  PROVE  /\ hilo[c] = "responder" /\ hilo' = [hilo EXCEPT ![c] = "operacion"]
         /\ respuestas[c] = 0 /\ respuestas' = [respuestas EXCEPT ![c] = 1]
         /\ UNCHANGED <<descriptor, cliente, leidos, memoria, vivo, registro, historia>>
<1>1. hilo[c] = "responder" /\ Viva(c)
  BY DEF ResponderBien, Viva
<1>2. descriptor[my_sc[c]] = c /\ c # Cerrado /\ respuestas[c] = 0
  BY <1>1, ConexionSupuestos DEF Sana, Ordenada, SuDescriptor
<1>3. respuestas' = [respuestas EXCEPT ![c] = respuestas[c] + 1]
  BY <1>2 DEF ResponderBien
<1> QED
  BY <1>1, <1>2, <1>3 DEF ResponderBien

LEMMA NadieDeja == ASSUME Sana, NEW c \in Conexiones PROVE ~DejarSwitch(c)
BY DEF Sana, Ordenada, SuDescriptor, DejarSwitch

\* The steps there are while every request is whole.
LEMMA PasosSanos ==
  ASSUME Sana, Next
  PROVE  \/ \E c \in Conexiones : Aceptar(c)
         \/ \E c \in Conexiones : ClienteEnvia(c) \/ ClienteCierra(c)
         \/ \E c \in Conexiones :
              LeerOperacion(c) /\ Empieza(c)
         \/ \E c \in Conexiones :
              /\ LeerOperacion(c) /\ hilo[c] = "operacion" /\ hilo' = [hilo EXCEPT ![c] = "terminar"]
              /\ UNCHANGED <<leidos, op, n, origen>>
         \/ \E c \in Conexiones : LeerCampo(c) /\ LeeElCampo(c)
         \/ \E c \in Conexiones : RegistrarOperacion(c) \/ VolverDelRegistro(c) \/ Ejecutar(c)
         \/ \E c \in Conexiones : ResponderBien(c, "operacion")
         \/ \E c \in Conexiones : Sigpipe(c)
         \/ \E c \in Conexiones : Terminar(c)
         \/ \E a \in llamadas : Atender(a)
BY OperacionSana, CampoSano, NadieDeja DEF Next, Hilo, Responder

\* Part of SuDescriptor, for one connection.
Suyo(c) ==
  /\ Viva(c) => descriptor[my_sc[c]] = c
  /\ hilo[c] # "dejar"
  /\ hilo[c] = "operacion" => leidos[c] \in {0, Todos(c)}
  /\ hilo[c] \in {"campo", "registrar", "espera", "ejecutar", "responder"} =>
       /\ op[c] = peticion[c] /\ origen[c] = {c}
       /\ leidos[c] = 1 + n[c] /\ respuestas[c] = 0
  /\ origen[c] \subseteq {c}

LEMMA SuyoEsDescriptor ==
  /\ SuDescriptor <=> \A c \in Conexiones : Suyo(c)
  /\ SuDescriptor' <=> \A c \in Conexiones : Suyo(c)'
BY DEF Suyo, SuDescriptor

LEMMA SuyoIgual ==
  ASSUME Sana, NEW c \in Conexiones,
         hilo'[c] = hilo[c], my_sc'[c] = my_sc[c], leidos'[c] = leidos[c],
         op'[c] = op[c], n'[c] = n[c], origen'[c] = origen[c], peticion'[c] = peticion[c],
         respuestas'[c] = respuestas[c],
         Viva(c) => descriptor'[my_sc[c]] = descriptor[my_sc[c]]
  PROVE  Suyo(c)'
<1>1. Suyo(c)
  BY SuyoEsDescriptor DEF Sana, Ordenada
<1> QED
  BY <1>1 DEF Suyo, Viva, Todos

LEMMA SuyoPaso ==
  ASSUME Sana, Next
  PROVE  SuDescriptor'
<1> SUFFICES ASSUME NEW c \in Conexiones PROVE Suyo(c)'
  BY SuyoEsDescriptor
<1>0. TypeOK /\ Empezadas /\ DescriptorVivo /\ EnPeticion /\ Suyo(c) /\ Cerrado \notin Conexiones
      /\ Respondidas
  BY SuyoEsDescriptor, ConexionSupuestos DEF Sana, General, Ordenada
<1>1. ASSUME NEW d \in Conexiones, Aceptar(d) PROVE Suyo(c)'
  <2>1. PICK f \in Descriptores, o \in Operaciones :
           /\ descriptor[f] = Cerrado
           /\ descriptor' = [descriptor EXCEPT ![f] = d]
           /\ my_sc' = [my_sc EXCEPT ![d] = f]
           /\ peticion' = [peticion EXCEPT ![d] = o]
    BY <1>1, Aceptada
  <2>2. /\ hilo[d] = "no" /\ hilo' = [hilo EXCEPT ![d] = "operacion"]
        /\ UNCHANGED <<leidos, respuestas, op, n, origen>>
    BY <1>1 DEF Aceptar
  <2>3. CASE c = d
    <3>1. /\ hilo'[c] = "operacion" /\ my_sc'[c] = f /\ descriptor'[f] = c /\ leidos'[c] = 0
      BY <1>0, <2>1, <2>2, <2>3 DEF TypeOK, Empezadas
    <3> QED
      BY <1>0, <2>2, <3>1 DEF Suyo, Viva
  <2>4. CASE c # d
    <3>1. hilo'[c] = hilo[c] /\ my_sc'[c] = my_sc[c] /\ peticion'[c] = peticion[c]
      BY <1>0, <2>1, <2>2, <2>4 DEF TypeOK
    <3>2. ASSUME Viva(c) PROVE descriptor'[my_sc[c]] = descriptor[my_sc[c]]
      <4>1. my_sc[c] # f /\ my_sc[c] \in Descriptores
        BY <1>0, <2>1, <3>2 DEF Suyo, Empezadas, Viva
      <4> QED
        BY <1>0, <2>1, <4>1 DEF TypeOK
    <3> QED
      BY <2>2, <3>1, <3>2, SuyoIgual
  <2> QED
    BY <2>3, <2>4
<1>2. ASSUME NEW d \in Conexiones, ClienteEnvia(d) \/ ClienteCierra(d) PROVE Suyo(c)'
  BY <1>2, SuyoIgual DEF ClienteEnvia, ClienteCierra, memoria
<1>3. ASSUME NEW d \in Conexiones, LeerOperacion(d), Empieza(d) PROVE Suyo(c)'
  <2>1. UNCHANGED <<descriptor, peticion, respuestas, my_sc>>
    BY <1>3 DEF LeerOperacion, cliente
  <2>2. CASE c = d
    <3>1. /\ hilo'[c] = "campo" /\ leidos'[c] = 1 /\ op'[c] = peticion[c] /\ n'[c] = 0
          /\ origen'[c] = {c} /\ hilo[c] = "operacion" /\ leidos[c] = 0
      BY <1>0, <1>3, <2>2 DEF TypeOK, Empieza
    <3>2. Campos[peticion[c]] \in 1..4
      BY <1>0, <3>1, OperacionesValidas, CamposCotas DEF Empezadas
    <3>3. respuestas[c] = 0
      <4>1. respuestas[c] \in Nat /\ ~(respuestas[c] > 0)
        BY <1>0, <3>1, <3>2, Cuentas DEF Respondidas, Todos
      <4> QED
        BY <4>1
    <3>4. Viva(c)
      BY <3>1 DEF Viva
    <3> QED
      BY <1>0, <2>1, <3>1, <3>3, <3>4 DEF Suyo
  <2>3. CASE c # d
    BY <1>0, <1>3, <2>1, <2>3, SuyoIgual DEF TypeOK, Empieza
  <2> QED
    BY <2>2, <2>3
<1>4. ASSUME NEW d \in Conexiones, LeerOperacion(d), hilo[d] = "operacion",
             hilo' = [hilo EXCEPT ![d] = "terminar"], UNCHANGED <<leidos, op, n, origen>>
      PROVE  Suyo(c)'
  <2>1. UNCHANGED <<descriptor, peticion, respuestas, my_sc>>
    BY <1>4 DEF LeerOperacion, cliente
  <2>2. CASE c = d
    <3>1. hilo'[c] = "terminar" /\ Viva(c)
      BY <1>0, <1>4, <2>2 DEF TypeOK, Viva
    <3> QED
      BY <1>0, <1>4, <2>1, <3>1 DEF Suyo
  <2>3. CASE c # d
    BY <1>0, <1>4, <2>1, <2>3, SuyoIgual DEF TypeOK
  <2> QED
    BY <2>2, <2>3
<1>5. ASSUME NEW d \in Conexiones, LeerCampo(d), LeeElCampo(d) PROVE Suyo(c)'
  <2>1. UNCHANGED <<descriptor, peticion, respuestas, my_sc>>
    BY <1>5 DEF LeerCampo, cliente
  <2>2. CASE c = d
    <3>1. /\ hilo[c] = "campo" /\ hilo'[c] = TrasCampo(op[c], n[c] + 1)
          /\ leidos'[c] = leidos[c] + 1 /\ n'[c] = n[c] + 1 /\ UNCHANGED <<op, origen>>
      BY <1>0, <1>5, <2>2 DEF TypeOK, LeeElCampo
    <3>2. hilo'[c] \in {"campo", "registrar", "ejecutar"}
      BY <3>1 DEF TrasCampo
    <3>3. n[c] \in 0..4 /\ leidos[c] = 1 + n[c] /\ respuestas[c] = 0 /\ Viva(c)
      BY <1>0, <3>1, Cuentas DEF Suyo, Viva
    <3>4. leidos'[c] = 1 + n'[c]
      BY <3>1, <3>3
    <3> QED
      BY <1>0, <2>1, <3>1, <3>2, <3>3, <3>4 DEF Suyo
  <2>3. CASE c # d
    BY <1>0, <1>5, <2>1, <2>3, SuyoIgual DEF TypeOK, LeeElCampo
  <2> QED
    BY <2>2, <2>3
<1>6. ASSUME NEW d \in Conexiones, RegistrarOperacion(d) \/ VolverDelRegistro(d) \/ Ejecutar(d)
      PROVE  Suyo(c)'
  <2>1. /\ \E s \in {"espera", "campo", "ejecutar", "responder"} :
             hilo' = [hilo EXCEPT ![d] = s]
        /\ UNCHANGED <<descriptor, cliente, leidos, respuestas, memoria>>
        /\ hilo[d] \in {"registrar", "espera", "ejecutar"}
    BY <1>6, PasoRegistro DEF RegistrarOperacion, VolverDelRegistro, Ejecutar
  <2>2. CASE c = d
    <3>1. hilo'[c] \in {"espera", "campo", "ejecutar", "responder"} /\ Viva(c)
      BY <1>0, <2>1, <2>2 DEF TypeOK, Viva
    <3> QED
      BY <1>0, <2>1, <2>2, <3>1 DEF Suyo, cliente, memoria
  <2>3. CASE c # d
    BY <1>0, <2>1, <2>3, SuyoIgual DEF TypeOK, cliente, memoria
  <2> QED
    BY <2>2, <2>3
<1>7. ASSUME NEW d \in Conexiones, ResponderBien(d, "operacion") PROVE Suyo(c)'
  <2>1. /\ hilo[d] = "responder" /\ hilo' = [hilo EXCEPT ![d] = "operacion"]
        /\ respuestas[d] = 0 /\ respuestas' = [respuestas EXCEPT ![d] = 1]
        /\ UNCHANGED <<descriptor, cliente, leidos, memoria>>
    BY <1>7, RespuestaSana
  <2>2. CASE c = d
    <3>1. hilo'[c] = "operacion" /\ Viva(c)
      BY <1>0, <2>1, <2>2 DEF TypeOK, Viva
    <3>2. leidos[c] = Todos(c)
      BY <1>0, <2>1, <2>2 DEF Suyo, EnPeticion, Todos
    <3> QED
      BY <1>0, <2>1, <3>1, <3>2 DEF Suyo, cliente, memoria, Todos
  <2>3. CASE c # d
    BY <1>0, <2>1, <2>3, SuyoIgual DEF TypeOK, cliente, memoria
  <2> QED
    BY <2>2, <2>3
<1>8. ASSUME NEW d \in Conexiones, Sigpipe(d) PROVE Suyo(c)'
  <2>1. hilo'[c] \in {"no", "fin"} /\ origen' = origen
    BY <1>8 DEF Sigpipe, memoria
  <2> QED
    BY <1>0, <2>1 DEF Suyo, Viva
<1>9. ASSUME NEW d \in Conexiones, Terminar(d) PROVE Suyo(c)'
  <2>1. /\ Viva(d) /\ hilo' = [hilo EXCEPT ![d] = "fin"]
        /\ descriptor' = [descriptor EXCEPT ![my_sc[d]] = Cerrado]
        /\ UNCHANGED <<cliente, leidos, respuestas, memoria>>
    BY <1>9 DEF Terminar, Cerrar, Viva
  <2>2. CASE c = d
    <3>1. hilo'[c] = "fin" /\ origen' = origen
      BY <1>0, <2>1, <2>2 DEF TypeOK, memoria
    <3> QED
      BY <1>0, <3>1 DEF Suyo, Viva
  <2>3. CASE c # d
    <3>1. ASSUME Viva(c) PROVE descriptor'[my_sc[c]] = descriptor[my_sc[c]]
      <4>1. descriptor[my_sc[c]] = c /\ descriptor[my_sc[d]] = d /\ my_sc[c] \in Descriptores
        BY <1>0, <2>1, <3>1 DEF Suyo, Empezadas, Viva, Sana, Ordenada, SuDescriptor
      <4> QED
        BY <1>0, <2>1, <2>3, <4>1 DEF TypeOK
    <3> QED
      BY <1>0, <2>1, <2>3, <3>1, SuyoIgual DEF TypeOK, cliente, memoria
  <2> QED
    BY <2>2, <2>3
<1>10. ASSUME NEW a, Atender(a) PROVE Suyo(c)'
  BY <1>10, SuyoIgual DEF Atender, cliente, memoria
<1> QED
  BY <1>1, <1>2, <1>3, <1>4, <1>5, <1>6, <1>7, <1>8, <1>9, <1>10, PasosSanos

\* A request is the same from the moment its connection is accepted.
LEMMA HechaIgual ==
  ASSUME Sana, Next, NEW c \in Conexiones, hilo[c] # "no"
  PROVE  /\ peticion'[c] = peticion[c] /\ Hecha(c)' = Hecha(c) /\ hilo'[c] # "no"
         /\ previas'[c] = previas[c] /\ (cerrada[c] => cerrada'[c])
<1>0. TypeOK
  BY DEF Sana, General
<1>1. ASSUME NEW d \in Conexiones, Aceptar(d)
      PROVE  /\ peticion'[c] = peticion[c] /\ hilo'[c] # "no"
             /\ previas'[c] = previas[c] /\ cerrada'[c] = cerrada[c]
  BY <1>0, <1>1 DEF TypeOK, Aceptar
<1>2. ASSUME NEW d \in Conexiones, ClienteEnvia(d) \/ ClienteCierra(d)
      PROVE  UNCHANGED <<peticion, hilo, previas>> /\ (cerrada[c] => cerrada'[c])
  BY <1>0, <1>2 DEF TypeOK, ClienteEnvia, ClienteCierra, historia
<1>3. ASSUME NEW d \in Conexiones, Empieza(d) \/ LeeElCampo(d), UNCHANGED <<cliente, historia>>
      PROVE  UNCHANGED <<cliente, previas>> /\ hilo'[c] # "no"
  BY <1>0, <1>3 DEF TypeOK, Empieza, LeeElCampo, TrasCampo, historia
<1>4. ASSUME NEW d \in Conexiones, hilo' = [hilo EXCEPT ![d] = "terminar"],
             UNCHANGED <<cliente, historia>>
      PROVE  UNCHANGED <<cliente, previas>> /\ hilo'[c] # "no"
  BY <1>0, <1>4 DEF TypeOK, historia
<1>5. ASSUME NEW d \in Conexiones, RegistrarOperacion(d) \/ VolverDelRegistro(d) \/ Ejecutar(d)
      PROVE  UNCHANGED <<cliente, previas>> /\ hilo'[c] # "no"
  BY <1>0, <1>5 DEF TypeOK, RegistrarOperacion, VolverDelRegistro, Ejecutar, TrasRegistrar, historia
<1>6. ASSUME NEW d \in Conexiones, ResponderBien(d, "operacion") \/ Sigpipe(d) \/ Terminar(d)
      PROVE  UNCHANGED <<cliente, previas>> /\ hilo'[c] # "no"
  BY <1>0, <1>6 DEF TypeOK, ResponderBien, Sigpipe, Terminar, Cerrar, historia
<1>7. ASSUME NEW a, Atender(a) PROVE UNCHANGED <<cliente, previas, hilo>>
  BY <1>7 DEF Atender, historia
<1>8. ASSUME NEW d \in Conexiones, LeerOperacion(d) \/ LeerCampo(d)
      PROVE  UNCHANGED <<cliente, historia>>
  BY <1>8 DEF LeerOperacion, LeerCampo
<1>9. /\ peticion'[c] = peticion[c] /\ hilo'[c] # "no" /\ previas'[c] = previas[c]
      /\ cerrada[c] => cerrada'[c]
  BY <1>1, <1>2, <1>3, <1>4, <1>5, <1>6, <1>7, <1>8, PasosSanos DEF cliente
<1> QED
  BY <1>9 DEF Hecha

\* What a step writes in the log and in the history.
Apuntada(c) ==
  \/ /\ hilo[c] = "registrar" /\ hilo'[c] # "registrar"
     /\ llamadas' \in {llamadas, llamadas \cup {Hecha(c)}}
     /\ sin_registrar' \in {sin_registrar, sin_registrar \cup {Hecha(c)}}
     /\ UNCHANGED <<impresas, ejecutadas>>
  \/ /\ hilo[c] = "espera"
     /\ sin_registrar' \in {sin_registrar, sin_registrar \cup {Hecha(c)}}
     /\ UNCHANGED <<llamadas, impresas, ejecutadas>>
  \/ /\ hilo[c] = "ejecutar"
     /\ ejecutadas' = ejecutadas \cup {Hecha(c)}
     /\ UNCHANGED registro

LEMMA LibrosSanos ==
  ASSUME Sana, Next
  PROVE  \/ UNCHANGED <<registro, ejecutadas>>
         \/ \E c \in Conexiones : Apuntada(c)
         \/ \E a \in llamadas : Atender(a)
<1>0. TypeOK
  BY DEF Sana, General
<1>1. ASSUME NEW c \in Conexiones, RegistrarOperacion(c) PROVE Apuntada(c)
  <2>1. hilo[c] = "registrar" /\ Anotacion(c) = Hecha(c)
    BY <1>1, AnotacionSana DEF RegistrarOperacion
  <2>2. hilo'[c] # "registrar"
    BY <1>0, <1>1 DEF TypeOK, RegistrarOperacion, TrasRegistrar
  <2> QED
    BY <1>1, <2>1, <2>2 DEF RegistrarOperacion, Apuntada, historia
<1>2. ASSUME NEW c \in Conexiones, VolverDelRegistro(c) PROVE Apuntada(c)
  <2>1. hilo[c] = "espera" /\ Anotacion(c) = Hecha(c)
    BY <1>2, AnotacionSana DEF VolverDelRegistro
  <2> QED
    BY <1>2, <2>1 DEF VolverDelRegistro, Apuntada, historia
<1>3. ASSUME NEW c \in Conexiones, Ejecutar(c) PROVE Apuntada(c)
  <2>1. hilo[c] = "ejecutar" /\ Anotacion(c) = Hecha(c)
    BY <1>3, AnotacionSana DEF Ejecutar
  <2> QED
    BY <1>3, <2>1 DEF Ejecutar, Apuntada
<1> QED
  BY <1>1, <1>2, <1>3, PasosSanos
  DEF Aceptar, ClienteEnvia, ClienteCierra, LeerOperacion, LeerCampo, ResponderBien, Sigpipe,
      Terminar, Cerrar, historia

\* Printing a line adds it to those that were there.
LEMMA Impresion ==
  ASSUME TypeOK, NEW a \in llamadas, Atender(a)
  PROVE  /\ llamadas' = llamadas \ {a} /\ UNCHANGED <<sin_registrar, ejecutadas, previas, hilo, leidos>>
         /\ Len(impresas) \in Nat
         /\ DOMAIN impresas = 1..Len(impresas) /\ DOMAIN impresas' = 1..(Len(impresas) + 1)
         /\ impresas'[Len(impresas) + 1] = a
         /\ \A i \in 1..Len(impresas) : impresas'[i] = impresas[i]
<1>1. impresas \in Seq(Nota) /\ a \in Nota
  BY DEF TypeOK
<1>2. impresas' = Append(impresas, a)
  BY DEF Atender, Imprimir
<1>3. /\ Len(impresas') = Len(impresas) + 1 /\ Len(impresas) \in Nat /\ impresas' \in Seq(Nota)
      /\ DOMAIN impresas = 1..Len(impresas) /\ DOMAIN impresas' = 1..Len(impresas')
      /\ impresas'[Len(impresas) + 1] = a
      /\ \A i \in 1..Len(impresas) : impresas'[i] = impresas[i]
  BY <1>1, <1>2, AppendProperties, LenProperties
<1> QED
  BY <1>3 DEF Atender, historia

Lineas == {impresas[i] : i \in DOMAIN impresas}

LEMMA LineasTras ==
  ASSUME TypeOK, NEW a \in llamadas, Atender(a)
  PROVE  Lineas' = Lineas \cup {a}
<1>1. Len(impresas) \in Nat
  BY Impresion
<1>2. Lineas' \subseteq Lineas \cup {a}
  <2> SUFFICES ASSUME NEW i \in DOMAIN impresas' PROVE impresas'[i] \in Lineas \cup {a}
    BY DEF Lineas
  <2>1. i \in 1..Len(impresas) \/ i = Len(impresas) + 1
    BY <1>1, Impresion
  <2> QED
    BY <2>1, Impresion DEF Lineas
<1>3. Lineas \cup {a} \subseteq Lineas'
  <2>1. Len(impresas) + 1 \in DOMAIN impresas' /\ DOMAIN impresas \subseteq DOMAIN impresas'
    BY <1>1, Impresion
  <2> QED
    BY <2>1, Impresion DEF Lineas
<1> QED
  BY <1>2, <1>3

LEMMA HechasPaso ==
  ASSUME Sana, Next
  PROVE  SoloHechas'
<1>0. TypeOK /\ SoloHechas
  BY DEF Sana, General, Ordenada
<1> DEFINE Todas == ejecutadas \cup llamadas \cup sin_registrar \cup Lineas
<1>1. \A a \in Todas' : a \in Todas \/ \E c \in Conexiones : hilo[c] # "no" /\ a = Hecha(c)
  <2>1. CASE UNCHANGED <<registro, ejecutadas>>
    BY <2>1 DEF registro, Lineas
  <2>2. ASSUME NEW c \in Conexiones, Apuntada(c)
        PROVE  \A a \in Todas' : a \in Todas \/ (a = Hecha(c) /\ hilo[c] # "no")
    BY <2>2 DEF Apuntada, registro, Lineas
  <2>3. ASSUME NEW a \in llamadas, Atender(a) PROVE Todas' \subseteq Todas
    BY <1>0, <2>3, LineasTras, Impresion
  <2> QED
    BY <2>1, <2>2, <2>3, LibrosSanos
<1>2. \A a \in Todas : \E c \in Conexiones : hilo[c] # "no" /\ a = Hecha(c)
  BY <1>0 DEF SoloHechas, Lineas
<1>3. \A a \in Todas' : \E c \in Conexiones : hilo'[c] # "no" /\ a = Hecha(c)'
  BY <1>1, <1>2, HechaIgual
<1> QED
  BY <1>3 DEF SoloHechas, Lineas

LEMMA RespondidasPaso ==
  ASSUME Sana, Next
  PROVE  Respondidas'
<1> SUFFICES ASSUME NEW c \in Conexiones
             PROVE  /\ hilo'[c] = "responder" => Hecha(c)' \in ejecutadas'
                    /\ respuestas'[c] > 0 =>
                         respuestas'[c] = 1 /\ leidos'[c] = Todos(c)' /\ Hecha(c)' \in ejecutadas'
  BY DEF Respondidas
<1>0. TypeOK /\ Empezadas /\ EnPeticion /\ SuDescriptor
  BY DEF Sana, General, Ordenada
<1>v. /\ hilo[c] = "responder" => Hecha(c) \in ejecutadas
      /\ respuestas[c] > 0 =>
           respuestas[c] = 1 /\ leidos[c] = Todos(c) /\ Hecha(c) \in ejecutadas
      /\ Suyo(c) /\ respuestas[c] \in Nat
  BY <1>0, Cuentas, SuyoEsDescriptor DEF Sana, Ordenada, Respondidas
<1>e. ejecutadas \subseteq ejecutadas'
  BY LibrosSanos DEF Apuntada, Atender, historia
<1>t. Todos(c)' = 1 + Campos[peticion'[c]]
  BY DEF Todos
<1>1. CASE hilo[c] = "no"
  <2>1. hilo'[c] # "responder" /\ respuestas'[c] = respuestas[c]
    <3>1. ASSUME NEW d \in Conexiones, Aceptar(d) PROVE hilo'[c] # "responder" /\ UNCHANGED respuestas
      BY <1>0, <1>1, <3>1 DEF TypeOK, Aceptar
    <3>2. ASSUME NEW d \in Conexiones, RegistrarOperacion(d) \/ VolverDelRegistro(d) \/ Ejecutar(d)
          PROVE  hilo'[c] # "responder" /\ UNCHANGED respuestas
      BY <1>0, <1>1, <3>2 DEF TypeOK, RegistrarOperacion, VolverDelRegistro, Ejecutar, TrasRegistrar
    <3>3. ASSUME NEW d \in Conexiones, ResponderBien(d, "operacion")
          PROVE  hilo'[c] # "responder" /\ respuestas'[c] = respuestas[c]
      BY <1>0, <1>1, <3>3, RespuestaSana DEF TypeOK
    <3>4. ASSUME NEW d \in Conexiones, LeerOperacion(d), Empieza(d)
          PROVE  hilo'[c] # "responder" /\ UNCHANGED respuestas
      BY <1>0, <1>1, <3>4 DEF TypeOK, Empieza, LeerOperacion
    <3>5. ASSUME NEW d \in Conexiones, LeerCampo(d), LeeElCampo(d)
          PROVE  hilo'[c] # "responder" /\ UNCHANGED respuestas
      BY <1>0, <1>1, <3>5 DEF TypeOK, LeeElCampo, LeerCampo
    <3>6. ASSUME NEW d \in Conexiones, LeerOperacion(d), hilo' = [hilo EXCEPT ![d] = "terminar"]
          PROVE  hilo'[c] # "responder" /\ UNCHANGED respuestas
      BY <1>0, <1>1, <3>6 DEF TypeOK, LeerOperacion
    <3>7. ASSUME NEW d \in Conexiones,
                 ClienteEnvia(d) \/ ClienteCierra(d) \/ Sigpipe(d) \/ Terminar(d)
          PROVE  hilo'[c] # "responder" /\ UNCHANGED respuestas
      BY <1>0, <1>1, <3>7 DEF TypeOK, ClienteEnvia, ClienteCierra, Sigpipe, Terminar, Cerrar
    <3>8. ASSUME NEW a, Atender(a) PROVE hilo'[c] # "responder" /\ UNCHANGED respuestas
      BY <1>1, <3>8 DEF Atender
    <3> QED
      BY <3>1, <3>2, <3>3, <3>4, <3>5, <3>6, <3>7, <3>8, PasosSanos
  <2>2. respuestas[c] = 0
    BY <1>0, <1>1 DEF Empezadas
  <2> QED
    BY <2>1, <2>2
<1>2. CASE hilo[c] # "no"
  <2>0. Hecha(c)' = Hecha(c) /\ Todos(c)' = Todos(c) /\ peticion'[c] = peticion[c]
    BY <1>2, HechaIgual DEF Todos
  <2>1. ASSUME UNCHANGED <<leidos, respuestas>>, hilo'[c] = "responder" => hilo[c] = "responder"
        PROVE  /\ hilo'[c] = "responder" => Hecha(c)' \in ejecutadas'
               /\ respuestas'[c] > 0 =>
                    respuestas'[c] = 1 /\ leidos'[c] = Todos(c)' /\ Hecha(c)' \in ejecutadas'
    BY <1>v, <1>e, <2>0, <2>1
  <2>2. ASSUME NEW d \in Conexiones, Aceptar(d)
        PROVE  UNCHANGED <<leidos, respuestas>> /\ (hilo'[c] = "responder" => hilo[c] = "responder")
    BY <1>0, <2>2 DEF TypeOK, Aceptar
  <2>3. ASSUME NEW d \in Conexiones, ClienteEnvia(d) \/ ClienteCierra(d) \/ Sigpipe(d) \/ Terminar(d)
        PROVE  UNCHANGED <<leidos, respuestas>> /\ (hilo'[c] = "responder" => hilo[c] = "responder")
    BY <1>0, <2>3 DEF TypeOK, ClienteEnvia, ClienteCierra, Sigpipe, Terminar, Cerrar
  <2>4. ASSUME NEW d \in Conexiones, LeerOperacion(d), hilo' = [hilo EXCEPT ![d] = "terminar"],
               UNCHANGED leidos
        PROVE  UNCHANGED <<leidos, respuestas>> /\ (hilo'[c] = "responder" => hilo[c] = "responder")
    BY <1>0, <2>4 DEF TypeOK, LeerOperacion
  <2>5. ASSUME NEW d \in Conexiones, RegistrarOperacion(d) \/ VolverDelRegistro(d)
        PROVE  UNCHANGED <<leidos, respuestas>> /\ (hilo'[c] = "responder" => hilo[c] = "responder")
    BY <1>0, <2>5 DEF TypeOK, RegistrarOperacion, VolverDelRegistro, TrasRegistrar
  <2>6. ASSUME NEW a, Atender(a)
        PROVE  UNCHANGED <<leidos, respuestas>> /\ (hilo'[c] = "responder" => hilo[c] = "responder")
    BY <2>6 DEF Atender
  <2>7. ASSUME NEW d \in Conexiones, (LeerOperacion(d) /\ Empieza(d)) \/ (LeerCampo(d) /\ LeeElCampo(d))
        PROVE  /\ UNCHANGED respuestas
               /\ \/ hilo'[c] = hilo[c] /\ leidos'[c] = leidos[c]
                  \/ hilo'[c] # "responder" /\ respuestas[c] = 0
    <3>1. UNCHANGED respuestas
      BY <2>7 DEF LeerOperacion, LeerCampo
    <3>2. CASE c # d
      <4>1. CASE Empieza(d)
        BY <1>0, <3>1, <3>2, <4>1 DEF TypeOK, Empieza
      <4>2. CASE LeeElCampo(d)
        BY <1>0, <3>1, <3>2, <4>2 DEF TypeOK, LeeElCampo
      <4> QED
        BY <2>7, <4>1, <4>2
    <3>3. CASE c = d /\ Empieza(d)
      <4>1. leidos[c] = 0 /\ hilo'[c] = "campo" /\ hilo[c] = "operacion"
        BY <1>0, <3>3 DEF TypeOK, Empieza
      <4>2. Campos[peticion[c]] \in 1..4
        BY <1>0, <4>1, OperacionesValidas, CamposCotas DEF Empezadas
      <4>3. ~(respuestas[c] > 0)
        BY <1>v, <4>1, <4>2 DEF Todos
      <4> QED
        BY <1>v, <3>1, <4>1, <4>3
    <3>4. CASE c = d /\ LeeElCampo(d)
      <4>1. hilo[c] = "campo" /\ hilo'[c] # "responder"
        BY <1>0, <3>4 DEF TypeOK, LeeElCampo, TrasCampo
      <4> QED
        BY <1>v, <3>1, <4>1 DEF Suyo
    <3> QED
      BY <2>7, <3>2, <3>3, <3>4
  <2>8. ASSUME NEW d \in Conexiones, Ejecutar(d)
        PROVE  /\ hilo'[c] = "responder" => Hecha(c)' \in ejecutadas'
               /\ UNCHANGED <<leidos, respuestas>>
    <3>1. hilo'[c] = "responder" => hilo[c] = "responder" \/ c = d
      BY <1>0, <2>8 DEF TypeOK, Ejecutar
    <3>2. Anotacion(d) \in ejecutadas' /\ Anotacion(d) = Hecha(d)
      BY <2>8, AnotacionSana DEF Ejecutar
    <3> QED
      BY <1>v, <1>e, <2>0, <2>8, <3>1, <3>2 DEF Ejecutar
  <2>9. ASSUME NEW d \in Conexiones, ResponderBien(d, "operacion")
        PROVE  /\ hilo'[c] = "responder" => Hecha(c)' \in ejecutadas'
               /\ respuestas'[c] > 0 =>
                    respuestas'[c] = 1 /\ leidos'[c] = Todos(c)' /\ Hecha(c)' \in ejecutadas'
    <3>1. /\ hilo[d] = "responder" /\ hilo' = [hilo EXCEPT ![d] = "operacion"]
          /\ respuestas' = [respuestas EXCEPT ![d] = 1] /\ UNCHANGED leidos
      BY <2>9, RespuestaSana
    <3>2. CASE c = d
      <4>1. hilo'[c] = "operacion" /\ respuestas'[c] = 1
        BY <1>0, <3>1, <3>2 DEF TypeOK
      <4>2. leidos[c] = Todos(c) /\ Hecha(c) \in ejecutadas
        BY <1>0, <1>v, <3>1, <3>2 DEF Suyo, EnPeticion, Todos
      <4> QED
        BY <1>e, <2>0, <3>1, <4>1, <4>2
    <3>3. CASE c # d
      <4>1. hilo'[c] = hilo[c] /\ respuestas'[c] = respuestas[c]
        BY <1>0, <3>1, <3>3 DEF TypeOK
      <4> QED
        BY <1>v, <1>e, <2>0, <3>1, <4>1
    <3> QED
      BY <3>2, <3>3
  <2>10. ASSUME NEW d \in Conexiones, (LeerOperacion(d) /\ Empieza(d)) \/ (LeerCampo(d) /\ LeeElCampo(d))
        PROVE  /\ hilo'[c] = "responder" => Hecha(c)' \in ejecutadas'
               /\ respuestas'[c] > 0 =>
                    respuestas'[c] = 1 /\ leidos'[c] = Todos(c)' /\ Hecha(c)' \in ejecutadas'
    BY <1>v, <1>e, <2>0, <2>7, <2>10
  <2>11. ASSUME NEW d \in Conexiones, Ejecutar(d)
        PROVE  /\ hilo'[c] = "responder" => Hecha(c)' \in ejecutadas'
               /\ respuestas'[c] > 0 =>
                    respuestas'[c] = 1 /\ leidos'[c] = Todos(c)' /\ Hecha(c)' \in ejecutadas'
    BY <1>v, <1>e, <2>0, <2>8, <2>11
  <2> QED
    BY <2>1, <2>2, <2>3, <2>4, <2>5, <2>6, <2>9, <2>10, <2>11, PasosSanos
<1> QED
  BY <1>1, <1>2

\* A thread that has made its call has read past the fields it logs.
LEMMA SinLlamarAntes ==
  ASSUME Sana, Next, NEW c \in Conexiones, hilo[c] # "no", SinLlamar(c)'
  PROVE  SinLlamar(c)
<1>0. TypeOK /\ SuDescriptor /\ EnPeticion
  BY DEF Sana, General, Ordenada
<1> DEFINE k == CamposParaRegistrar(peticion[c])
<1>1. SinLlamar(c)' <=> hilo'[c] = "registrar" \/ leidos'[c] < 1 + k
  BY HechaIgual DEF SinLlamar
<1>2. k \in Nat /\ leidos[c] \in Nat
  BY <1>0, Cuentas DEF CamposParaRegistrar
<1>3. leidos'[c] = leidos[c] \/ leidos'[c] = leidos[c] + 1
  <2>1. CASE UNCHANGED leidos
    BY <2>1
  <2>2. ASSUME NEW d \in Conexiones, Empieza(d) \/ LeeElCampo(d)
        PROVE  leidos'[c] = leidos[c] \/ leidos'[c] = leidos[c] + 1
    BY <1>0, <1>2, <2>2 DEF TypeOK, Empieza, LeeElCampo
  <2> QED
    BY <2>1, <2>2, PasosSanos
    DEF Aceptar, ClienteEnvia, ClienteCierra, RegistrarOperacion, VolverDelRegistro, Ejecutar,
        ResponderBien, Sigpipe, Terminar, Cerrar, Atender
<1>4. leidos'[c] < 1 + k => leidos[c] < 1 + k
  <2> DEFINE a == leidos[c]
             b == leidos'[c]
  <2> HIDE DEF a, b, k
  <2>1. k \in Nat /\ a \in Nat /\ (b = a \/ b = a + 1)
    BY <1>2, <1>3 DEF a, b, k
  <2>2. b < 1 + k => a < 1 + k
    BY <2>1
  <2> QED
    BY <2>2 DEF a, b, k
<1>5. hilo'[c] = "registrar" => hilo[c] = "registrar" \/ leidos[c] < 1 + k
  <2>1. ASSUME NEW d \in Conexiones, LeeElCampo(d), hilo'[c] = "registrar"
        PROVE  hilo[c] = "registrar" \/ leidos[c] < 1 + k
    <3>1. CASE c # d
      BY <1>0, <2>1, <3>1 DEF TypeOK, LeeElCampo
    <3>2. CASE c = d
      <4>1. hilo[c] = "campo" /\ TrasCampo(op[c], n[c] + 1) = "registrar"
        BY <1>0, <2>1, <3>2 DEF TypeOK, LeeElCampo
      <4>2. op[c] = peticion[c] /\ leidos[c] = 1 + n[c] /\ n[c] \in 0..4
        BY <1>0, <4>1, Cuentas DEF SuDescriptor
      <4>3. n[c] + 1 = k
        BY <4>1, <4>2 DEF TrasCampo
      <4> QED
        BY <1>2, <4>2, <4>3
    <3> QED
      BY <3>1, <3>2
  <2>2. ASSUME NEW d \in Conexiones, Empieza(d), hilo'[c] = "registrar"
        PROVE  hilo[c] = "registrar"
    BY <1>0, <2>2 DEF TypeOK, Empieza
  <2>3. ASSUME NEW d \in Conexiones, hilo' = [hilo EXCEPT ![d] = "terminar"],
               hilo'[c] = "registrar"
        PROVE  hilo[c] = "registrar"
    BY <1>0, <2>3 DEF TypeOK
  <2>4. ASSUME NEW d \in Conexiones,
               Aceptar(d) \/ ClienteEnvia(d) \/ ClienteCierra(d) \/ RegistrarOperacion(d)
                 \/ VolverDelRegistro(d) \/ Ejecutar(d),
               hilo'[c] = "registrar"
        PROVE  hilo[c] = "registrar"
    BY <1>0, <2>4 DEF TypeOK, Aceptar, ClienteEnvia, ClienteCierra, RegistrarOperacion,
                      VolverDelRegistro, Ejecutar, TrasRegistrar
  <2>5. ASSUME NEW d \in Conexiones,
               ResponderBien(d, "operacion") \/ Sigpipe(d) \/ Terminar(d),
               hilo'[c] = "registrar"
        PROVE  hilo[c] = "registrar"
    BY <1>0, <2>5 DEF TypeOK, ResponderBien, Sigpipe, Terminar, Cerrar
  <2>6. ASSUME NEW a, Atender(a) PROVE UNCHANGED hilo
    BY <2>6 DEF Atender
  <2> QED
    BY <2>1, <2>2, <2>3, <2>4, <2>5, <2>6, PasosSanos
<1> QED
  BY <1>1, <1>4, <1>5 DEF SinLlamar

LEMMA HechasDistintas ==
  ASSUME NEW c, NEW d, Hecha(c) = Hecha(d)
  PROVE  c = d
<1>1. Hecha(c).hilo = c /\ Hecha(d).hilo = d
  BY DEF Hecha
<1> QED
  BY <1>1

\* Nothing was logged of a connection that had not been accepted.
LEMMA SinAceptar ==
  ASSUME Sana, NEW c \in Conexiones, hilo[c] = "no", NEW a, a.hilo = c
  PROVE  a \notin llamadas /\ ~Impresa(a) /\ a \notin ejecutadas
<1>1. SoloHechas
  BY DEF Sana, Ordenada
<1>2. ASSUME NEW d \in Conexiones, hilo[d] # "no", a = Hecha(d) PROVE FALSE
  <2>1. Hecha(d).hilo = d
    BY DEF Hecha
  <2> QED
    BY <1>2, <2>1
<1> QED
  BY <1>1, <1>2 DEF SoloHechas, Impresa

LEMMA ImpresaEsLinea == \A a : (Impresa(a) <=> a \in Lineas) /\ (Impresa(a)' <=> a \in Lineas')
BY DEF Impresa, Lineas

LEMMA LlamadaPaso ==
  ASSUME Sana, Next
  PROVE  LlamadaUnaVez'
<1>0. TypeOK /\ SoloHechas /\ LlamadaUnaVez
  BY DEF Sana, General, Ordenada
\* Of a connection that has made no call nothing was written, before this step ...
<1>1. ASSUME NEW c \in Conexiones, SinLlamar(c)'
      PROVE  Hecha(c)' \notin llamadas /\ Hecha(c)' \notin Lineas
  <2>1. CASE hilo[c] = "no"
    <3>1. Hecha(c)'.hilo = c
      BY DEF Hecha
    <3> QED
      BY <2>1, <3>1, SinAceptar, ImpresaEsLinea
  <2>2. CASE hilo[c] # "no"
    BY <1>0, <1>1, <2>2, SinLlamarAntes, HechaIgual, ImpresaEsLinea DEF LlamadaUnaVez
  <2> QED
    BY <2>1, <2>2
\* ... and the step only writes of the thread that calls.
<1>2. ASSUME NEW c \in Conexiones, SinLlamar(c)'
      PROVE  Hecha(c)' \notin llamadas' /\ Hecha(c)' \notin Lineas'
  <2>1. CASE UNCHANGED <<registro, ejecutadas>>
    BY <1>1, <1>2, <2>1 DEF registro, Lineas
  <2>2. ASSUME NEW d \in Conexiones, Apuntada(d)
        PROVE  Hecha(c)' \notin llamadas' /\ Hecha(c)' \notin Lineas'
    <3>1. /\ UNCHANGED impresas
          /\ \/ llamadas' = llamadas
             \/ /\ hilo[d] = "registrar" /\ hilo'[d] # "registrar"
                /\ llamadas' = llamadas \cup {Hecha(d)}
      BY <2>2 DEF Apuntada, registro
    <3>0. Lineas' = Lineas
      BY <3>1 DEF Lineas
    <3>2. CASE llamadas' = llamadas
      BY <1>1, <1>2, <3>0, <3>2
    <3>3. CASE hilo[d] = "registrar" /\ hilo'[d] # "registrar" /\ llamadas' = llamadas \cup {Hecha(d)}
      <4>1. Hecha(c)' # Hecha(d)
        <5> SUFFICES ASSUME Hecha(c)' = Hecha(d) PROVE FALSE
          OBVIOUS
        <5>1. Hecha(c)'.hilo = c /\ Hecha(d).hilo = d
          BY DEF Hecha
        <5>2. c = d
          BY <5>1
        <5>3. peticion'[c] = peticion[c]
          BY <3>3, <5>2, HechaIgual
        <5>4. leidos'[c] < 1 + CamposParaRegistrar(peticion[c])
          BY <1>2, <3>3, <5>2, <5>3 DEF SinLlamar
        <5>5. leidos'[c] = leidos[c]
          <6>1. \A x \in Conexiones : Empieza(x) \/ LeeElCampo(x) => hilo[x] # "registrar"
            BY DEF Empieza, LeeElCampo
          <6>2. \A x \in Conexiones : Empieza(x) \/ LeeElCampo(x) => hilo'[c] = hilo[c]
            BY <1>0, <3>3, <5>2, <6>1 DEF TypeOK, Empieza, LeeElCampo
          <6> QED
            BY <3>3, <5>2, <6>2, PasosSanos
            DEF Aceptar, ClienteEnvia, ClienteCierra, RegistrarOperacion, VolverDelRegistro,
                Ejecutar, ResponderBien, Sigpipe, Terminar, Cerrar, Atender
        <5>6. leidos[c] = 1 + CamposParaRegistrar(peticion[c])
          BY <3>3, <5>2 DEF Sana, General, EnPeticion, Ordenada, SuDescriptor
        <5>7. CamposParaRegistrar(peticion[c]) \in Nat
          BY DEF CamposParaRegistrar
        <5> QED
          BY <5>4, <5>5, <5>6, <5>7
      <4> QED
        BY <1>1, <1>2, <3>0, <3>3, <4>1
    <3> QED
      BY <3>1, <3>2, <3>3
  <2>3. ASSUME NEW a \in llamadas, Atender(a)
        PROVE  Hecha(c)' \notin llamadas' /\ Hecha(c)' \notin Lineas'
    BY <1>0, <1>1, <1>2, <2>3, Impresion, LineasTras
  <2> QED
    BY <2>1, <2>2, <2>3, LibrosSanos
<1>3. ASSUME NEW a \in llamadas' PROVE a \notin Lineas'
  <2>0. \A x \in llamadas : x \notin Lineas
    BY <1>0, ImpresaEsLinea DEF LlamadaUnaVez
  <2>1. CASE UNCHANGED <<registro, ejecutadas>>
    BY <1>3, <2>0, <2>1 DEF registro, Lineas
  <2>2. ASSUME NEW d \in Conexiones, Apuntada(d) PROVE a \notin Lineas'
    <3>1. UNCHANGED impresas /\ (a \in llamadas \/ (hilo[d] = "registrar" /\ a = Hecha(d)))
      BY <1>3, <2>2 DEF Apuntada, registro
    <3>0. Lineas' = Lineas
      BY <3>1 DEF Lineas
    <3>2. hilo[d] = "registrar" => Hecha(d) \notin Lineas
      BY <1>0, ImpresaEsLinea DEF LlamadaUnaVez, SinLlamar
    <3> QED
      BY <2>0, <3>0, <3>1, <3>2
  <2>3. ASSUME NEW b \in llamadas, Atender(b) PROVE a \notin Lineas'
    BY <1>0, <1>3, <2>0, <2>3, Impresion, LineasTras
  <2> QED
    BY <2>1, <2>2, <2>3, LibrosSanos
<1> QED
  BY <1>2, <1>3, ImpresaEsLinea DEF LlamadaUnaVez, Impresa, Lineas

\* An answer once written stays.
LEMMA RespuestasQuedan ==
  ASSUME Sana, Next, NEW c \in Conexiones
  PROVE  /\ respuestas[c] > 0 => respuestas'[c] > 0
         /\ previas'[c] \in {previas[c], {d \in Conexiones : respuestas[d] > 0}}
<1>0. TypeOK
  BY DEF Sana, General
<1>1. ASSUME NEW d \in Conexiones, Aceptar(d)
      PROVE  /\ UNCHANGED respuestas
             /\ previas'[c] \in {previas[c], {x \in Conexiones : respuestas[x] > 0}}
  BY <1>0, <1>1 DEF TypeOK, Aceptar
<1>2. ASSUME NEW d \in Conexiones, ResponderBien(d, "operacion")
      PROVE  (respuestas[c] > 0 => respuestas'[c] > 0) /\ UNCHANGED previas
  <2>1. respuestas' = [respuestas EXCEPT ![d] = 1] /\ UNCHANGED previas
    BY <1>2, RespuestaSana DEF historia
  <2>2. respuestas'[c] = respuestas[c] \/ respuestas'[c] = 1
    BY <1>0, <2>1 DEF TypeOK
  <2> QED
    BY <2>1, <2>2
<1> QED
  BY <1>1, <1>2, PasosSanos
  DEF ClienteEnvia, ClienteCierra, LeerOperacion, LeerCampo, RegistrarOperacion,
      VolverDelRegistro, Ejecutar, Sigpipe, Terminar, Cerrar, Atender, historia

LEMMA PreviasPaso ==
  ASSUME Sana, Next
  PROVE  PreviasRespondidas'
<1> SUFFICES ASSUME NEW c \in Conexiones, NEW d \in previas'[c] PROVE respuestas'[d] > 0
  BY DEF PreviasRespondidas
<1>1. d \in Conexiones /\ respuestas[d] > 0
  BY RespuestasQuedan DEF Sana, General, TypeOK, Ordenada, PreviasRespondidas
<1> QED
  BY <1>1, RespuestasQuedan

LEMMA FielPaso ==
  ASSUME Sana, Next
  PROVE  RegistroFiel'
<1>0. TypeOK /\ SoloHechas /\ RegistradaAntes /\ Respondidas /\ LlamadaUnaVez
      /\ PreviasRespondidas
  BY DEF Sana, General, Ordenada
<1>f. \A i, j \in DOMAIN impresas : i < j =>
        /\ impresas[i] # impresas[j]
        /\ impresas[j].hilo \in previas[impresas[i].hilo] => impresas[j] \in sin_registrar
  BY DEF Sana, Ordenada, RegistroFiel
<1> SUFFICES ASSUME NEW i \in DOMAIN impresas', NEW j \in DOMAIN impresas', i < j
             PROVE  /\ impresas'[i] # impresas'[j]
                    /\ impresas'[j].hilo \in previas'[impresas'[i].hilo] =>
                         impresas'[j] \in sin_registrar'
  BY DEF RegistroFiel
<1>1. CASE UNCHANGED impresas
  <2>1. sin_registrar \subseteq sin_registrar'
    BY LibrosSanos DEF Apuntada, Atender, registro
  <2>2. previas'[impresas[i].hilo] = previas[impresas[i].hilo]
    <3>1. PICK c \in Conexiones : hilo[c] # "no" /\ impresas[i] = Hecha(c)
      BY <1>0, <1>1 DEF SoloHechas
    <3>2. impresas[i].hilo = c
      BY <3>1 DEF Hecha
    <3> QED
      BY <3>1, <3>2, HechaIgual
  <2> QED
    BY <1>f, <1>1, <2>1, <2>2
<1>2. ASSUME NEW a \in llamadas, Atender(a)
      PROVE  /\ impresas'[i] # impresas'[j]
             /\ impresas'[j].hilo \in previas'[impresas'[i].hilo] =>
                  impresas'[j] \in sin_registrar'
  <2>1. /\ sin_registrar' = sin_registrar /\ previas' = previas
        /\ Len(impresas) \in Nat
        /\ DOMAIN impresas = 1..Len(impresas) /\ DOMAIN impresas' = 1..(Len(impresas) + 1)
        /\ impresas'[Len(impresas) + 1] = a
        /\ \A x \in 1..Len(impresas) : impresas'[x] = impresas[x]
    BY <1>0, <1>2, Impresion
  <2>2. i \in DOMAIN impresas /\ impresas'[i] = impresas[i]
        /\ (j \in DOMAIN impresas \/ j = Len(impresas) + 1)
    BY <2>1
  <2>3. CASE j \in DOMAIN impresas
    BY <1>f, <2>1, <2>2, <2>3
  <2>4. CASE j = Len(impresas) + 1
    <3>1. impresas[i] # a /\ ~Impresa(a)
      BY <1>0, <2>2 DEF LlamadaUnaVez, Impresa
    <3>2. ASSUME a.hilo \in previas[impresas[i].hilo] PROVE a \in sin_registrar
      <4>1. PICK d \in Conexiones : a = Hecha(d)
        BY <1>0 DEF SoloHechas
      <4>2. PICK c \in Conexiones : impresas[i] = Hecha(c)
        BY <1>0, <2>2 DEF SoloHechas
      <4>3. a.hilo = d /\ impresas[i].hilo = c
        BY <4>1, <4>2 DEF Hecha
      <4>4. respuestas[d] > 0
        BY <1>0, <3>2, <4>3 DEF PreviasRespondidas
      <4>5. a \in ejecutadas
        BY <1>0, <4>1, <4>4 DEF Respondidas
      <4>6. PICK b \in sin_registrar \cup Lineas : b.hilo = d
        BY <1>0, <4>3, <4>5 DEF RegistradaAntes, Anotada, Lineas
      <4>7. PICK x \in Conexiones : b = Hecha(x)
        BY <1>0, <4>6 DEF SoloHechas, Lineas
      <4>8. b = a
        BY <4>1, <4>6, <4>7 DEF Hecha
      <4> QED
        BY <3>1, <4>6, <4>8, ImpresaEsLinea
    <3> QED
      BY <2>1, <2>2, <2>4, <3>1, <3>2
  <2> QED
    BY <2>2, <2>3, <2>4
<1> QED
  BY <1>1, <1>2, LibrosSanos DEF Apuntada, registro

LEMMA CaePaso ==
  ASSUME Sana, Next
  PROVE  CaeSoloPorAbandono'
<1>0. TypeOK /\ Empezadas /\ MuertoParado /\ EnPeticion /\ SuDescriptor
  BY DEF Sana, General, Ordenada
<1> SUFFICES ASSUME ~vivo'
             PROVE  \E c \in Conexiones : cerrada'[c] /\ respuestas'[c] = 0 /\ peticion'[c] \in ConDatos
  BY DEF CaeSoloPorAbandono
<1>1. CASE ~vivo
  <2>1. PICK c \in Conexiones : cerrada[c] /\ respuestas[c] = 0 /\ peticion[c] \in ConDatos
    BY <1>1 DEF Sana, Ordenada, CaeSoloPorAbandono
  <2>2. hilo[c] # "no"
    BY <1>0, <2>1 DEF Empezadas
  <2>3. UNCHANGED respuestas
    <3>1. \A d \in Conexiones : ~ResponderBien(d, "operacion")
      BY <1>0, <1>1 DEF MuertoParado, Viva, ResponderBien
    <3> QED
      BY <3>1, PasosSanos
      DEF Aceptar, ClienteEnvia, ClienteCierra, LeerOperacion, LeerCampo, RegistrarOperacion,
          VolverDelRegistro, Ejecutar, Sigpipe, Terminar, Cerrar, Atender
  <2> QED
    BY <2>1, <2>2, <2>3, HechaIgual
<1>2. CASE vivo
  <2>1. PICK c \in Conexiones : Sigpipe(c)
    BY <1>2, PasosSanos
    DEF Aceptar, ClienteEnvia, ClienteCierra, LeerOperacion, LeerCampo, RegistrarOperacion,
        VolverDelRegistro, Ejecutar, ResponderBien, Terminar, Cerrar, Atender
  <2>2. hilo[c] = "responder" /\ op[c] \in ConDatos
        /\ \E d \in Conexiones : descriptor[my_sc[c]] = d /\ cerrada[d]
    BY <2>1 DEF Sigpipe
  <2>3. descriptor[my_sc[c]] = c /\ op[c] = peticion[c] /\ respuestas[c] = 0
    BY <1>0, <2>2 DEF SuDescriptor, Viva
  <2>4. cerrada[c] /\ respuestas[c] = 0 /\ peticion[c] \in ConDatos
    BY <2>2, <2>3
  <2> QED
    BY <2>1, <2>4 DEF Sigpipe, cliente
<1> QED
  BY <1>1, <1>2

LEMMA InvPaso == Inv /\ [Next]_vars => Inv'
<1> SUFFICES ASSUME Inv, [Next]_vars PROVE Inv'
  OBVIOUS
<1>1. General'
  BY GeneralPaso DEF Inv
<1>2. ASSUME Completas' PROVE Ordenada'
  <2>1. Sana
    BY <1>2, CompletasAntes DEF Inv, Sana
  <2>2. CASE Next
    BY <2>1, <2>2, SuyoPaso, HechasPaso, RespondidasPaso, LlamadaPaso, PreviasPaso, FielPaso,
       CaePaso DEF Ordenada
  <2>3. CASE UNCHANGED vars
    BY <2>1, <2>3
    DEF Sana, Ordenada, SuDescriptor, SoloHechas, Respondidas, LlamadaUnaVez, SinLlamar,
        PreviasRespondidas, RegistroFiel, CaeSoloPorAbandono, Completas, Viva, Todos, Hecha,
        Impresa, vars, cliente, memoria, registro, historia
  <2> QED
    BY <2>2, <2>3
<1> QED
  BY <1>1, <1>2 DEF Inv

LEMMA InvInicial == Init => Inv
<1> SUFFICES ASSUME Init PROVE Ordenada
  BY GeneralInicial DEF Inv
<1>1. SuDescriptor
  BY DEF Init, SuDescriptor, Viva, Ninguna
<1>2. SoloHechas /\ LlamadaUnaVez /\ RegistroFiel
  BY DEF Init, SoloHechas, LlamadaUnaVez, RegistroFiel, Impresa
<1>3. Respondidas /\ PreviasRespondidas /\ CaeSoloPorAbandono
  BY DEF Init, Respondidas, PreviasRespondidas, CaeSoloPorAbandono
<1> QED
  BY <1>1, <1>2, <1>3 DEF Ordenada

LEMMA InvSiempre == Spec => []Inv
BY InvInicial, InvPaso, PTL DEF Spec

\* With requests that are not cut short, descriptor numbers that are given out again
\* mix nothing up: each thread reads, logs and executes its own client's request.
THEOREM NadieLeeAOtro == Spec => []CadaUnoLoSuyo
<1>1. Inv => CadaUnoLoSuyo
  <2> SUFFICES ASSUME Inv, Completas
               PROVE  /\ \A c \in Conexiones : origen[c] \subseteq {c}
                      /\ \A e \in ejecutadas \cup llamadas \cup sin_registrar : e.origen = {e.hilo}
    BY DEF CadaUnoLoSuyo
  <2>1. SuDescriptor /\ SoloHechas
    BY DEF Inv, Ordenada
  <2>2. \A c : Hecha(c).origen = {Hecha(c).hilo}
    BY DEF Hecha
  <2> QED
    BY <2>1, <2>2 DEF SuDescriptor, SoloHechas
<1> QED
  BY <1>1, InvSiempre, PTL

\* An answer means that the whole request was read and executed, once.
THEOREM RespuestaAUnaPeticion == Spec => []RespuestaFiel
<1>1. Inv => RespuestaFiel
  <2> SUFFICES ASSUME Inv, Completas, NEW c \in Conexiones, respuestas[c] > 0
               PROVE  /\ respuestas[c] = 1 /\ leidos[c] = 1 + Campos[peticion[c]]
                      /\ Cardinality({e \in ejecutadas : c \in e.origen}) = 1
    BY DEF RespuestaFiel
  <2>1. Respondidas /\ SoloHechas
    BY DEF Inv, Ordenada
  <2>2. respuestas[c] = 1 /\ leidos[c] = Todos(c) /\ Hecha(c) \in ejecutadas
    BY <2>1 DEF Respondidas
  <2>3. {e \in ejecutadas : c \in e.origen} = {Hecha(c)}
    <3>1. ASSUME NEW e \in ejecutadas, c \in e.origen PROVE e = Hecha(c)
      <4>1. PICK d \in Conexiones : e = Hecha(d)
        BY <2>1 DEF SoloHechas
      <4>2. Hecha(d).origen = {d}
        BY DEF Hecha
      <4> QED
        BY <3>1, <4>1, <4>2
    <3>2. Hecha(c).origen = {c}
      BY DEF Hecha
    <3> QED
      BY <2>2, <3>1, <3>2
  <2>4. Cardinality({Hecha(c)}) = 1
    BY FS_Singleton
  <2> QED
    BY <2>2, <2>3, <2>4 DEF Todos
<1> QED
  BY <1>1, InvSiempre, PTL

\* The log does not tell a request twice, nor a request before one that had been
\* answered when its client came, unless a call failed or timed out.
THEOREM RegistroEnOrden == Spec => []RegistroFiel
<1>1. Inv => RegistroFiel
  BY DEF Inv, Ordenada, RegistroFiel
<1> QED
  BY <1>1, InvSiempre, PTL

\* Only a client of SEND, SENDATTACH or USERS that leaves before its answer kills the
\* server.
THEOREM SoloElAbandonoMata == Spec => []CaeSoloPorAbandono
<1>1. Inv => CaeSoloPorAbandono
  BY DEF Inv, Ordenada, CaeSoloPorAbandono
<1> QED
  BY <1>1, InvSiempre, PTL
=============================================================================
