---------------------------- MODULE RelevoProofs ----------------------------
(***************************************************************************)
(* Proofs about Relevo for any number of connections, whether or not       *)
(* pthread_create fails.                                                   *)
(***************************************************************************)
EXTENDS Relevo, TLAPS

\* m is held exactly between the lock and the unlock of its holder.
MutexCoherente ==
  /\ m = Main <=> pc \in {"wait", "copiado"}
  /\ \A c \in Hilos : m = c <=> hilo[c] \in {"socket", "ip", "avisar"}

\* main works on connection sc: the threads of the earlier ones have copied their
\* data, those of the later ones do not exist, and copiado says which is the case
\* of thread sc.
Turno ==
  /\ \A c \in Hilos : c > sc => hilo[c] = "no"
  /\ pc # "fin" => \A c \in Hilos : c < sc => hilo[c] = "sirviendo"
  /\ pc = "accept" =>
       copiado = 0 /\ (sc \in Hilos => hilo[sc] = "sirviendo")
  /\ pc \in {"socket", "ip", "crear"} =>
       copiado = 0 /\ sc \in Hilos /\ hilo[sc] = "no"
  /\ pc \in {"lock", "wait", "dormido", "despierto"} =>
       /\ sc \in Hilos
       /\ \/ copiado = 0 /\ hilo[sc] \in {"creado", "socket", "ip", "avisar", "fallido"}
          \/ copiado = 1 /\ hilo[sc] = "sirviendo"
  /\ pc = "copiado" => copiado = 1 /\ sc \in Hilos /\ hilo[sc] = "sirviendo"

\* The struct holds the data of connection sc from the moment its thread exists.
ArgsDeTurno ==
  /\ pc \in {"ip", "crear", "lock", "wait", "dormido", "despierto"} =>
       args_hilo.socket = sc
  /\ pc \in {"crear", "lock", "wait", "dormido", "despierto"} =>
       args_hilo.ip = IpDe[sc]

Inv == TypeOK /\ MutexCoherente /\ Turno /\ ArgsDeTurno /\ CadaHiloLoSuyo

LEMMA Constantes ==
  /\ Conexiones \in Nat
  /\ Hilos \subseteq Nat \ {0}
  /\ Main \notin Hilos /\ Nadie \notin Hilos /\ Main # Nadie
  /\ \A c \in Hilos : IpDe[c] \in {IpDe[d] : d \in Hilos}
BY RelevoSupuestos DEF Hilos, Main, Nadie

LEMMA InvInicial == Init => Inv
BY Constantes DEF Init, Inv, TypeOK, MutexCoherente, Turno, ArgsDeTurno, CadaHiloLoSuyo, Hilos

LEMMA InvMain == Inv /\ (Accept \/ MainSigue \/ DespertarSinMotivo) => Inv'
<1> SUFFICES ASSUME Inv, Accept \/ MainSigue \/ DespertarSinMotivo PROVE Inv'
  OBVIOUS
<1> USE Constantes DEF Inv, TypeOK, MutexCoherente, Turno, ArgsDeTurno,
                       CadaHiloLoSuyo, compartido, copias
<1>1. CASE Accept
  BY <1>1 DEF Accept, Hilos
<1>2. CASE PonerSocket
  BY <1>2 DEF PonerSocket
<1>3. CASE PonerIp
  BY <1>3 DEF PonerIp
<1>4. CASE CrearHilo
  BY <1>4 DEF CrearHilo
<1>5. CASE MainLock
  BY <1>5 DEF MainLock
<1>6. CASE CondWait
  BY <1>6 DEF CondWait
<1>7. CASE MainUnlock
  BY <1>7 DEF MainUnlock
<1>8. CASE DespertarSinMotivo
  BY <1>8 DEF DespertarSinMotivo
<1> QED
  BY <1>1, <1>2, <1>3, <1>4, <1>5, <1>6, <1>7, <1>8 DEF MainSigue

\* A thread that takes part in the hand-off is the one main waits for.
LEMMA InvHilo == ASSUME Inv, NEW c \in Hilos, Hilo(c) PROVE Inv'
<1> USE Constantes DEF Inv, TypeOK, MutexCoherente, Turno, ArgsDeTurno,
                       CadaHiloLoSuyo, compartido, copias
<1>1. c = sc /\ pc \in {"lock", "wait", "dormido", "despierto"} /\ copiado = 0
  BY DEF Hilo, HiloLock, CopiarSocket, CopiarIp, Avisar, Hilos
<1>2. CASE HiloLock(c)
  BY <1>1, <1>2 DEF HiloLock
<1>3. CASE CopiarSocket(c)
  BY <1>1, <1>3 DEF CopiarSocket
<1>4. CASE CopiarIp(c)
  BY <1>1, <1>4 DEF CopiarIp
<1>5. CASE Avisar(c)
  BY <1>1, <1>5 DEF Avisar
<1> QED
  BY <1>2, <1>3, <1>4, <1>5 DEF Hilo

LEMMA InvSiempre == Spec => []Inv
<1>1. Inv /\ UNCHANGED vars => Inv'
  BY DEF Inv, TypeOK, MutexCoherente, Turno, ArgsDeTurno, CadaHiloLoSuyo, vars,
         compartido, copias
<1>2. Inv /\ [Next]_vars => Inv'
  BY <1>1, InvMain, InvHilo DEF Next
<1> QED
  BY <1>2, InvInicial, PTL DEF Spec

\* main's state and the copies of the threads keep their types, for any number of
\* connections: what the struct holds is always 0 or the data of some connection.
THEOREM RelevoTipo == Spec => []TypeOK
<1>1. Inv => TypeOK
  BY DEF Inv
<1> QED
  BY <1>1, InvSiempre, PTL

\* Every thread serves the connection it was created for and takes its client to
\* be at that connection's address, however late it is scheduled.
THEOREM RelevoExacto == Spec => []CadaHiloLoSuyo
<1>1. Inv => CadaHiloLoSuyo
  BY DEF Inv
<1> QED
  BY <1>1, InvSiempre, PTL

\* main never writes the shared struct while a thread has yet to copy it, though
\* it writes without the mutex.
THEOREM RelevoSinCarrera == Spec => []SinCarrera
<1>1. Inv => SinCarrera
  <2> SUFFICES ASSUME Inv, pc \in {"accept", "socket", "ip", "crear"}
               PROVE  /\ copiado = 0
                      /\ \A c \in Hilos : hilo[c] \notin {"creado", "socket", "ip", "avisar"}
    BY DEF SinCarrera
  <2>1. copiado = 0
    BY DEF Inv, Turno
  <2>2. ASSUME NEW c \in Hilos
        PROVE  hilo[c] \notin {"creado", "socket", "ip", "avisar"}
    <3>1. CASE c = sc
      BY <3>1 DEF Inv, Turno
    <3>2. CASE c # sc
      BY <3>2, Constantes DEF Inv, Turno, TypeOK
    <3> QED
      BY <3>1, <3>2
  <2> QED
    BY <2>1, <2>2
<1> QED
  BY <1>1, InvSiempre, PTL
=============================================================================
