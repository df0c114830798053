-------------------------------- MODULE Relevo ------------------------------
(***************************************************************************)
(* How main (servidor.c) passes an accepted connection to the detached     *)
(* thread that serves it.  There is one struct args_hilo, which main fills *)
(* in with two writes and without m; each new thread copies it holding m,  *)
(* sets copiado and signals cv; main waits for copiado before it fills the *)
(* struct again.  Connections are numbered in the order accept returns     *)
(* them, and the thread created for connection c is thread c.              *)
(***************************************************************************)
EXTENDS Integers

CONSTANTS
  Conexiones,     \* bound of the model: how many connections accept returns
  IpDe,           \* IpDe[c]: address of the client of connection c
  PuedeFallar     \* can pthread_create fail

ASSUME RelevoSupuestos ==
  /\ Conexiones \in Nat
  /\ DOMAIN IpDe = 1..Conexiones
  /\ PuedeFallar \in BOOLEAN

Hilos == 1..Conexiones
Nadie == 0
Main  == Conexiones + 1

VARIABLES
  args_hilo,      \* the shared struct: socket and ip
  copiado,        \* the flag, 0 or 1
  m,              \* who holds the mutex: Nadie, Main or a thread
  pc,             \* where main is
  sc,             \* the connection main is working on
  hilo,           \* where each thread is
  my_sc,          \* the copies of each thread
  ip_cliente

compartido == <<args_hilo, copiado, m>>
copias     == <<my_sc, ip_cliente>>
vars       == <<compartido, pc, sc, hilo, copias>>

Init ==
  /\ args_hilo = [socket |-> 0, ip |-> 0]
  /\ copiado = 0
  /\ m = Nadie
  /\ pc = "accept"
  /\ sc = 0
  /\ hilo = [c \in Hilos |-> "no"]
  /\ my_sc = [c \in Hilos |-> 0]
  /\ ip_cliente = [c \in Hilos |-> 0]
-----------------------------------------------------------------------------
\* Mutant: the result of accept is not tested.
Accept_SinError ==
  /\ pc = "accept"
  /\ \/ sc < Conexiones /\ sc' = sc + 1
     \/ sc' = -1
  /\ pc' = "socket"
  /\ UNCHANGED <<compartido, hilo, copias>>

\* accept returns the next connection, or -1 and the whole process ends.
Accept ==
  /\ pc = "accept"
  /\ \/ sc < Conexiones /\ sc' = sc + 1 /\ pc' = "socket"
     \/ pc' = "fin" /\ UNCHANGED sc
  /\ UNCHANGED <<compartido, hilo, copias>>

PonerSocket ==
  /\ pc = "socket"
  /\ args_hilo' = [args_hilo EXCEPT !.socket = sc]
  /\ pc' = "ip"
  /\ UNCHANGED <<copiado, m, sc, hilo, copias>>

PonerIp ==
  /\ pc = "ip"
  /\ args_hilo' = [args_hilo EXCEPT !.ip = IpDe[sc]]
  /\ pc' = "crear"
  /\ UNCHANGED <<copiado, m, sc, hilo, copias>>

\* pthread_create starts thread sc.  When it fails it returns a positive error
\* number, which the test "< 0" lets through: main goes on all the same.
CrearHilo ==
  /\ pc = "crear"
  /\ \/ hilo' = [hilo EXCEPT ![sc] = "creado"]
     \/ PuedeFallar /\ hilo' = [hilo EXCEPT ![sc] = "fallido"]
  /\ pc' = "lock"
  /\ UNCHANGED <<compartido, sc, copias>>

\* Mutant: "if" instead of "while" around the wait.
MainLock_Si ==
  /\ pc \in {"lock", "despierto"}
  /\ m = Nadie
  /\ m' = Main
  /\ pc' = IF copiado = 0 /\ pc = "lock" THEN "wait" ELSE "copiado"
  /\ UNCHANGED <<args_hilo, copiado, sc, hilo, copias>>

\* main takes m, at first or when pthread_cond_wait returns, and tests copiado.
MainLock ==
  /\ pc \in {"lock", "despierto"}
  /\ m = Nadie
  /\ m' = Main
  /\ pc' = IF copiado = 0 THEN "wait" ELSE "copiado"
  /\ UNCHANGED <<args_hilo, copiado, sc, hilo, copias>>

\* pthread_cond_wait releases m and sleeps, in one step.
CondWait ==
  /\ pc = "wait"
  /\ m' = Nadie
  /\ pc' = "dormido"
  /\ UNCHANGED <<args_hilo, copiado, sc, hilo, copias>>

\* It may return with no signal.
DespertarSinMotivo ==
  /\ pc = "dormido"
  /\ pc' = "despierto"
  /\ UNCHANGED <<compartido, sc, hilo, copias>>

\* Mutant: copiado is not reset.
MainUnlock_SinReiniciar ==
  /\ pc = "copiado"
  /\ m' = Nadie
  /\ pc' = "accept"
  /\ UNCHANGED <<args_hilo, copiado, sc, hilo, copias>>

MainUnlock ==
  /\ pc = "copiado"
  /\ copiado' = 0
  /\ m' = Nadie
  /\ pc' = "accept"
  /\ UNCHANGED <<args_hilo, sc, hilo, copias>>
-----------------------------------------------------------------------------
\* The thread's first steps; none once the process has ended.
HiloLock(c) ==
  /\ pc # "fin"
  /\ hilo[c] = "creado"
  /\ m = Nadie
  /\ m' = c
  /\ hilo' = [hilo EXCEPT ![c] = "socket"]
  /\ UNCHANGED <<args_hilo, copiado, pc, sc, copias>>

CopiarSocket(c) ==
  /\ pc # "fin"
  /\ hilo[c] = "socket"
  /\ my_sc' = [my_sc EXCEPT ![c] = args_hilo.socket]
  /\ hilo' = [hilo EXCEPT ![c] = "ip"]
  /\ UNCHANGED <<compartido, pc, sc, ip_cliente>>

CopiarIp(c) ==
  /\ pc # "fin"
  /\ hilo[c] = "ip"
  /\ ip_cliente' = [ip_cliente EXCEPT ![c] = args_hilo.ip]
  /\ hilo' = [hilo EXCEPT ![c] = "avisar"]
  /\ UNCHANGED <<compartido, pc, sc, my_sc>>

\* Mutant: the signal is missing.
Avisar_SinSignal(c) ==
  /\ pc # "fin"
  /\ hilo[c] = "avisar"
  /\ copiado' = 1
  /\ m' = Nadie
  /\ hilo' = [hilo EXCEPT ![c] = "sirviendo"]
  /\ UNCHANGED <<args_hilo, pc, sc, copias>>

\* copiado = 1, the signal, which is lost if main is not asleep, and the unlock.
Avisar(c) ==
  /\ pc # "fin"
  /\ hilo[c] = "avisar"
  /\ copiado' = 1
  /\ pc' = IF pc = "dormido" THEN "despierto" ELSE pc
  /\ m' = Nadie
  /\ hilo' = [hilo EXCEPT ![c] = "sirviendo"]
  /\ UNCHANGED <<args_hilo, sc, copias>>

MainSigue ==
  \/ PonerSocket \/ PonerIp \/ CrearHilo \/ MainLock \/ CondWait \/ MainUnlock
Hilo(c) == HiloLock(c) \/ CopiarSocket(c) \/ CopiarIp(c) \/ Avisar(c)

Next == Accept \/ MainSigue \/ DespertarSinMotivo \/ \E c \in Hilos : Hilo(c)

\* The scheduler runs main and every thread that can run, and m does not elude
\* for ever a thread that asks for it: main may take it again and again, but
\* only to go back to sleep, if its wait keeps ending without a signal.  Nothing
\* obliges a client to connect.
Spec ==
  /\ Init /\ [][Next]_vars
  /\ WF_vars(MainSigue)
  /\ \A c \in Hilos : WF_vars(Hilo(c)) /\ SF_vars(HiloLock(c))
-----------------------------------------------------------------------------
TypeOK ==
  /\ args_hilo \in [socket : Nat, ip : {0} \cup {IpDe[c] : c \in Hilos}]
  /\ copiado \in {0, 1}
  /\ m \in {Nadie, Main} \cup Hilos
  /\ pc \in {"accept", "socket", "ip", "crear", "lock", "wait", "dormido",
             "despierto", "copiado", "fin"}
  /\ sc \in 0..Conexiones
  /\ hilo \in [Hilos -> {"no", "fallido", "creado", "socket", "ip", "avisar", "sirviendo"}]
  /\ my_sc \in [Hilos -> Nat]
  /\ ip_cliente \in [Hilos -> {0} \cup {IpDe[c] : c \in Hilos}]

\* The thread created for a connection serves that connection and knows its
\* client by its own address: nothing main accepts later reaches the copies.
CadaHiloLoSuyo ==
  \A c \in Hilos :
    /\ hilo[c] \in {"ip", "avisar", "sirviendo"} => my_sc[c] = c
    /\ hilo[c] \in {"avisar", "sirviendo"} => ip_cliente[c] = IpDe[c]

\* While main writes args_hilo, which it does without m, no thread has still to
\* copy it, and copiado says nothing of an earlier thread.
SinCarrera ==
  pc \in {"accept", "socket", "ip", "crear"} =>
    /\ copiado = 0
    /\ \A c \in Hilos : hilo[c] \notin {"creado", "socket", "ip", "avisar"}

\* main always gets back to accept (or has ended): no signal is lost so that a
\* connection stops the server from accepting the next ones.
MainVuelve == []<>(pc \in {"accept", "fin"})
-----------------------------------------------------------------------------
\* "Error al lanzar el hilo" is followed by a break: if a thread cannot be
\* created, main leaves its loop.
FalloTermina == (\E c \in Hilos : hilo[c] = "fallido") ~> (pc = "fin")
=============================================================================
