----------------------------- MODULE Mensajeria -----------------------------
(***************************************************************************)
(* What the message service promises, independently of lists, queues and   *)
(* sockets: every accepted message has one destination; it waits for that  *)
(* destination until it is handed over to it, once, or is thrown away when *)
(* the destination stops being registered.  Gestion implements this.       *)
(***************************************************************************)
CONSTANTS
  Destinos,
  Identidades   \* what tells messages apart

VARIABLES
  esperan,      \* esperan[d]: messages accepted for d and not handed over yet
  recibidos,    \* recibidos[d]: messages handed over to d
  tirados       \* messages thrown away with their destination

vars == <<esperan, recibidos, tirados>>

Conocidos ==
  tirados \cup UNION {esperan[d] \cup recibidos[d] : d \in Destinos}

Init ==
  /\ esperan = [d \in Destinos |-> {}]
  /\ recibidos = [d \in Destinos |-> {}]
  /\ tirados = {}

\* A message that was never seen before is accepted for d.
Aceptar(d) ==
  /\ \E n \in Identidades \ Conocidos :
       esperan' = [esperan EXCEPT ![d] = @ \cup {n}]
  /\ UNCHANGED <<recibidos, tirados>>

\* A message waiting for d, and no other one, is handed over to d.
Entregar(d) ==
  /\ \E n \in esperan[d] :
       /\ esperan' = [esperan EXCEPT ![d] = @ \ {n}]
       /\ recibidos' = [recibidos EXCEPT ![d] = @ \cup {n}]
  /\ UNCHANGED tirados

\* Some destinations stop being registered and lose everything that waits for
\* them, and nothing else.
Tirar(D) ==
  /\ tirados' = tirados \cup UNION {esperan[d] : d \in D}
  /\ esperan' = [d \in Destinos |-> IF d \in D THEN {} ELSE esperan[d]]
  /\ UNCHANGED recibidos

Next ==
  \/ \E d \in Destinos : Aceptar(d) \/ Entregar(d)
  \/ \E D \in SUBSET Destinos : Tirar(D)

Spec == Init /\ [][Next]_vars
=============================================================================
