------------------------------- MODULE Colas --------------------------------
(***************************************************************************)
(* The registered users and their queues of pending messages, seen as      *)
(* sequences.  Two modules implement it: ListaEnlazada, with the nodes and *)
(* pointers of the program, and Gestion, with the operations that use the  *)
(* queues; it is what lets the second do without the first.                *)
(***************************************************************************)
EXTENDS Lista

VARIABLE colas          \* the messages each user has pending, oldest first

Vacia(S) == colas' = [u \in Usuarios |-> IF u \in S THEN <<>> ELSE colas[u]]
EnAlguna(m) == \E u \in Usuarios : \E i \in 1..Len(colas[u]) : colas[u][i] = m

\* A new user has nothing pending.
Registrar(u) == Alta(u) /\ Vacia({u})

\* The queue goes with the user, and so do those of the users that are lost.
Borrar(u) == Baja(u) /\ Vacia(Fuera(u))

\* SEND puts a message that is nowhere else at the end ...
Encolar(u) ==
  LET m == colas'[u][Len(colas'[u])] IN
  /\ Existe(u) /\ Len(colas'[u]) > Len(colas[u])
  /\ ~EnAlguna(m)
  /\ colas' = [colas EXCEPT ![u] = Append(@, m)]

\* ... and takes that same one out when it is delivered at once; CONNECT takes
\* the oldest one.
QuitarUltimo(u) ==
  colas[u] # <<>> /\ colas' = [colas EXCEPT ![u] = SubSeq(@, 1, Len(@) - 1)]

QuitarPrimero(u) ==
  colas[u] # <<>> /\ colas' = [colas EXCEPT ![u] = Tail(@)]

InitColas == InitLista /\ colas = [u \in Usuarios |-> <<>>]

NextColas ==
  \E u \in Usuarios :
    \/ Registrar(u) \/ Borrar(u)
    \/ /\ UNCHANGED lista
       /\ \/ QuitarUltimo(u) \/ QuitarPrimero(u)
          \/ Encolar(u)

SpecColas == InitColas /\ [][NextColas]_<<lista, colas>>
=============================================================================
