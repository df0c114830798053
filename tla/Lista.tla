------------------------------- MODULE Lista --------------------------------
(***************************************************************************)
(* The list of registered users of gestion.c, seen as the sequence of the  *)
(* names met when it is walked from `head': a new user is put in front, so *)
(* the sequence goes from the newest registration to the oldest one.       *)
(*                                                                         *)
(* Baja is what dar_de_baja_usuario does to that sequence: since no node   *)
(* ever has a non-null `before' (registrar_usuario does not link the old   *)
(* head back), the branch that unlinks from the middle is never taken and  *)
(* `head' moves to the node after the one removed.  ListaEnlazada models   *)
(* the nodes and pointers; Colas adds what hangs from each user.           *)
(***************************************************************************)
EXTENDS Naturals, Sequences

CONSTANT Usuarios       \* user names

VARIABLE lista          \* names of the reachable nodes, from head

\* existe_usuario: the walk finds a node with this name.
Existe(u) == \E i \in 1..Len(lista) : lista[i] = u

\* Place of the node with this name, the one existe_usuario returns: no name is
\* met twice.
Posicion(u) == CHOOSE i \in 1..Len(lista) : lista[i] = u

\* Users whose node is no longer reachable once the node of u is removed: u
\* and everyone in front of it.
Fuera(u) == {lista[j] : j \in 1..Posicion(u)}

Alta(u) ==
  /\ ~Existe(u)
  /\ lista' = <<u>> \o lista

Baja(u) ==
  /\ Existe(u)
  /\ lista' = SubSeq(lista, Posicion(u) + 1, Len(lista))

InitLista == lista = <<>>
=============================================================================
