------------------------------ MODULE MCGestion -----------------------------
(***************************************************************************)
(* Instance of Gestion, with the answers to USERS, for TLC.  Nothing tells *)
(* users or addresses apart, so they are taken up to permutation.          *)
(***************************************************************************)
EXTENDS Listado

\* The names of the users: plain, or with a ";" at the end, at the front or inside.
Formas(u) ==
  LET a == <<"nombre", u>> IN
  {<<a>>, <<a, Sep>>, <<Sep, a>>, <<a, Sep, <<"resto", u>>>>}
MCNombres == {f \in [Usuarios -> UNION {Formas(u) : u \in Usuarios}] :
                \A u \in Usuarios : f[u] \in Formas(u)}

Simetria == Permutations(Usuarios) \cup Permutations(IPs)
=============================================================================
