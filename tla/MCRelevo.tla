------------------------------ MODULE MCRelevo ------------------------------
(***************************************************************************)
(* Instance of Relevo for TLC: the first and the last client share an      *)
(* address and the ones between them have their own.                       *)
(***************************************************************************)
EXTENDS Relevo

Direccion(n) == [c \in 1..n |-> IF c = n THEN 1 ELSE c]
MCIpDe == Direccion(8)
MCIpDe2 == Direccion(2)
=============================================================================
