------------------------------- MODULE Canal --------------------------------
(***************************************************************************)
(* What sendMessage and readLine promise together: the texts written at    *)
(* one end of a connection are read at the other, one by one and in order, *)
(* each cut to the size of the reader's buffer.  When the connection ends  *)
(* in the middle of a text, what had arrived of it may be read as a text,  *)
(* and it is the last one.                                                 *)
(***************************************************************************)
EXTENDS Naturals, Sequences

CONSTANT Cabe           \* bytes the reader has room for

VARIABLES
  textos,       \* the texts to write, which do not change: sequences of bytes
  recibidos,    \* the texts read
  fin           \* nothing else will be read

Recorte(t) == SubSeq(t, 1, IF Len(t) < Cabe THEN Len(t) ELSE Cabe)

Siguiente == textos[Len(recibidos) + 1]

Recibir ==
  /\ ~fin /\ Len(recibidos) < Len(textos)
  /\ recibidos' = Append(recibidos, Recorte(Siguiente))
  /\ fin' = FALSE

RecibirCortado ==
  /\ ~fin /\ Len(recibidos) < Len(textos)
  /\ \E k \in 1..Len(Recorte(Siguiente)) :
       recibidos' = Append(recibidos, SubSeq(Siguiente, 1, k))
  /\ fin' = TRUE

Terminar == ~fin /\ fin' = TRUE /\ UNCHANGED recibidos

CanalSpec ==
  /\ recibidos = <<>> /\ fin = FALSE
  /\ [][(Recibir \/ RecibirCortado \/ Terminar) /\ UNCHANGED textos]_<<textos, recibidos, fin>>
=============================================================================
