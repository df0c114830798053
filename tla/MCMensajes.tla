----------------------------- MODULE MCMensajes -----------------------------
(***************************************************************************)
(* Instance of Mensajes for TLC: the empty text, texts shorter than the    *)
(* buffer, as long as it and longer, in characters and only in bytes.      *)
(***************************************************************************)
EXTENDS Mensajes

MCCampos == {<<>>, <<1>>, <<2>>, <<1, 1>>, <<1, 2>>, <<1, 1, 1>>, <<1, 1, 1, 1>>}
=============================================================================
