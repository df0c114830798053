------------------------------ MODULE Mensajes ------------------------------
(***************************************************************************)
(* A connection byte by byte: one end writes texts, each ended by a zero,  *)
(* with sendMessage (or sendall, in the client, which is the same loop),   *)
(* and ignores its result; the other reads them with readLine into a       *)
(* buffer of `n' bytes until it is told an end or an error.  The kernel    *)
(* takes as many bytes of a write as it has room for; the connection may   *)
(* be closed by the writer, or break, between any two bytes.               *)
(*                                                                         *)
(* A text is a sequence of characters, each given by its number of bytes.  *)
(***************************************************************************)
EXTENDS Naturals, Integers, Sequences

CONSTANTS
  Campos,       \* texts a field may hold
  MaxCampos,    \* bound of the model: fields written
  n,            \* size of the reader's buffer: 256 in the code
  Capacidad     \* bytes the kernel keeps

ASSUME MensajesSupuestos ==
  /\ Campos \subseteq Seq(Nat)
  /\ n \in Nat \ {0, 1} /\ Capacidad \in Nat \ {0} /\ MaxCampos \in Nat

VARIABLES
  campos,       \* the fields to write
  i, escrito,   \* the one being written, and the bytes of it already accepted
  canal,        \* bytes on their way
  conexion,     \* "abierta", "cerrada" by the writer or "rota"
  buffer,       \* what readLine has stored
  resultados,   \* what each call of readLine returned
  cortado       \* history: the call that took the end of the stream for the end of a field

escritor == <<campos, i, escrito>>
lector   == <<buffer, resultados, cortado>>
vars     == <<escritor, canal, conexion, lector>>

\* The bytes of a text: <<character, byte of it>>, and the final zero.
Fin == <<0, 0>>
Octetos(t) ==
  LET o[k \in 0..Len(t)] ==
        IF k = 0 THEN <<>> ELSE o[k - 1] \o [b \in 1..t[k] |-> <<k, b>>]
  IN  o[Len(t)]
Linea(t) == Append(Octetos(t), Fin)

Init ==
  /\ campos \in UNION {[1..k -> Campos] : k \in 1..MaxCampos}
  /\ i = 1 /\ escrito = 0
  /\ canal = <<>> /\ conexion = "abierta"
  /\ buffer = <<>> /\ resultados = <<>> /\ cortado = 0
-----------------------------------------------------------------------------
\* Mutant: a write that takes only part of the text is taken for the whole of it.
Escribir_SinBucle ==
  /\ conexion = "abierta" /\ i <= Len(campos)
  /\ \E r \in 1..Len(Linea(campos[i])) :
       /\ Len(canal) + r <= Capacidad
       /\ canal' = canal \o SubSeq(Linea(campos[i]), 1, r)
       /\ i' = i + 1
       /\ UNCHANGED escrito
  /\ UNCHANGED <<campos, conexion, lector>>

\* A turn of the loop of sendMessage: write() takes r bytes of those left.
Escribir ==
  /\ conexion = "abierta" /\ i <= Len(campos)
  /\ LET linea == Linea(campos[i]) IN
     \E r \in 1..(Len(linea) - escrito) :
       /\ Len(canal) + r <= Capacidad
       /\ canal' = canal \o SubSeq(linea, escrito + 1, escrito + r)
       /\ IF escrito + r = Len(linea)
          THEN i' = i + 1 /\ escrito' = 0
          ELSE i' = i /\ escrito' = escrito + r
  /\ UNCHANGED <<campos, conexion, lector>>

\* write() fails: sendMessage returns -1, and its caller goes on to the next field.
EscribirFalla ==
  /\ conexion = "rota" /\ i <= Len(campos)
  /\ i' = i + 1 /\ escrito' = 0
  /\ UNCHANGED <<campos, canal, conexion, lector>>

\* The writer closes, between two fields or, if its process ends, in the middle of one.
Cerrar ==
  /\ conexion = "abierta" /\ conexion' = "cerrada"
  /\ UNCHANGED <<escritor, canal, lector>>

\* The connection is reset, and what was on its way is lost.
Romper ==
  /\ conexion = "abierta" /\ conexion' = "rota" /\ canal' = <<>>
  /\ UNCHANGED <<escritor, lector>>
-----------------------------------------------------------------------------
\* Whoever called readLine stops at a 0 or a -1.
Parado == resultados # <<>> /\ resultados[Len(resultados)].r <= 0

Devolver(r, corta) ==
  /\ resultados' = Append(resultados, [r |-> r, texto |-> buffer])
  /\ buffer' = <<>>
  /\ cortado' = IF corta THEN Len(resultados) + 1 ELSE cortado

\* Mutant: what does not fit in the buffer is left for the next call.
Guardar_SinDescartar(b) ==
  IF Len(buffer) < n - 2
  THEN buffer' = Append(buffer, b) /\ UNCHANGED <<resultados, cortado>>
  ELSE /\ resultados' = Append(resultados, [r |-> n - 1, texto |-> Append(buffer, b)])
       /\ buffer' = <<>> /\ UNCHANGED cortado

\* Mutant: one byte less fits.
Guardar_UnoMenos(b) ==
  /\ buffer' = IF Len(buffer) < n - 2 THEN Append(buffer, b) ELSE buffer
  /\ UNCHANGED <<resultados, cortado>>

\* Mutant: one byte more fits, and the final zero goes past the end.
Guardar_UnoMas(b) ==
  /\ buffer' = IF Len(buffer) < n THEN Append(buffer, b) ELSE buffer
  /\ UNCHANGED <<resultados, cortado>>

\* What does not fit is read and thrown away.
Guardar(b) ==
  /\ buffer' = IF Len(buffer) < n - 1 THEN Append(buffer, b) ELSE buffer
  /\ UNCHANGED <<resultados, cortado>>

\* read() gives a byte.  (Interrupted by a signal it is called again.)
Leer ==
  /\ ~Parado /\ canal # <<>>
  /\ canal' = Tail(canal)
  /\ IF Head(canal) = Fin THEN Devolver(Len(buffer), FALSE) ELSE Guardar(Head(canal))
  /\ UNCHANGED <<escritor, conexion>>

\* The end of the stream: 0, or what has been read of a field as if it were whole.
LeerCero ==
  /\ ~Parado /\ canal = <<>> /\ conexion = "cerrada"
  /\ Devolver(Len(buffer), buffer # <<>>)
  /\ UNCHANGED <<escritor, canal, conexion>>

\* An error: -1, and what has been read of the field is lost.
LeerError ==
  /\ ~Parado /\ conexion = "rota"
  /\ Devolver(-1, FALSE)
  /\ UNCHANGED <<escritor, canal, conexion>>

Escritor == Escribir \/ EscribirFalla
Lector   == Leer \/ LeerCero \/ LeerError
Next     == Escritor \/ Cerrar \/ Romper \/ Lector

\* Both ends run; nobody has to close.
Spec == Init /\ [][Next]_vars /\ WF_vars(Escritor) /\ WF_vars(Lector)
-----------------------------------------------------------------------------
Octeto == Nat \X Nat

TypeOK ==
  /\ i \in 1..(Len(campos) + 1) /\ escrito \in Nat
  /\ canal \in Seq(Octeto) /\ Len(canal) <= Capacidad
  /\ conexion \in {"abierta", "cerrada", "rota"}
  /\ buffer \in Seq(Octeto) /\ Len(buffer) < n
  /\ resultados \in Seq([r : -1..(n - 1), texto : Seq(Octeto)])
  /\ cortado \in Nat

\* Fields never run into each other, whatever the writes are cut into and wherever the
\* connection ends: each call of readLine returns the next text, cut to its buffer.
\* A text ended by the end of the stream may be taken for a whole one, and then it is the
\* last: a request of which another field was missing is never executed.
P == INSTANCE Canal WITH
       textos    <- [k \in DOMAIN campos |-> Octetos(campos[k])],
       Cabe      <- n - 1,
       recibidos <- [k \in {j \in DOMAIN resultados : resultados[j].r > 0} |-> resultados[k].texto],
       fin       <- Parado \/ cortado # 0
ImplementaCanal == P!CanalSpec

\* A text the client lets through, of at most n - 1 characters, arrives as it was
\* written if each is one byte: the limit of client.py, the final zero and the size of
\* the buffer agree.  (The client counts characters and the server bytes: "ñ" is two.)
AsciiEntero ==
  \A k \in DOMAIN resultados :
    LET t == campos[k] IN
    resultados[k].r > 0 /\ k # cortado /\ Len(t) <= n - 1 /\ (\A j \in DOMAIN t : t[j] = 1)
      => resultados[k].texto = Octetos(t)

\* Everything written is read, however small the writes the kernel takes, unless the
\* connection ends or an empty field makes the reader stop.
TodoLlega == <>(Len(resultados) = Len(campos) \/ conexion # "abierta" \/ Parado)
=============================================================================
