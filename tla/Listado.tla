------------------------------ MODULE Listado ------------------------------
(***************************************************************************)
(* The answer to USERS, from the list of clients to the table of a client: *)
(* users() in gestion.c sizes a buffer and writes all the connected users  *)
(* into it, separated by ";"; conexion cuts it at every ";" with strtok    *)
(* and sends the pieces one by one, after their number; client.py reads    *)
(* that many and splits each at " :: ".                                    *)
(*                                                                         *)
(* A text is a sequence of atoms <<kind, value>>.  Names have no spaces    *)
(* (the shell cuts its commands at them), but nothing keeps a ";" out.     *)
(***************************************************************************)
EXTENDS Gestion, SequencesExt

CONSTANT Nombres        \* ways to name the users: for each of them a text

Sep    == <<";", 0>>
Campo  == <<" :: ", 0>>
Letras == {"nombre", "resto"} \X Usuarios

ASSUME ListadoSupuestos ==
  /\ IsFiniteSet(Usuarios) /\ \A p \in Puertos : p < 65536
  /\ \A nom \in Nombres, u \in Usuarios : nom[u] \in Seq(Letras \cup {Sep}) /\ nom[u] # <<>>

\* Characters of an atom: what matters is that a port has up to five digits.
Digitos(p) == CASE p < 10 -> 1 [] p < 100 -> 2 [] p < 1000 -> 3 [] p < 10000 -> 4
                [] OTHER -> 5
Caracteres(a) == CASE a = Sep -> 1 [] a = Campo -> 4 [] a[1] = "puerto" -> Digitos(a[2])
                   [] a[1] = "ip" -> 9 [] OTHER -> 3
Largo(texto) == FoldLeft(LAMBDA s, a : s + Caracteres(a), 0, texto)

\* The connected users in the order of the list, with their addresses.
Conectados ==
  FoldLeft(LAMBDA c, u : IF conectado[u]
                         THEN Append(c, [usuario |-> u, ip |-> ip[u], puerto |-> puerto[u]])
                         ELSE c,
           <<>>, lista)
-----------------------------------------------------------------------------
\* Mutant: nothing is added for the separators and the final zero.
EspacioNecesario_SinUno(nom, con) ==
  FoldLeft(LAMBDA s, x : s + Largo(nom[x.usuario]) + 4 + Caracteres(<<"ip", x.ip>>) + 4 + 5,
           0, con)

\* The first loop of users(): the size of the buffer.
EspacioNecesario(nom, con) ==
  FoldLeft(LAMBDA s, x : s + Largo(nom[x.usuario]) + 4 + Caracteres(<<"ip", x.ip>>) + 4 + 5 + 1,
           0, con)

\* Mutant: the separator goes after the last user and not after the others.
Linea_SinSeparar(nom, con, i) ==
  nom[con[i].usuario] \o <<Campo, <<"ip", con[i].ip>>, Campo, <<"puerto", con[i].puerto>>>>
    \o (IF i < Len(con) THEN <<>> ELSE <<Sep>>)

\* What is written of the user at place i: all but the last end in a ";".
Linea(nom, con, i) ==
  nom[con[i].usuario] \o <<Campo, <<"ip", con[i].ip>>, Campo, <<"puerto", con[i].puerto>>>>
    \o (IF i < Len(con) THEN <<Sep>> ELSE <<>>)

\* The second loop: what is written in the buffer, the final zero apart.
Texto(nom, con) == FoldLeftDomain(LAMBDA t, i : t \o Linea(nom, con, i), <<>>, con)

\* The pieces strtok finds, the longest runs without a ";": it skips the separators
\* in front of each one, so that none is empty.
Trozos(texto) ==
  FoldLeft(LAMBDA t, a : IF a # Sep THEN Append(Front(t), Append(Last(t), a))
                         ELSE IF Last(t) = <<>> THEN t ELSE Append(t, <<>>),
           <<<<>>>>, texto)
EnviarTrozos(texto) ==
  LET t == Trozos(texto) IN IF Last(t) = <<>> THEN Front(t) ELSE t

\* A piece with less than three fields is an exception; the rest of the answer is
\* not read, and what was learnt before stays.
Tabla(nom, con) ==
  LET trozos == EnviarTrozos(Texto(nom, con))
      bien(t) == Contains(t, Campo)
      malos == {i \in 1..Len(con) : i > Len(trozos) \/ ~bien(trozos[i])}
      leidos == {i \in 1..Len(con) : \A j \in malos : i < j}
      fila(t) == LET k == SelectInSeq(t, LAMBDA a : a = Campo) IN
                 <<SubSeq(t, 1, k - 1), t[k + 1], t[k + 3]>> IN
  [ok |-> malos = {}, filas |-> {fila(trozos[i]) : i \in leidos}]
-----------------------------------------------------------------------------
\* Every answer users() may have to give.
Respuestas ==
  UNION {{con \in [1..k -> [usuario : Usuarios, ip : IPs, puerto : Puertos]] :
            \A i, j \in 1..k : con[i].usuario = con[j].usuario => i = j} :
         k \in 0..Cardinality(Usuarios)}

ConSep(nom, con) == {i \in DOMAIN con : Contains(nom[con[i].usuario], Sep)}
Filas(nom, con) ==
  {<<nom[x.usuario], <<"ip", x.ip>>, <<"puerto", x.puerto>>>> : x \in ToSet(con)}

\* What users() writes fits in the buffer, the final zero included.
TodasCaben ==
  \A con \in Respuestas \ {<<>>}, nom \in Nombres :
    Largo(Texto(nom, con)) + 1 <= EspacioNecesario(nom, con)

\* What the client keeps of an answer: all of it if no name has a ";", and only
\* true rows, if not all, unless a name begins with one.
TodasFieles ==
  \A con \in Respuestas, nom \in Nombres :
    LET t == Tabla(nom, con) IN
    /\ ConSep(nom, con) = {} => t.ok /\ t.filas = Filas(nom, con)
    /\ (\A x \in ToSet(con) : nom[x.usuario][1] # Sep) =>
         t.filas \subseteq Filas(nom, con) /\ (t.ok => ConSep(nom, con) = {})

\* users() never writes past the buffer it sizes by counting characters another
\* way, the separators included: every list of connected users it may find, after
\* any requests and failures, is one that the formula covers.
BufferSuficiente ==
  mutex_lista = Libre /\ Conectados # <<>> => Conectados \in Respuestas /\ TodasCaben

\* The client's table after USERS says of each connected user where it listens,
\* though the list is announced, cut and read by three pieces of code that do not
\* agree on what a ";" is: a name that has one makes USERS fail, it does not give
\* a wrong address, except when it is the first character.
ListadoFiel ==
  mutex_lista = Libre /\ Conectados # <<>> => Conectados \in Respuestas /\ TodasFieles
=============================================================================
