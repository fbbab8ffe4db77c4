------------------------------ MODULE Canales ------------------------------
(***************************************************************************)
(* The query service: search_engine in its message queue mode, the thin    *)
(* client (one CGI process per request) and the two System V queues        *)
(* between them.  A message is one character; nothing in it says whose it  *)
(* is.  Every msgget, msgsnd, msgrcv and msgctl is one step, so clients    *)
(* run against every point of the engine's startup, and against each other.*)
(*                                                                         *)
(* What the engine answers is the operator Procesar: the parser and the    *)
(* search are the subject of other modules.                                *)
(***************************************************************************)
EXTENDS Integers, Sequences, FiniteSets

CONSTANTS
  Clientes,        \* the requests, each served by a process of its own
  Letras,          \* the characters of queries and replies
  Nul,             \* '\0'
  Consultas,       \* the query strings a client may be given
  Procesar(_, _),  \* query, useLeader -> [isOk, docs]: a list of strings
  Capacidad,       \* messages that fit in a queue (msg_qbytes)
  MaxActivos,      \* bound: requests in progress at the same time
  MaxCaidas,       \* bound: times the engine is killed
  MaxAbortos       \* bound: requests whose process is killed

Metodos == {"0", "1"}
Codigos == {"1", "2"}

(* A message: mtext.  The client declares its struct with a long mtype and *)
(* the engine with an int one, and both give msgsnd and msgrcv the size of *)
(* their struct: they are the same message where an int is as wide as a    *)
(* long, which is assumed; elsewhere the engine's msgrcv fails.            *)
Caracteres == Letras \cup {Nul} \cup Metodos \cup Codigos

ASSUME NulNoEsLetra == Nul \notin Letras \cup Metodos \cup Codigos
ASSUME ConsultasDeLetras == Consultas \subseteq Seq(Letras)
ASSUME CapacidadPositiva == Capacidad \in Nat \ {0}
ASSUME CotasNaturales == MaxActivos \in Nat /\ MaxCaidas \in Nat /\ MaxAbortos \in Nat

VARIABLES
  clave,       \* canal -> id of the queue its key names now, 0 for none
  cola,        \* the messages of each queue ever created, by id
  viva,        \* the ids of the queues not removed
  pcMotor,     \* where search_engine is
  canalMotor,  \* canal -> id the engine holds
  temp,        \* the query string read so far
  isOk,        \* whether procesar succeeded
  documentos,  \* what is left to send of the reply
  pc,          \* where each client is
  pedido,      \* the query string and method of each client
  canal,       \* per client, canal -> id it holds
  busqueda,    \* per client, the characters still to send
  isError,     \* per client, the code received
  currentDoc,  \* per client, the string being received
  docs,        \* per client, the strings received
  caidas, abortos

colas == <<clave, cola, viva>>
motor == <<pcMotor, canalMotor, temp, isOk, documentos>>
cliente == <<pc, pedido, canal, busqueda, isError, currentDoc, docs>>
vars == <<colas, motor, cliente, caidas, abortos>>

CGItoSearch == "mq_cgi_search"
SearchToCGI == "mq_search_cgi"
Canales == {CGItoSearch, SearchToCGI}
Cerrados == [k \in Canales |-> 0]

Finales == {"listo", "exit1", "abortado"}
Activos == { c \in Clientes : pc[c] \notin Finales \cup {"inicio"} }

Init ==
  /\ clave = Cerrados /\ cola = <<>> /\ viva = {}
  /\ pcMotor = "apagado" /\ canalMotor = Cerrados /\ temp = <<>> /\ isOk = TRUE /\ documentos = <<>>
  /\ pc = [c \in Clientes |-> "inicio"]
  /\ pedido \in [Clientes -> [consulta : Consultas, metodo : Metodos]]
  /\ canal = [c \in Clientes |-> Cerrados]
  /\ busqueda = [c \in Clientes |-> <<>>]
  /\ isError = [c \in Clientes |-> FALSE]
  /\ currentDoc = [c \in Clientes |-> <<>>]
  /\ docs = [c \in Clientes |-> <<>>]
  /\ caidas = 0 /\ abortos = 0

-----------------------------------------------------------------------------
(* The System V calls.                                                     *)

(* msgsnd: blocks while the queue is full.  On a removed queue it fails,   *)
(* also when it was already waiting, and every caller goes on after perror.*)
Msgsnd(id, m) ==
  \/ id \in viva /\ Len(cola[id]) < Capacidad /\ cola' = [cola EXCEPT ![id] = Append(@, m)]
  \/ id \notin viva /\ UNCHANGED cola

(* msgrcv of any type: blocks while the queue is empty.                    *)
Msgrcv(id, m) ==
  /\ id \in viva /\ cola[id] # <<>>
  /\ m = Head(cola[id])
  /\ cola' = [cola EXCEPT ![id] = Tail(@)]

-----------------------------------------------------------------------------
(* search_engine                                                           *)

(* Fault: the queue goes, the engine believes it is still there.           *)
CreateChannel_NoReabre(k) ==
  IF canalMotor[k] # 0
  THEN UNCHANGED <<colas, canalMotor>>
  ELSE LET id == Len(cola) + 1 IN
       /\ cola' = Append(cola, <<>>)
       /\ viva' = viva \cup {id}
       /\ clave' = [clave EXCEPT ![k] = id]
       /\ canalMotor' = [canalMotor EXCEPT ![k] = id]

(* createChannel: msgget with IPC_CREAT, an existing queue is kept.        *)
CreateChannel(k) ==
  IF clave[k] # 0
  THEN canalMotor' = [canalMotor EXCEPT ![k] = clave[k]] /\ UNCHANGED colas
  ELSE LET id == Len(cola) + 1 IN
       /\ cola' = Append(cola, <<>>)
       /\ viva' = viva \cup {id}
       /\ clave' = [clave EXCEPT ![k] = id]
       /\ canalMotor' = [canalMotor EXCEPT ![k] = id]

(* Fault: the queues of the earlier run are kept.                          *)
DestroyChannel_NoBorra(k) == UNCHANGED <<colas, canalMotor>>

(* msgctl IPC_RMID: the queue, its messages and its key are gone.          *)
DestroyChannel(k) ==
  LET id == canalMotor[k] IN
    /\ cola' = IF id \in viva THEN [cola EXCEPT ![id] = <<>>] ELSE cola
    /\ viva' = viva \ {id}
    /\ clave' = [j \in Canales |-> IF clave[j] = id THEN 0 ELSE clave[j]]
    /\ UNCHANGED canalMotor

(* The engine starts: it creates, removes and creates again both queues,   *)
(* so that nothing of an earlier run is left in them.                      *)
Arranque == <<"apagado", "crear2", "borrar1", "borrar2", "recrear1", "recrear2", "escuchar">>

EnArranque(i) == pcMotor = Arranque[i] /\ pcMotor' = Arranque[i + 1]

Arrancar ==
  /\ \/ EnArranque(1) /\ CreateChannel(CGItoSearch)
     \/ EnArranque(2) /\ CreateChannel(SearchToCGI)
     \/ EnArranque(3) /\ DestroyChannel(CGItoSearch)
     \/ EnArranque(4) /\ DestroyChannel(SearchToCGI)
     \/ EnArranque(5) /\ CreateChannel(CGItoSearch)
     \/ EnArranque(6) /\ CreateChannel(SearchToCGI)
  /\ UNCHANGED <<temp, isOk, documentos, cliente, caidas, abortos>>

(* A character of the query, or the '\0' that ends it.                     *)
LeerConsulta ==
  /\ pcMotor = "escuchar"
  /\ \E m \in Caracteres :
       /\ Msgrcv(canalMotor[CGItoSearch], m)
       /\ IF m = Nul
          THEN pcMotor' = "metodo" /\ UNCHANGED temp
          ELSE temp' = Append(temp, m) /\ UNCHANGED pcMotor
  /\ UNCHANGED <<clave, viva, canalMotor, isOk, documentos, cliente, caidas, abortos>>

(* The method character; then the query is parsed and searched.            *)
LeerMetodo ==
  /\ pcMotor = "metodo"
  /\ \E m \in Caracteres :
       /\ Msgrcv(canalMotor[CGItoSearch], m)
       /\ LET resultado == Procesar(temp, m = "1") IN
            isOk' = resultado.isOk /\ documentos' = resultado.docs
  /\ pcMotor' = "codigo"
  /\ UNCHANGED <<clave, viva, canalMotor, temp, cliente, caidas, abortos>>

EnviarCodigo ==
  /\ pcMotor = "codigo"
  /\ Msgsnd(canalMotor[SearchToCGI], IF isOk THEN "1" ELSE "2")
  /\ pcMotor' = "responder"
  /\ UNCHANGED <<clave, viva, canalMotor, temp, isOk, documentos, cliente, caidas, abortos>>

(* One more character of the current document, or the '\0' after it.       *)
EnviarDocumento ==
  /\ pcMotor = "responder" /\ documentos # <<>>
  /\ LET documento == Head(documentos) IN
       IF documento = <<>>
       THEN /\ Msgsnd(canalMotor[SearchToCGI], Nul)
            /\ documentos' = Tail(documentos)
       ELSE /\ Msgsnd(canalMotor[SearchToCGI], Head(documento))
            /\ documentos' = [documentos EXCEPT ![1] = Tail(documento)]
  /\ UNCHANGED <<clave, viva, pcMotor, canalMotor, temp, isOk, cliente, caidas, abortos>>

(* Fault: the reply ends with the '\0' of its last document.               *)
EnviarFin_SinNul ==
  /\ pcMotor = "responder" /\ documentos = <<>>
  /\ temp' = <<>>
  /\ pcMotor' = "escuchar"
  /\ UNCHANGED <<colas, canalMotor, isOk, documentos, cliente, caidas, abortos>>

(* Fault: the query is not forgotten.                                      *)
EnviarFin_SinLimpiar ==
  /\ pcMotor = "responder" /\ documentos = <<>>
  /\ Msgsnd(canalMotor[SearchToCGI], Nul)
  /\ pcMotor' = "escuchar"
  /\ UNCHANGED <<clave, viva, canalMotor, temp, isOk, documentos, cliente, caidas, abortos>>

(* The final '\0'; the engine forgets the query and listens again.         *)
EnviarFin ==
  /\ pcMotor = "responder" /\ documentos = <<>>
  /\ Msgsnd(canalMotor[SearchToCGI], Nul)
  /\ temp' = <<>>
  /\ pcMotor' = "escuchar"
  /\ UNCHANGED <<clave, viva, canalMotor, isOk, documentos, cliente, caidas, abortos>>

(* The engine is killed anywhere after its first step: its memory is lost, *)
(* the queues are the kernel's and stay.                                   *)
Caer ==
  /\ pcMotor # "apagado" /\ caidas < MaxCaidas
  /\ caidas' = caidas + 1
  /\ pcMotor' = "apagado"
  /\ canalMotor' = Cerrados /\ temp' = <<>> /\ isOk' = TRUE /\ documentos' = <<>>
  /\ UNCHANGED <<colas, cliente, abortos>>

-----------------------------------------------------------------------------
(* thin_client                                                             *)

(* openChannel: msgget without IPC_CREAT, and exit(1) if there is no queue.*)
(* The request is decoded before: its characters, a '\0' and the method.   *)
Abrir(c, k, antes, despues) ==
  /\ pc[c] = antes
  /\ canal' = [canal EXCEPT ![c][k] = clave[k]]
  /\ pc' = [pc EXCEPT ![c] = IF clave[k] = 0 THEN "exit1" ELSE despues]
  /\ UNCHANGED <<colas, motor, pedido, isError, currentDoc, docs, caidas, abortos>>

AbrirPedido(c) ==
  /\ Cardinality(Activos) < MaxActivos
  /\ Abrir(c, CGItoSearch, "inicio", "abrir2")
  /\ busqueda' = [busqueda EXCEPT ![c] = pedido[c].consulta \o <<Nul, pedido[c].metodo>>]

AbrirRespuesta(c) ==
  /\ Abrir(c, SearchToCGI, "abrir2", "enviar")
  /\ UNCHANGED busqueda

Enviar(c) ==
  /\ pc[c] = "enviar" /\ busqueda[c] # <<>>
  /\ Msgsnd(canal[c][CGItoSearch], Head(busqueda[c]))
  /\ busqueda' = [busqueda EXCEPT ![c] = Tail(@)]
  /\ UNCHANGED <<clave, viva, motor, pc, pedido, canal, isError, currentDoc, docs, caidas, abortos>>

RecibirCodigo(c) ==
  /\ pc[c] = "enviar" /\ busqueda[c] = <<>>
  /\ \E m \in Caracteres :
       /\ Msgrcv(canal[c][SearchToCGI], m)
       /\ isError' = [isError EXCEPT ![c] = (m # "1")]
  /\ pc' = [pc EXCEPT ![c] = "recibir"]
  /\ UNCHANGED <<clave, viva, motor, pedido, canal, busqueda, currentDoc, docs, caidas, abortos>>

(* A character of a document; a '\0' ends the document, or the reply when  *)
(* nothing came before it.                                                 *)
Recibir(c) ==
  /\ pc[c] = "recibir"
  /\ \E m \in Caracteres :
       /\ Msgrcv(canal[c][SearchToCGI], m)
       /\ \/ /\ m # Nul
             /\ currentDoc' = [currentDoc EXCEPT ![c] = Append(@, m)]
             /\ UNCHANGED <<pc, docs>>
          \/ /\ m = Nul /\ currentDoc[c] # <<>>
             /\ docs' = [docs EXCEPT ![c] = Append(@, currentDoc[c])]
             /\ currentDoc' = [currentDoc EXCEPT ![c] = <<>>]
             /\ UNCHANGED pc
          \/ /\ m = Nul /\ currentDoc[c] = <<>>
             /\ pc' = [pc EXCEPT ![c] = "listo"]
             /\ UNCHANGED <<currentDoc, docs>>
  /\ UNCHANGED <<clave, viva, motor, pedido, canal, busqueda, isError, caidas, abortos>>

(* msgrcv on a removed queue, also while waiting in it: exit(1).           *)
RecibirFalla(c) ==
  /\ pc[c] = "recibir" \/ (pc[c] = "enviar" /\ busqueda[c] = <<>>)
  /\ canal[c][SearchToCGI] \notin viva
  /\ pc' = [pc EXCEPT ![c] = "exit1"]
  /\ UNCHANGED <<colas, motor, pedido, canal, busqueda, isError, currentDoc, docs, caidas, abortos>>

(* The web server kills the CGI process.                                   *)
Abortar(c) ==
  /\ c \in Activos /\ abortos < MaxAbortos
  /\ abortos' = abortos + 1
  /\ pc' = [pc EXCEPT ![c] = "abortado"]
  /\ UNCHANGED <<colas, motor, pedido, canal, busqueda, isError, currentDoc, docs, caidas>>

-----------------------------------------------------------------------------
PasoMotor == LeerConsulta \/ LeerMetodo \/ EnviarCodigo \/ EnviarDocumento \/ EnviarFin
PasoCliente(c) ==
  AbrirRespuesta(c) \/ Enviar(c) \/ RecibirCodigo(c) \/ Recibir(c) \/ RecibirFalla(c)

Next ==
  \/ Arrancar \/ PasoMotor \/ Caer
  \/ \E c \in Clientes : AbrirPedido(c) \/ PasoCliente(c) \/ Abortar(c)

(* Every process that can go on does.  Nobody has to make a request, start *)
(* the engine again or kill a process.                                     *)
Justicia ==
  /\ WF_vars(PasoMotor)
  /\ WF_vars(Arrancar /\ pcMotor # "apagado")
  /\ \A c \in Clientes : WF_vars(PasoCliente(c))

Spec == Init /\ [][Next]_vars /\ Justicia
-----------------------------------------------------------------------------
RespuestaDe(c) == Procesar(pedido[c].consulta, pedido[c].metodo = "1")

(* What a client shows is the engine's answer to the request it was given. *)
RespuestaPropia ==
  \A c \in Clientes : pc[c] = "listo" =>
    isError[c] = ~RespuestaDe(c).isOk /\ docs[c] = RespuestaDe(c).docs

(* A request that has a queue of one that was killed, or was killed itself.*)
Expuesto(c) == \E d \in Clientes, k \in Canales : pc[d] = "abortado" /\ canal[c][k] = canal[d][k] /\ canal[c][k] # 0

EnServicio == pcMotor \in {"escuchar", "metodo", "codigo", "responder"}

(* Once it listens, the engine holds the queues the keys name, not removed *)
(* ones: its msgrcv never fails (`Nunca termina') and new clients find it, *)
(* whatever an earlier run of the engine left, or was killed in.           *)
MotorEnSusCanales ==
  EnServicio => canalMotor = clave /\ \A k \in Canales : canalMotor[k] \in viva

(* A request made to the engine that is running is answered, however small *)
(* the queues are and whatever came before, unless the engine is killed    *)
(* again or a request was killed in those queues.                          *)
Atendido ==
  \A c \in Clientes, n \in 0..MaxCaidas :
    (pc[c] = "enviar" /\ EnServicio /\ canal[c] = canalMotor /\ caidas = n)
      ~> (pc[c] = "listo" \/ caidas > n \/ Expuesto(c))
=============================================================================
