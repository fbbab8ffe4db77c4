--------------------------- MODULE CanalesProofs ---------------------------
(***************************************************************************)
(* The queues of the query service, proved for every number of clients,    *)
(* every capacity, every alphabet and every bound on requests, kills of    *)
(* the engine and kills of requests.  First, from the moment the engine    *)
(* listens it holds the queues that the keys name (SiempreEnSusCanales).   *)
(* Then, that requests made one at a time are served as Servicio says      *)
(* (CanalesImplementaServicio).                                            *)
(*                                                                         *)
(* What makes the first invariant inductive is the startup: between its    *)
(* six calls the engine holds one queue, two, or removed ones, and the     *)
(* table of keys may hold what an earlier run left.  That an answer is the *)
(* client's own rests on InvServicio: the characters in the two queues are *)
(* the rest of the one request and of its reply, from the place where the  *)
(* client is to the place where the engine is, unless the queue was left   *)
(* by a killed request; and then the service allows any answer.            *)
(***************************************************************************)
EXTENDS CanalesServicio, FiniteSetTheorems, TLAPS

(* A key names no queue, or one that was created and not removed; the two  *)
(* keys never name the same one.                                           *)
ClavesVivas ==
  /\ clave \in [Canales -> Nat]
  /\ \A k \in Canales : clave[k] # 0 => clave[k] \in viva
  /\ clave[CGItoSearch] # 0 => clave[CGItoSearch] # clave[SearchToCGI]

(* A sequence, of whatever the engine's answers and the requests are made. *)
EsSecuencia(s) == \E S : s \in Seq(S)

(* Queues are numbered as they are created: the next number is new.        *)
ColasNumeradas ==
  /\ EsSecuencia(cola)
  /\ viva \subseteq 1..Len(cola)

(* What the engine holds at each point of its startup, and after it.       *)
Tiene(k) == canalMotor[k] = clave[k] /\ clave[k] # 0

ArranqueEnOrden ==
  /\ canalMotor \in [Canales -> Nat]
  /\ pcMotor = "crear2" => Tiene(CGItoSearch)
  /\ pcMotor = "borrar1" => Tiene(CGItoSearch) /\ Tiene(SearchToCGI)
  /\ pcMotor = "borrar2" => clave[CGItoSearch] = 0 /\ Tiene(SearchToCGI)
  /\ pcMotor = "recrear1" => clave[CGItoSearch] = 0 /\ clave[SearchToCGI] = 0
  /\ pcMotor = "recrear2" => clave[SearchToCGI] = 0 /\ Tiene(CGItoSearch)
  /\ EnServicio => Tiene(CGItoSearch) /\ Tiene(SearchToCGI)

InvCanales == ClavesVivas /\ ColasNumeradas /\ ArranqueEnOrden
-----------------------------------------------------------------------------
(* Appending a queue to the queues adds one.                               *)
LEMMA Agregar ==
  ASSUME NEW s, EsSecuencia(s), NEW x
  PROVE  EsSecuencia(Append(s, x)) /\ Len(Append(s, x)) = Len(s) + 1 /\ Len(s) \in Nat
<1>1. PICK S : s \in Seq(S)
  BY DEF EsSecuencia
<1>2. s \in Seq(S \cup {x}) /\ x \in S \cup {x}
  BY <1>1
<1>3. Append(s, x) \in Seq(S \cup {x})
  BY <1>2
<1>4. Len(Append(s, x)) = Len(s) + 1 /\ Len(s) \in Nat
  BY <1>2
<1> QED
  BY <1>3, <1>4 DEF EsSecuencia

(* Changing what is in a queue adds none.                                  *)
LEMMA Cambiar ==
  ASSUME NEW s, EsSecuencia(s), NEW i \in 1..Len(s), NEW x
  PROVE  EsSecuencia([s EXCEPT ![i] = x]) /\ Len([s EXCEPT ![i] = x]) = Len(s)
<1>1. PICK S : s \in Seq(S)
  BY DEF EsSecuencia
<1>2. s \in Seq(S \cup {x}) /\ x \in S \cup {x}
  BY <1>1
<1>3. [s EXCEPT ![i] = x] \in Seq(S \cup {x})
  BY <1>2
<1>4. Len([s EXCEPT ![i] = x]) = Len(s)
  BY <1>2
<1> QED
  BY <1>3, <1>4 DEF EsSecuencia

(* createChannel leaves the engine with the queue its key names, and the   *)
(* other key as it was.                                                    *)
LEMMA Crea ==
  ASSUME ClavesVivas, ColasNumeradas, canalMotor \in [Canales -> Nat],
         NEW k \in Canales, CreateChannel(k)
  PROVE  /\ ClavesVivas' /\ ColasNumeradas' /\ canalMotor' \in [Canales -> Nat]
         /\ Tiene(k)'
         /\ \A j \in Canales \ {k} : clave'[j] = clave[j] /\ canalMotor'[j] = canalMotor[j]
<1>1. CASE clave[k] # 0
  BY <1>1 DEF CreateChannel, ClavesVivas, ColasNumeradas, Tiene, colas
<1>2. CASE clave[k] = 0
  <2> DEFINE id == Len(cola) + 1
  <2>1. /\ cola' = Append(cola, <<>>) /\ viva' = viva \cup {id}
        /\ clave' = [clave EXCEPT ![k] = id] /\ canalMotor' = [canalMotor EXCEPT ![k] = id]
    BY <1>2 DEF CreateChannel
  <2>2. EsSecuencia(cola') /\ Len(cola') = Len(cola) + 1 /\ Len(cola) \in Nat
    BY <2>1, Agregar DEF ColasNumeradas
  <2>3. viva' \subseteq 1..Len(cola')
    <3>1. \A i \in viva : i \in 1..Len(cola')
      BY <2>2 DEF ColasNumeradas
    <3>2. Len(cola) + 1 \in 1..Len(cola')
      BY <2>2
    <3> QED
      BY <2>1, <3>1, <3>2
  <2>4. id \in Nat /\ id # 0 /\ id \notin viva
    BY <2>2 DEF ColasNumeradas
  <2>5. /\ clave' \in [Canales -> Nat] /\ canalMotor' \in [Canales -> Nat]
        /\ clave'[k] = id /\ canalMotor'[k] = id
        /\ \A j \in Canales \ {k} : clave'[j] = clave[j] /\ canalMotor'[j] = canalMotor[j]
    BY <2>1, <2>4 DEF ClavesVivas
  <2>6. \A j \in Canales \ {k} : clave'[j] # id
    BY <2>4, <2>5 DEF ClavesVivas
  <2>7. \A j \in Canales : clave'[j] # 0 => clave'[j] \in viva'
    BY <2>1, <2>5 DEF ClavesVivas
  <2>8. CGItoSearch \in Canales /\ SearchToCGI \in Canales /\ CGItoSearch # SearchToCGI
    BY DEF Canales, CGItoSearch, SearchToCGI
  <2>9. k = CGItoSearch \/ k = SearchToCGI
    BY DEF Canales
  <2>10. clave'[CGItoSearch] # clave'[SearchToCGI]
    <3>1. CASE k = CGItoSearch
      BY <3>1, <2>5, <2>6, <2>8
    <3>2. CASE k = SearchToCGI
      BY <3>2, <2>5, <2>6, <2>8
    <3> QED
      BY <3>1, <3>2, <2>9
  <2> HIDE DEF id
  <2>11. ClavesVivas'
    BY <2>5, <2>7, <2>10 DEF ClavesVivas
  <2>12. ColasNumeradas'
    BY <2>2, <2>3 DEF ColasNumeradas
  <2>13. Tiene(k)'
    BY <2>4, <2>5 DEF Tiene
  <2> QED
    BY <2>5, <2>11, <2>12, <2>13
<1> QED
  BY <1>1, <1>2

(* destroyChannel of a queue its key names leaves that key without one,    *)
(* the other key and what the engine believes as they were.                *)
LEMMA Borra ==
  ASSUME ClavesVivas, ColasNumeradas, NEW k \in Canales, Tiene(k), DestroyChannel(k)
  PROVE  /\ ClavesVivas' /\ ColasNumeradas' /\ canalMotor' = canalMotor
         /\ clave'[k] = 0
         /\ \A j \in Canales \ {k} : clave'[j] = clave[j]
<1> DEFINE id == canalMotor[k]
<1>1. /\ cola' = IF id \in viva THEN [cola EXCEPT ![id] = <<>>] ELSE cola
      /\ viva' = viva \ {id}
      /\ clave' = [j \in Canales |-> IF clave[j] = id THEN 0 ELSE clave[j]]
      /\ canalMotor' = canalMotor
  BY DEF DestroyChannel
<1>2. id = clave[k] /\ id # 0 /\ id \in viva
  BY DEF Tiene, ClavesVivas
<1>3. EsSecuencia(cola') /\ Len(cola') = Len(cola)
  <2>1. id \in 1..Len(cola)
    BY <1>2 DEF ColasNumeradas
  <2>2. cola' = [cola EXCEPT ![id] = <<>>]
    BY <1>1, <1>2
  <2> HIDE DEF id
  <2> QED
    BY <2>1, <2>2, Cambiar DEF ColasNumeradas
<1>4. CGItoSearch \in Canales /\ SearchToCGI \in Canales /\ CGItoSearch # SearchToCGI
  BY DEF Canales, CGItoSearch, SearchToCGI
<1>5. \A j \in Canales \ {k} : clave[j] # id
  <2>1. k = CGItoSearch \/ k = SearchToCGI
    BY DEF Canales
  <2>2. \A j \in Canales : j = CGItoSearch \/ j = SearchToCGI
    BY DEF Canales
  <2> QED
    BY <1>2, <2>1, <2>2 DEF ClavesVivas
<1> HIDE DEF id
<1>6. clave' \in [Canales -> Nat] /\ clave'[k] = 0 /\ \A j \in Canales \ {k} : clave'[j] = clave[j]
  BY <1>1, <1>2, <1>5 DEF ClavesVivas
<1>7. \A j \in Canales : clave'[j] # 0 => clave'[j] \in viva'
  BY <1>1, <1>5, <1>6 DEF ClavesVivas
<1>8. clave'[CGItoSearch] # 0 => clave'[CGItoSearch] # clave'[SearchToCGI]
  BY <1>4, <1>6 DEF ClavesVivas
<1>9. ClavesVivas'
  BY <1>6, <1>7, <1>8 DEF ClavesVivas
<1>10. ColasNumeradas'
  BY <1>1, <1>3 DEF ColasNumeradas
<1> QED
  BY <1>1, <1>6, <1>9, <1>10

(* Sending and receiving create no queue and remove none.                  *)
LEMMA SoloMensajes ==
  ASSUME ColasNumeradas, UNCHANGED viva, NEW id, NEW m, Msgsnd(id, m) \/ Msgrcv(id, m)
  PROVE  ColasNumeradas'
<1>1. CASE UNCHANGED cola
  BY <1>1 DEF ColasNumeradas
<1>2. ASSUME NEW x, id \in viva, cola' = [cola EXCEPT ![id] = x]
      PROVE  ColasNumeradas'
  <2>1. id \in 1..Len(cola)
    BY <1>2 DEF ColasNumeradas
  <2> QED
    BY <1>2, <2>1, Cambiar DEF ColasNumeradas
<1> QED
  BY <1>1, <1>2 DEF Msgsnd, Msgrcv

(* A step that leaves keys, queues and the engine's ids alone, and the     *)
(* engine where it was or in service.                                      *)
LEMMA Quietos ==
  ASSUME InvCanales, ColasNumeradas', UNCHANGED <<clave, viva, canalMotor>>,
         UNCHANGED pcMotor \/ (EnServicio /\ EnServicio')
  PROVE  InvCanales'
<1>1. ClavesVivas'
  BY DEF InvCanales, ClavesVivas
<1>2. /\ canalMotor' \in [Canales -> Nat]
      /\ \A k \in Canales : Tiene(k) => Tiene(k)'
      /\ CGItoSearch \in Canales /\ SearchToCGI \in Canales
  BY DEF InvCanales, ArranqueEnOrden, Tiene, Canales
<1>3. ArranqueEnOrden'
  <2>1. CASE UNCHANGED pcMotor
    BY <1>2, <2>1 DEF InvCanales, ArranqueEnOrden, EnServicio
  <2>2. CASE EnServicio /\ EnServicio'
    BY <1>2, <2>2 DEF InvCanales, ArranqueEnOrden, EnServicio
  <2> QED
    BY <2>1, <2>2
<1> QED
  BY <1>1, <1>3 DEF InvCanales

(* At the start no key names a queue and the engine is not running.        *)
LEMMA InvCanalesInicial == Init => InvCanales
<1> SUFFICES ASSUME Init PROVE InvCanales
  OBVIOUS
<1>1. ClavesVivas
  BY DEF Init, ClavesVivas, Cerrados, Canales, CGItoSearch, SearchToCGI
<1>2. ColasNumeradas
  BY DEF Init, ColasNumeradas, EsSecuencia
<1>3. ArranqueEnOrden
  BY DEF Init, ArranqueEnOrden, EnServicio, Cerrados
<1> QED
  BY <1>1, <1>2, <1>3 DEF InvCanales

(* The six calls of the startup, whatever the keys name before them.       *)
LEMMA ArrancarConserva ==
  ASSUME InvCanales, Arrancar
  PROVE  InvCanales'
<1> USE DEF InvCanales
<1> DEFINE A == CGItoSearch
           B == SearchToCGI
<1>1. A \in Canales /\ B \in Canales /\ A # B
  BY DEF Canales, CGItoSearch, SearchToCGI
<1>2. ClavesVivas /\ ColasNumeradas /\ canalMotor \in [Canales -> Nat]
  BY DEF ArranqueEnOrden
<1>3. A \in Canales \ {B} /\ B \in Canales \ {A}
  BY <1>1
<1> HIDE DEF A, B
<1>4. CASE EnArranque(1) /\ CreateChannel(A)
  <2>1. ClavesVivas' /\ ColasNumeradas' /\ canalMotor' \in [Canales -> Nat] /\ Tiene(A)'
    BY <1>1, <1>2, <1>4, Crea
  <2>2. pcMotor' = "crear2"
    BY <1>4 DEF EnArranque, Arranque
  <2> QED
    BY <2>1, <2>2 DEF ArranqueEnOrden, EnServicio, A
<1>5. CASE EnArranque(2) /\ CreateChannel(B)
  <2>1. pcMotor = "crear2" /\ pcMotor' = "borrar1"
    BY <1>5 DEF EnArranque, Arranque
  <2>2. Tiene(A)
    BY <2>1 DEF ArranqueEnOrden, A
  <2>3. /\ ClavesVivas' /\ ColasNumeradas' /\ canalMotor' \in [Canales -> Nat] /\ Tiene(B)'
        /\ clave'[A] = clave[A] /\ canalMotor'[A] = canalMotor[A]
    BY <1>1, <1>2, <1>3, <1>5, Crea
  <2> QED
    BY <2>1, <2>2, <2>3 DEF ArranqueEnOrden, EnServicio, Tiene, A, B
<1>6. CASE EnArranque(3) /\ DestroyChannel(A)
  <2>1. pcMotor = "borrar1" /\ pcMotor' = "borrar2"
    BY <1>6 DEF EnArranque, Arranque
  <2>2. Tiene(A) /\ Tiene(B)
    BY <2>1 DEF ArranqueEnOrden, A, B
  <2>3. /\ ClavesVivas' /\ ColasNumeradas' /\ canalMotor' = canalMotor
        /\ clave'[A] = 0 /\ clave'[B] = clave[B]
    BY <1>1, <1>2, <1>3, <1>6, <2>2, Borra
  <2> QED
    BY <1>2, <2>1, <2>2, <2>3 DEF ArranqueEnOrden, EnServicio, Tiene, A, B
<1>7. CASE EnArranque(4) /\ DestroyChannel(B)
  <2>1. pcMotor = "borrar2" /\ pcMotor' = "recrear1"
    BY <1>7 DEF EnArranque, Arranque
  <2>2. clave[A] = 0 /\ Tiene(B)
    BY <2>1 DEF ArranqueEnOrden, A, B
  <2>3. /\ ClavesVivas' /\ ColasNumeradas' /\ canalMotor' = canalMotor
        /\ clave'[B] = 0 /\ clave'[A] = clave[A]
    BY <1>1, <1>2, <1>3, <1>7, <2>2, Borra
  <2> QED
    BY <1>2, <2>1, <2>2, <2>3 DEF ArranqueEnOrden, EnServicio, A, B
<1>8. CASE EnArranque(5) /\ CreateChannel(A)
  <2>1. pcMotor = "recrear1" /\ pcMotor' = "recrear2"
    BY <1>8 DEF EnArranque, Arranque
  <2>2. clave[B] = 0
    BY <2>1 DEF ArranqueEnOrden, B
  <2>3. /\ ClavesVivas' /\ ColasNumeradas' /\ canalMotor' \in [Canales -> Nat] /\ Tiene(A)'
        /\ clave'[B] = clave[B]
    BY <1>1, <1>2, <1>3, <1>8, Crea
  <2> QED
    BY <2>1, <2>2, <2>3 DEF ArranqueEnOrden, EnServicio, A, B
<1>9. CASE EnArranque(6) /\ CreateChannel(B)
  <2>1. pcMotor = "recrear2" /\ pcMotor' = "escuchar"
    BY <1>9 DEF EnArranque, Arranque
  <2>2. Tiene(A)
    BY <2>1 DEF ArranqueEnOrden, A
  <2>3. /\ ClavesVivas' /\ ColasNumeradas' /\ canalMotor' \in [Canales -> Nat] /\ Tiene(B)'
        /\ clave'[A] = clave[A] /\ canalMotor'[A] = canalMotor[A]
    BY <1>1, <1>2, <1>3, <1>9, Crea
  <2> QED
    BY <2>1, <2>2, <2>3 DEF ArranqueEnOrden, EnServicio, Tiene, A, B
<1> QED
  BY <1>4, <1>5, <1>6, <1>7, <1>8, <1>9 DEF Arrancar, A, B

(* The steps of the engine that answer a query.                            *)
LEMMA PasoMotorConserva ==
  ASSUME InvCanales, PasoMotor
  PROVE  InvCanales'
<1>1. UNCHANGED <<clave, viva, canalMotor>> /\ EnServicio /\ EnServicio'
  BY DEF PasoMotor, LeerConsulta, LeerMetodo, EnviarCodigo, EnviarDocumento, EnviarFin, EnServicio
<1>2. \E id, m : Msgsnd(id, m) \/ Msgrcv(id, m)
  BY DEF PasoMotor, LeerConsulta, LeerMetodo, EnviarCodigo, EnviarDocumento, EnviarFin
<1>3. ColasNumeradas'
  BY <1>1, <1>2, SoloMensajes DEF InvCanales
<1> QED
  BY <1>1, <1>3, Quietos

(* The steps of a client, and its being killed.                            *)
LEMMA PasoClienteConserva ==
  ASSUME InvCanales, NEW c \in Clientes, AbrirPedido(c) \/ PasoCliente(c) \/ Abortar(c)
  PROVE  InvCanales'
<1>1. UNCHANGED <<clave, viva, canalMotor, pcMotor>>
  BY DEF AbrirPedido, PasoCliente, AbrirRespuesta, Abrir, Enviar, RecibirCodigo, Recibir,
         RecibirFalla, Abortar, colas, motor
<1>2. UNCHANGED cola \/ \E id, m : Msgsnd(id, m) \/ Msgrcv(id, m)
  BY DEF AbrirPedido, PasoCliente, AbrirRespuesta, Abrir, Enviar, RecibirCodigo, Recibir,
         RecibirFalla, Abortar, colas
<1>3. ColasNumeradas'
  <2>1. CASE UNCHANGED cola
    BY <1>1, <2>1 DEF InvCanales, ColasNumeradas
  <2>2. CASE \E id, m : Msgsnd(id, m) \/ Msgrcv(id, m)
    BY <1>1, <2>2, SoloMensajes DEF InvCanales
  <2> QED
    BY <1>2, <2>1, <2>2
<1> QED
  BY <1>1, <1>3, Quietos

(* A kill of the engine leaves the queues and their keys to the next one.  *)
LEMMA CaerConserva ==
  ASSUME InvCanales, Caer
  PROVE  InvCanales'
<1>1. ClavesVivas' /\ ColasNumeradas'
  BY DEF InvCanales, Caer, colas, ClavesVivas, ColasNumeradas
<1>2. ArranqueEnOrden'
  BY DEF Caer, ArranqueEnOrden, EnServicio, Cerrados
<1> QED
  BY <1>1, <1>2 DEF InvCanales

(* In every reachable state each key names a queue that exists or none,    *)
(* and the engine holds what its point of the startup says.                *)
THEOREM InvCanalesSiempre == Spec => []InvCanales
<1>1. Init => InvCanales
  BY InvCanalesInicial
<1>2. InvCanales /\ [Next]_vars => InvCanales'
  <2> SUFFICES ASSUME InvCanales, [Next]_vars PROVE InvCanales'
    OBVIOUS
  <2>1. CASE Next
    BY <2>1, ArrancarConserva, PasoMotorConserva, PasoClienteConserva, CaerConserva DEF Next
  <2>2. CASE UNCHANGED vars
    <3>1. UNCHANGED <<clave, cola, viva, canalMotor, pcMotor>>
      BY <2>2 DEF vars, colas, motor
    <3> QED
      BY <3>1, Quietos DEF InvCanales, ColasNumeradas
  <2> QED
    BY <2>1, <2>2
<1> QED
  BY <1>1, <1>2, PTL DEF Spec

(* Once it listens, the engine holds the queues the keys name, and they    *)
(* exist: whatever an earlier engine left, wherever it was killed and      *)
(* however many requests run against it (createChannel and destroyChannel  *)
(* in main of search_engine).                                              *)
THEOREM SiempreEnSusCanales == Spec => []MotorEnSusCanales
<1>1. InvCanales => MotorEnSusCanales
  <2> SUFFICES ASSUME InvCanales, EnServicio
               PROVE  canalMotor = clave /\ \A k \in Canales : canalMotor[k] \in viva
    BY DEF MotorEnSusCanales
  <2>1. /\ clave \in [Canales -> Nat] /\ canalMotor \in [Canales -> Nat]
        /\ \A k \in Canales : canalMotor[k] = clave[k] /\ clave[k] # 0
        /\ \A k \in Canales : clave[k] # 0 => clave[k] \in viva
    BY DEF InvCanales, ClavesVivas, ArranqueEnOrden, Tiene, Canales
  <2>2. canalMotor = clave
    BY <2>1
  <2> QED
    BY <2>1, <2>2
<1> QED
  BY <1>1, InvCanalesSiempre, PTL
-----------------------------------------------------------------------------
(* The refinement, for one request at a time.  A place of a reply is a     *)
(* pair: document and character in it; <<0, 1>> is the code, document      *)
(* n + 1 is the '\0' that ends the reply and n + 2 is past it.             *)
Lugares(r) ==
  { <<0, 1>>, <<Len(r.docs) + 1, 1>>, <<Len(r.docs) + 2, 1>> }
  \cup UNION { { <<i, j>> : j \in 1..(Len(r.docs[i]) + 1) } : i \in 1..Len(r.docs) }
Comienzo == <<0, 1>>
Fin(r) == <<Len(r.docs) + 2, 1>>
EsLetra(r, p) == p[1] \in 1..Len(r.docs) /\ p[2] <= Len(r.docs[p[1]])
Siguiente(r, p) == IF EsLetra(r, p) THEN <<p[1], p[2] + 1>> ELSE <<p[1] + 1, 1>>
Caracter(r, p) ==
  IF p = Comienzo THEN IF r.isOk THEN "1" ELSE "2"
  ELSE IF EsLetra(r, p) THEN r.docs[p[1]][p[2]] ELSE Nul

(* The queue has the characters from one place of the reply to another.    *)
EnCamino(r, q, de, al) ==
  \E w \in [1..(Len(q) + 1) -> Lugares(r)] :
    /\ w[1] = de /\ w[Len(q) + 1] = al
    /\ \A k \in 1..Len(q) :
         w[k] # Fin(r) /\ w[k + 1] = Siguiente(r, w[k]) /\ q[k] = Caracter(r, w[k])

(* What has been received up to a place, and what is left to send from it. *)
Leido(r, ds, d, p) ==
  /\ p \in Lugares(r) /\ p[1] \in 1..(Len(r.docs) + 1)
  /\ ds = SubSeq(r.docs, 1, p[1] - 1)
  /\ d = IF p[1] <= Len(r.docs) THEN SubSeq(r.docs[p[1]], 1, p[2] - 1) ELSE <<>>
Queda(r, ds, p) ==
  /\ p \in Lugares(r) /\ p[1] \in 1..(Len(r.docs) + 1)
  /\ ds = IF p[1] <= Len(r.docs)
          THEN <<SubSeq(r.docs[p[1]], p[2], Len(r.docs[p[1]]))>> \o SubSeq(r.docs, p[1] + 1, Len(r.docs))
          ELSE <<>>

(* A request that has its queue of replies, and one the engine serves.     *)
Espera(c) == pc[c] \in {"enviar", "recibir"} /\ canal[c][SearchToCGI] \in viva
EnSesion(c) == Espera(c) /\ canal[c][CGItoSearch] \in viva
(* No request was killed with the queue of replies that there is now.      *)
Limpio == \A d \in Clientes : pc[d] = "abortado" => canal[d][SearchToCGI] # clave[SearchToCGI]

Pide(c) == pedido[c].consulta \o <<Nul, pedido[c].metodo>>
Va(c, p) ==
  \/ pc[c] = "enviar" /\ p = Comienzo
  \/ pc[c] = "recibir" /\ isError[c] = ~RespuestaDe(c).isOk /\ Leido(RespuestaDe(c), docs[c], currentDoc[c], p)

(* What the engine has read of the request and, from the place al, has to  *)
(* send of its reply.                                                      *)
Camino(c) == cola[clave[CGItoSearch]] \o busqueda[c]
Fase(c, al) ==
  \/ /\ pcMotor = "escuchar" /\ al = Comienzo
     /\ \E k \in 0..Len(pedido[c].consulta) :
          temp = SubSeq(pedido[c].consulta, 1, k) /\ Camino(c) = SubSeq(Pide(c), k + 1, Len(Pide(c)))
  \/ pcMotor = "metodo" /\ al = Comienzo /\ temp = pedido[c].consulta /\ Camino(c) = <<pedido[c].metodo>>
  \/ /\ pcMotor = "codigo" /\ al = Comienzo /\ Camino(c) = <<>>
     /\ isOk = RespuestaDe(c).isOk /\ documentos = RespuestaDe(c).docs
  \/ pcMotor = "responder" /\ Camino(c) = <<>> /\ Queda(RespuestaDe(c), documentos, al)
  \/ pcMotor = "escuchar" /\ temp = <<>> /\ Camino(c) = <<>> /\ al = Fin(RespuestaDe(c))

(* The two ends and what each client holds, in words the provers can use.  *)
TiposDelServicio ==
  /\ pc \in [Clientes -> {"inicio", "abrir2", "enviar", "recibir"} \cup Finales]
  /\ pedido \in [Clientes -> [consulta : Consultas, metodo : Metodos]]
  /\ canal \in [Clientes -> [Canales -> Nat]]
  /\ busqueda \in [Clientes -> Seq(Caracteres)]
  /\ isError \in [Clientes -> BOOLEAN]
  /\ currentDoc = [c \in Clientes |-> currentDoc[c]] /\ docs = [c \in Clientes |-> docs[c]]
ColasDeMensajes == \A i \in 1..Len(cola) : EsSecuencia(cola[i])
UnoALaVez == \A c, d \in Activos : c = d

(* Queues of a client: those there are now are the ones the keys name, and *)
(* who has one to ask has one for the reply.                               *)
CanalesDe(c) ==
  /\ \A k \in Canales : canal[c][k] <= Len(cola) /\ (canal[c][k] \in viva => canal[c][k] = clave[k])
  /\ canal[c][CGItoSearch] \in viva /\ canal[c][SearchToCGI] # 0 => canal[c][SearchToCGI] \in viva
CanalesDeClientes == \A c \in Clientes : CanalesDe(c)

(* What a client has at each point of its request.                         *)
PasosDe(c) ==
  /\ pc[c] = "inicio" => canal[c] = Cerrados
  /\ pc[c] = "abrir2" => canal[c][CGItoSearch] # 0 /\ canal[c][SearchToCGI] = 0 /\ busqueda[c] = Pide(c)
  /\ pc[c] \in {"enviar", "recibir"} => canal[c][CGItoSearch] # 0 /\ canal[c][SearchToCGI] # 0
  /\ pc[c] \in {"inicio", "abrir2", "enviar"} => docs[c] = <<>> /\ currentDoc[c] = <<>>
  /\ pc[c] = "recibir" => busqueda[c] = <<>>
Pasos == \A c \in Clientes : PasosDe(c)

(* What the engine starts from.                                            *)
Reposo ==
  /\ ~EnServicio => temp = <<>>
  /\ pcMotor = "recrear2" => cola[clave[CGItoSearch]] = <<>>

(* The reply on its way to who waits for it: from where the client is to   *)
(* where the engine is.                                                    *)
RespuestasEnCamino ==
  Limpio =>
    \A c \in Clientes : Espera(c) =>
      \E de, al \in Lugares(RespuestaDe(c)) :
        /\ Va(c, de)
        /\ EnCamino(RespuestaDe(c), cola[clave[SearchToCGI]], de, al)
        /\ EnServicio /\ EnSesion(c) => Fase(c, al)

(* With nobody waiting for replies or asking, nothing is on its way.       *)
NadieEspera ==
  Limpio /\ clave[SearchToCGI] # 0 /\ (\A c \in Clientes : ~Espera(c)) => cola[clave[SearchToCGI]] = <<>>
MotorOcioso ==
  Limpio /\ EnServicio /\ (\A c \in Clientes : ~EnSesion(c)) =>
    /\ pcMotor = "escuchar" /\ temp = <<>>
    /\ cola[clave[CGItoSearch]] = <<>> /\ cola[clave[SearchToCGI]] = <<>>

InvServicio ==
  /\ InvCanales /\ TiposDelServicio /\ ColasDeMensajes /\ UnoALaVez /\ CanalesDeClientes /\ Pasos /\ Reposo
  /\ RespuestasEnCamino /\ NadieEspera /\ MotorOcioso
-----------------------------------------------------------------------------
(* A sequence with an element before it.                                   *)
LEMMA ConCabeza ==
  ASSUME NEW S, NEW y \in S, NEW z \in Seq(S)
  PROVE  <<y>> \o z \in Seq(S) /\ <<y>> \o z # <<>> /\ Head(<<y>> \o z) = y /\ Tail(<<y>> \o z) = z
<1> DEFINE ds == <<y>> \o z
<1>1. ds \in Seq(S) /\ Len(ds) = Len(z) + 1 /\ Len(z) \in Nat /\ ds[1] = y /\ \A k \in 1..Len(z) : ds[k + 1] = z[k]
  OBVIOUS
<1> HIDE DEF ds
<1>2. ds # <<>> /\ Head(ds) = y
  BY <1>1
<1>3. Tail(ds) = z
  <2>1. Tail(ds) \in Seq(S) /\ Len(Tail(ds)) = Len(z) /\ \A k \in 1..Len(z) : Tail(ds)[k] = z[k]
    BY <1>1
  <2> QED
    BY <2>1
<1> QED
  BY <1>1, <1>2, <1>3 DEF ds

(* A sequence with another first element.                                  *)
LEMMA OtraCabeza ==
  ASSUME NEW S, NEW ds \in Seq(S), ds # <<>>, NEW x \in S
  PROVE  [ds EXCEPT ![1] = x] = <<x>> \o Tail(ds)
<1> DEFINE u == [ds EXCEPT ![1] = x]
           z == Tail(ds)
           v == <<x>> \o z
<1>1. Len(z) \in Nat /\ z \in Seq(S) /\ Len(ds) = Len(z) + 1 /\ \A k \in 1..Len(z) : ds[k + 1] = z[k]
  OBVIOUS
<1>2. u \in Seq(S) /\ Len(u) = Len(z) + 1 /\ u[1] = x /\ \A k \in 1..Len(z) : u[k + 1] = z[k]
  <2>1. 1 \in 1..Len(ds) /\ \A k \in 1..Len(z) : k + 1 \in 1..Len(ds) /\ k + 1 # 1
    BY <1>1
  <2>2. ds \in [1..Len(ds) -> S]
    OBVIOUS
  <2> HIDE DEF z
  <2>3. u[1] = x /\ \A k \in 1..Len(z) : u[k + 1] = ds[k + 1]
    BY <2>1, <2>2
  <2>4. u \in Seq(S) /\ Len(u) = Len(ds)
    OBVIOUS
  <2> HIDE DEF u
  <2> QED
    BY <1>1, <2>3, <2>4
<1> HIDE DEF z
<1>3. v \in Seq(S) /\ Len(v) = Len(z) + 1 /\ v[1] = x /\ \A k \in 1..Len(z) : v[k + 1] = z[k]
  BY <1>1
<1> HIDE DEF u, v
<1>4. ASSUME NEW k \in 1..Len(u) PROVE u[k] = v[k]
  <2>1. CASE k = 1
    BY <1>2, <1>3, <2>1
  <2>2. CASE k # 1
    <3>1. k - 1 \in 1..Len(z) /\ (k - 1) + 1 = k
      BY <1>1, <1>2, <2>2
    <3> QED
      BY <1>2, <1>3, <3>1
  <2> QED
    BY <2>1, <2>2
<1>5. u = v
  BY <1>2, <1>3, <1>4
<1> QED
  BY <1>5 DEF u, v, z

(* Pieces of a sequence: all of it, none of it, one with an element more   *)
(* at its end and one with an element less at its beginning.               *)
LEMMA Trozos ==
  ASSUME NEW S, NEW s \in Seq(S)
  PROVE  /\ SubSeq(s, 1, Len(s)) = s /\ SubSeq(s, 1, 0) = <<>> /\ SubSeq(s, Len(s) + 1, Len(s)) = <<>>
         /\ \A i \in 1..Len(s) :
              /\ Append(SubSeq(s, 1, i - 1), s[i]) = SubSeq(s, 1, i)
              /\ SubSeq(s, i, Len(s)) = <<s[i]>> \o SubSeq(s, i + 1, Len(s))
              /\ SubSeq(s, i, Len(s)) \in Seq(S) /\ SubSeq(s, i, Len(s)) # <<>>
              /\ Head(SubSeq(s, i, Len(s))) = s[i] /\ Tail(SubSeq(s, i, Len(s))) = SubSeq(s, i + 1, Len(s))
              /\ SubSeq(s, i + 1, Len(s)) \in Seq(S)
<1>1. SubSeq(s, 1, Len(s)) = s /\ SubSeq(s, 1, 0) = <<>> /\ SubSeq(s, Len(s) + 1, Len(s)) = <<>>
  OBVIOUS
<1>2. ASSUME NEW i \in 1..Len(s)
      PROVE  /\ Append(SubSeq(s, 1, i - 1), s[i]) = SubSeq(s, 1, i)
             /\ SubSeq(s, i, Len(s)) = <<s[i]>> \o SubSeq(s, i + 1, Len(s))
             /\ SubSeq(s, i, Len(s)) \in Seq(S) /\ SubSeq(s, i, Len(s)) # <<>>
             /\ Head(SubSeq(s, i, Len(s))) = s[i] /\ Tail(SubSeq(s, i, Len(s))) = SubSeq(s, i + 1, Len(s))
             /\ SubSeq(s, i + 1, Len(s)) \in Seq(S)
  <2>1. Append(SubSeq(s, 1, i - 1), s[i]) = SubSeq(s, 1, i)
    OBVIOUS
  <2>2. SubSeq(s, i, Len(s)) = <<s[i]>> \o SubSeq(s, i + 1, Len(s))
    OBVIOUS
  <2>3. s[i] \in S /\ SubSeq(s, i + 1, Len(s)) \in Seq(S)
    OBVIOUS
  <2> QED
    BY <2>1, <2>2, <2>3, ConCabeza
<1> QED
  BY <1>1, <1>2
-----------------------------------------------------------------------------
(* The documents of a result, in words the provers can use.                *)
LEMMA Documentos ==
  ASSUME NEW r \in Resultados
  PROVE  /\ r.isOk \in BOOLEAN /\ r.docs \in Seq(Seq(Letras)) /\ Len(r.docs) \in Nat
         /\ \A i \in 1..Len(r.docs) :
              /\ r.docs[i] \in Seq(Letras) /\ r.docs[i] # <<>>
              /\ Len(r.docs[i]) \in Nat /\ Len(r.docs[i]) > 0
              /\ \A j \in 1..Len(r.docs[i]) : r.docs[i][j] \in Letras /\ r.docs[i][j] # Nul
<1>1. r.isOk \in BOOLEAN /\ r.docs \in Seq(Seq(Letras) \ {<<>>}) /\ r.docs \in Seq(Seq(Letras))
  BY DEF Resultados
<1>2. Len(r.docs) \in Nat
  BY <1>1
<1>3. ASSUME NEW i \in 1..Len(r.docs)
      PROVE  /\ r.docs[i] \in Seq(Letras) /\ r.docs[i] # <<>>
             /\ Len(r.docs[i]) \in Nat /\ Len(r.docs[i]) > 0
             /\ \A j \in 1..Len(r.docs[i]) : r.docs[i][j] \in Letras /\ r.docs[i][j] # Nul
  <2>1. r.docs[i] \in Seq(Letras) \ {<<>>}
    BY <1>1
  <2> DEFINE d == r.docs[i]
  <2>2. d \in Seq(Letras) /\ d # <<>>
    BY <2>1
  <2> HIDE DEF d
  <2>3. Len(d) \in Nat /\ Len(d) > 0 /\ \A j \in 1..Len(d) : d[j] \in Letras
    BY <2>2
  <2>4. \A j \in 1..Len(d) : d[j] # Nul
    BY <2>3, NulNoEsLetra
  <2> QED
    BY <2>2, <2>3, <2>4 DEF d
<1> QED
  BY <1>1, <1>2, <1>3

(* Which pairs are places.                                                 *)
LEMMA EsLugar ==
  ASSUME NEW r \in Resultados, NEW p
  PROVE  p \in Lugares(r) <=>
           \E i, j \in Nat :
             /\ p = <<i, j>>
             /\ \/ i = 0 /\ j = 1
                \/ i \in 1..Len(r.docs) /\ j \in 1..(Len(r.docs[i]) + 1)
                \/ i \in {Len(r.docs) + 1, Len(r.docs) + 2} /\ j = 1
<1>1. Len(r.docs) \in Nat
  BY Documentos
<1>2. ASSUME p \in Lugares(r)
      PROVE  \E i, j \in Nat :
             /\ p = <<i, j>>
             /\ \/ i = 0 /\ j = 1
                \/ i \in 1..Len(r.docs) /\ j \in 1..(Len(r.docs[i]) + 1)
                \/ i \in {Len(r.docs) + 1, Len(r.docs) + 2} /\ j = 1
  <2>1. CASE p \in { <<0, 1>>, <<Len(r.docs) + 1, 1>>, <<Len(r.docs) + 2, 1>> }
    BY <1>1, <2>1
  <2>2. CASE \E i \in 1..Len(r.docs) : p \in { <<i, j>> : j \in 1..(Len(r.docs[i]) + 1) }
    <3>1. PICK i \in 1..Len(r.docs) : \E j \in 1..(Len(r.docs[i]) + 1) : p = <<i, j>>
      BY <2>2
    <3>2. PICK j \in 1..(Len(r.docs[i]) + 1) : p = <<i, j>>
      BY <3>1
    <3>3. Len(r.docs[i]) \in Nat
      BY Documentos
    <3>4. i \in Nat /\ j \in Nat
      BY <1>1, <3>3
    <3> QED
      BY <3>2, <3>4
  <2> QED
    BY <1>2, <2>1, <2>2 DEF Lugares
<1>3. ASSUME NEW i \in Nat, NEW j \in Nat, p = <<i, j>>,
             \/ i = 0 /\ j = 1
             \/ i \in 1..Len(r.docs) /\ j \in 1..(Len(r.docs[i]) + 1)
             \/ i \in {Len(r.docs) + 1, Len(r.docs) + 2} /\ j = 1
      PROVE  p \in Lugares(r)
  <2>1. CASE i \in 1..Len(r.docs) /\ j \in 1..(Len(r.docs[i]) + 1)
    <3>1. p \in { <<i, jj>> : jj \in 1..(Len(r.docs[i]) + 1) }
      BY <1>3, <2>1
    <3> QED
      BY <2>1, <3>1 DEF Lugares
  <2>2. CASE (i = 0 /\ j = 1) \/ (i \in {Len(r.docs) + 1, Len(r.docs) + 2} /\ j = 1)
    BY <1>3, <2>2 DEF Lugares
  <2> QED
    BY <1>3, <2>1, <2>2
<1> QED
  BY <1>2, <1>3

(* Where the next place is.                                                *)
LEMMA SiguienteEsLugar ==
  ASSUME NEW r \in Resultados, NEW p \in Lugares(r), p # Fin(r)
  PROVE  Siguiente(r, p) \in Lugares(r)
<1>1. PICK i, j \in Nat :
        /\ p = <<i, j>>
        /\ \/ i = 0 /\ j = 1
           \/ i \in 1..Len(r.docs) /\ j \in 1..(Len(r.docs[i]) + 1)
           \/ i \in {Len(r.docs) + 1, Len(r.docs) + 2} /\ j = 1
  BY EsLugar
<1>2. Len(r.docs) \in Nat /\ \A k \in 1..Len(r.docs) : Len(r.docs[k]) \in Nat
  BY Documentos
<1>3. p[1] = i /\ p[2] = j /\ ~(i = Len(r.docs) + 2)
  BY <1>1 DEF Fin
<1>4. CASE EsLetra(r, p)
  <2>1. Siguiente(r, p) = <<i, j + 1>> /\ i \in 1..Len(r.docs) /\ j + 1 \in 1..(Len(r.docs[i]) + 1)
    BY <1>1, <1>2, <1>3, <1>4 DEF Siguiente, EsLetra
  <2>2. j + 1 \in Nat
    OBVIOUS
  <2> QED
    BY <2>1, <2>2, EsLugar
<1>5. CASE ~EsLetra(r, p)
  <2>1. Siguiente(r, p) = <<i + 1, 1>> /\ i + 1 \in Nat
    BY <1>3, <1>5 DEF Siguiente
  <2>2. i + 1 \in 1..Len(r.docs) \/ i + 1 = Len(r.docs) + 1 \/ i + 1 = Len(r.docs) + 2
    BY <1>1, <1>2, <1>3
  <2>3. i + 1 \in 1..Len(r.docs) => 1 \in 1..(Len(r.docs[i + 1]) + 1)
    BY <1>2
  <2> QED
    BY <2>1, <2>2, <2>3, EsLugar
<1> QED
  BY <1>4, <1>5

(* An empty queue is between a place and itself.                           *)
LEMMA CaminoVacio ==
  ASSUME NEW r, NEW p \in Lugares(r)
  PROVE  EnCamino(r, <<>>, p, p)
<1> DEFINE w == [k \in 1..1 |-> p]
<1>1. w \in [1..(Len(<<>>) + 1) -> Lugares(r)] /\ w[1] = p /\ w[Len(<<>>) + 1] = p
  OBVIOUS
<1>2. 1..Len(<<>>) = {}
  OBVIOUS
<1> HIDE DEF w
<1> QED
  BY <1>1, <1>2 DEF EnCamino

(* Sending the character of a place takes the queue to the next one.       *)
LEMMA CaminoMas ==
  ASSUME NEW r \in Resultados, NEW C, NEW q \in Seq(C), NEW de, NEW p \in Lugares(r),
         EnCamino(r, q, de, p), p # Fin(r)
  PROVE  EnCamino(r, Append(q, Caracter(r, p)), de, Siguiente(r, p))
<1> DEFINE n == Len(q)
           x == Caracter(r, p)
           q2 == Append(q, x)
           sig == Siguiente(r, p)
<1>1. PICK w \in [1..(n + 1) -> Lugares(r)] :
        /\ w[1] = de /\ w[n + 1] = p
        /\ \A k \in 1..n : w[k] # Fin(r) /\ w[k + 1] = Siguiente(r, w[k]) /\ q[k] = Caracter(r, w[k])
  BY DEF EnCamino
<1>2. sig \in Lugares(r)
  BY SiguienteEsLugar
<1> HIDE DEF x, sig
<1>3. n \in Nat /\ Len(q2) = n + 1 /\ q2[n + 1] = x /\ \A k \in 1..n : q2[k] = q[k]
  OBVIOUS
<1> HIDE DEF n, q2
<1> DEFINE v == [k \in 1..(n + 2) |-> IF k = n + 2 THEN sig ELSE w[k]]
<1>4. v \in [1..(n + 2) -> Lugares(r)]
  BY <1>1, <1>2, <1>3
<1>5. v[1] = de /\ v[n + 2] = sig /\ v[n + 1] = p /\ \A k \in 1..(n + 1) : v[k] = w[k]
  BY <1>1, <1>3
<1> HIDE DEF v
<1>6. ASSUME NEW k \in 1..(n + 1)
      PROVE  v[k] # Fin(r) /\ v[k + 1] = Siguiente(r, v[k]) /\ q2[k] = Caracter(r, v[k])
  <2>1. CASE k = n + 1
    BY <1>3, <1>5, <2>1 DEF x, sig
  <2>2. CASE k \in 1..n
    <3>1. k + 1 \in 1..(n + 1)
      BY <1>3, <2>2
    <3> QED
      BY <1>1, <1>3, <1>5, <2>2, <3>1
  <2> QED
    BY <1>3, <2>1, <2>2
<1>7. n + 2 = Len(q2) + 1
  BY <1>3
<1>8. EnCamino(r, q2, de, sig)
  BY <1>3, <1>4, <1>5, <1>6, <1>7 DEF EnCamino
<1> QED
  BY <1>8 DEF q2, x, sig

(* What is received is the character of the place, and the rest of the     *)
(* queue starts at the next one.                                           *)
LEMMA CaminoMenos ==
  ASSUME NEW r, NEW C, NEW q \in Seq(C), q # <<>>, NEW de, NEW p, EnCamino(r, q, de, p)
  PROVE  /\ de \in Lugares(r) /\ de # Fin(r) /\ Head(q) = Caracter(r, de)
         /\ EnCamino(r, Tail(q), Siguiente(r, de), p)
<1> DEFINE n == Len(q)
           t == Tail(q)
<1>1. PICK w \in [1..(n + 1) -> Lugares(r)] :
        /\ w[1] = de /\ w[n + 1] = p
        /\ \A k \in 1..n : w[k] # Fin(r) /\ w[k + 1] = Siguiente(r, w[k]) /\ q[k] = Caracter(r, w[k])
  BY DEF EnCamino
<1>2. n \in Nat /\ n > 0 /\ Head(q) = q[1] /\ Len(t) = n - 1 /\ \A k \in 1..(n - 1) : t[k] = q[k + 1]
  OBVIOUS
<1> HIDE DEF n, t
<1>3. 1 \in 1..n /\ 1 \in 1..(n + 1)
  BY <1>2
<1>4. de \in Lugares(r) /\ de # Fin(r) /\ Head(q) = Caracter(r, de) /\ w[2] = Siguiente(r, de)
  <2>1. w[1] # Fin(r) /\ w[1 + 1] = Siguiente(r, w[1]) /\ q[1] = Caracter(r, w[1])
    BY <1>1, <1>3
  <2> QED
    BY <1>1, <1>2, <1>3, <2>1
<1> DEFINE v == [k \in 1..n |-> w[k + 1]]
<1>5. v \in [1..n -> Lugares(r)]
  BY <1>1, <1>2
<1>6. v[1] = Siguiente(r, de) /\ v[n] = p /\ \A k \in 1..n : v[k] = w[k + 1]
  BY <1>1, <1>2, <1>4
<1> HIDE DEF v
<1>7. ASSUME NEW k \in 1..(n - 1)
      PROVE  v[k] # Fin(r) /\ v[k + 1] = Siguiente(r, v[k]) /\ t[k] = Caracter(r, v[k])
  <2>1. k \in 1..n /\ k + 1 \in 1..n
    BY <1>2
  <2>2. w[k + 1] # Fin(r) /\ w[(k + 1) + 1] = Siguiente(r, w[k + 1]) /\ q[k + 1] = Caracter(r, w[k + 1])
    BY <1>1, <2>1
  <2> QED
    BY <1>2, <1>6, <2>1, <2>2
<1>8. n = Len(t) + 1 /\ n - 1 = Len(t)
  BY <1>2
<1>9. EnCamino(r, t, Siguiente(r, de), p)
  BY <1>5, <1>6, <1>7, <1>8 DEF EnCamino
<1> QED
  BY <1>4, <1>9 DEF t

(* At the end of the reply nothing is on its way.                          *)
LEMMA CaminoAcabado ==
  ASSUME NEW r, NEW C, NEW q \in Seq(C), NEW p, EnCamino(r, q, Fin(r), p)
  PROVE  q = <<>> /\ p = Fin(r)
<1>1. q = <<>>
  BY CaminoMenos
<1>2. Len(q) + 1 = 1
  BY <1>1
<1> QED
  BY <1>1, <1>2 DEF EnCamino
-----------------------------------------------------------------------------
(* The client's end.  Another letter of a document is received,            *)
LEMMA LeidoLetra ==
  ASSUME NEW r \in Resultados, NEW ds, NEW d, NEW p, Leido(r, ds, d, p), Caracter(r, p) # Nul
  PROVE  Leido(r, ds, Append(d, Caracter(r, p)), Siguiente(r, p))
<1> DEFINE n == Len(r.docs)
<1>1. PICK i, j \in Nat :
        /\ p = <<i, j>>
        /\ \/ i = 0 /\ j = 1
           \/ i \in 1..n /\ j \in 1..(Len(r.docs[i]) + 1)
           \/ i \in {n + 1, n + 2} /\ j = 1
  BY EsLugar DEF Leido
<1>2. p[1] = i /\ p[2] = j /\ i \in 1..(n + 1) /\ p # Comienzo /\ p # Fin(r)
  BY <1>1, Documentos DEF Leido, Comienzo, Fin
<1>3. EsLetra(r, p) /\ Caracter(r, p) = r.docs[i][j] /\ i \in 1..n /\ j \in 1..Len(r.docs[i])
  BY <1>1, <1>2, Documentos DEF Caracter, EsLetra
<1>4. Siguiente(r, p) = <<i, j + 1>>
  BY <1>2, <1>3 DEF Siguiente
<1>5. Siguiente(r, p) \in Lugares(r)
  BY <1>2, SiguienteEsLugar DEF Leido
<1>6. d = SubSeq(r.docs[i], 1, j - 1) /\ ds = SubSeq(r.docs, 1, i - 1)
  BY <1>2, <1>3 DEF Leido
<1>7. Append(d, r.docs[i][j]) = SubSeq(r.docs[i], 1, (j + 1) - 1)
  <2> DEFINE x == r.docs[i]
  <2>1. x \in Seq(Letras) /\ j \in 1..Len(x)
    BY <1>3, Documentos
  <2> HIDE DEF x
  <2>2. Append(SubSeq(x, 1, j - 1), x[j]) = SubSeq(x, 1, (j + 1) - 1)
    BY <2>1
  <2> QED
    BY <1>6, <2>2 DEF x
<1> QED
  BY <1>2, <1>3, <1>4, <1>5, <1>6, <1>7, Documentos DEF Leido

(* its '\0',                                                               *)
LEMMA LeidoDocumento ==
  ASSUME NEW r \in Resultados, NEW ds, NEW d, NEW p, Leido(r, ds, d, p), Caracter(r, p) = Nul, d # <<>>
  PROVE  Leido(r, Append(ds, d), <<>>, Siguiente(r, p))
<1> DEFINE n == Len(r.docs)
<1>1. PICK i, j \in Nat :
        /\ p = <<i, j>>
        /\ \/ i = 0 /\ j = 1
           \/ i \in 1..n /\ j \in 1..(Len(r.docs[i]) + 1)
           \/ i \in {n + 1, n + 2} /\ j = 1
  BY EsLugar DEF Leido
<1>2. p[1] = i /\ p[2] = j /\ i \in 1..(n + 1) /\ p # Comienzo /\ p # Fin(r) /\ n \in Nat
  BY <1>1, Documentos DEF Leido, Comienzo, Fin
<1>3. i \in 1..n /\ d = SubSeq(r.docs[i], 1, j - 1) /\ ds = SubSeq(r.docs, 1, i - 1)
  BY <1>1, <1>2 DEF Leido
<1>4. j = Len(r.docs[i]) + 1 /\ ~EsLetra(r, p)
  <2>1. ASSUME j <= Len(r.docs[i])
        PROVE  FALSE
    <3>1. EsLetra(r, p) /\ j \in 1..Len(r.docs[i])
      BY <1>1, <1>2, <1>3, <2>1 DEF EsLetra
    <3>2. Caracter(r, p) = r.docs[i][j]
      BY <1>2, <3>1 DEF Caracter
    <3> QED
      BY <1>3, <3>1, <3>2, Documentos
  <2>2. j \in 1..(Len(r.docs[i]) + 1)
    BY <1>1, <1>2, <1>3
  <2>3. Len(r.docs[i]) \in Nat
    BY <1>3, Documentos
  <2>4. j = Len(r.docs[i]) + 1
    BY <2>1, <2>2, <2>3
  <2> QED
    BY <1>2, <2>3, <2>4 DEF EsLetra
<1>5. Siguiente(r, p) = <<i + 1, 1>>
  BY <1>2, <1>4 DEF Siguiente
<1>6. Siguiente(r, p) \in Lugares(r)
  BY <1>2, SiguienteEsLugar DEF Leido
<1>7. d = r.docs[i]
  <2> DEFINE x == r.docs[i]
  <2>1. x \in Seq(Letras) /\ j = Len(x) + 1
    BY <1>3, <1>4, Documentos
  <2> HIDE DEF x
  <2>2. SubSeq(x, 1, j - 1) = x
    BY <2>1
  <2> QED
    BY <1>3, <2>2 DEF x
<1>8. Append(ds, d) = SubSeq(r.docs, 1, (i + 1) - 1)
  <2> DEFINE x == r.docs
  <2>1. x \in Seq(Seq(Letras)) /\ i \in 1..Len(x)
    BY <1>3, Documentos
  <2> HIDE DEF x
  <2>2. Append(SubSeq(x, 1, i - 1), x[i]) = SubSeq(x, 1, (i + 1) - 1)
    BY <2>1
  <2> QED
    BY <1>3, <1>7, <2>2 DEF x
<1>9. <<>> = IF i + 1 <= n THEN SubSeq(r.docs[i + 1], 1, 1 - 1) ELSE <<>>
  <2>1. CASE i + 1 <= n
    <3> DEFINE x == r.docs[i + 1]
    <3>1. x \in Seq(Letras)
      BY <1>2, <1>3, <2>1, Documentos
    <3> HIDE DEF x
    <3>2. SubSeq(x, 1, 1 - 1) = <<>>
      BY <3>1
    <3> QED
      BY <2>1, <3>2 DEF x
  <2> QED
    BY <2>1
<1>10. i + 1 \in 1..(n + 1)
  BY <1>2, <1>3
<1> HIDE DEF n
<1> QED
  BY <1>5, <1>6, <1>8, <1>9, <1>10 DEF Leido, n

(* or the one that ends the reply, when it has all of it.                  *)
LEMMA LeidoTodo ==
  ASSUME NEW r \in Resultados, NEW ds, NEW p, Leido(r, ds, <<>>, p), Caracter(r, p) = Nul
  PROVE  ds = r.docs /\ Siguiente(r, p) = Fin(r) /\ p # Fin(r)
<1> DEFINE n == Len(r.docs)
<1>1. PICK i, j \in Nat :
        /\ p = <<i, j>>
        /\ \/ i = 0 /\ j = 1
           \/ i \in 1..n /\ j \in 1..(Len(r.docs[i]) + 1)
           \/ i \in {n + 1, n + 2} /\ j = 1
  BY EsLugar DEF Leido
<1>2. p[1] = i /\ p[2] = j /\ i \in 1..(n + 1) /\ p # Comienzo /\ p # Fin(r) /\ n \in Nat
  BY <1>1, Documentos DEF Leido, Comienzo, Fin
<1>3. ~(i \in 1..n)
  <2> SUFFICES ASSUME i \in 1..n PROVE FALSE
    OBVIOUS
  <2>1. SubSeq(r.docs[i], 1, j - 1) = <<>>
    BY <1>2 DEF Leido
  <2> DEFINE x == r.docs[i]
  <2>2. x \in Seq(Letras) /\ Len(x) > 0 /\ j \in 1..(Len(x) + 1)
    <3>1. j \in 1..(Len(x) + 1)
      BY <1>1, <1>2
    <3>2. x \in Seq(Letras) /\ Len(x) > 0
      BY Documentos
    <3> QED
      BY <3>1, <3>2
  <2>3. SubSeq(x, 1, j - 1) = <<>>
    BY <2>1
  <2> HIDE DEF x
  <2>4. j = 1
    BY <2>2, <2>3
  <2>5. EsLetra(r, p) /\ 1 \in 1..Len(r.docs[i])
    BY <1>2, <2>2, <2>4 DEF EsLetra, x
  <2>6. Caracter(r, p) = r.docs[i][1]
    BY <1>2, <2>4, <2>5 DEF Caracter
  <2> QED
    BY <2>5, <2>6, Documentos
<1>4. i = n + 1 /\ j = 1
  BY <1>1, <1>2, <1>3
<1>5. Siguiente(r, p) = Fin(r)
  BY <1>2, <1>3, <1>4 DEF Siguiente, EsLetra, Fin
<1>6. SubSeq(r.docs, 1, n) = r.docs
  <2> DEFINE x == r.docs
  <2>1. x \in Seq(Seq(Letras))
    BY Documentos
  <2> HIDE DEF x
  <2>2. SubSeq(x, 1, Len(x)) = x
    BY <2>1
  <2> QED
    BY <2>2 DEF x
<1> QED
  BY <1>2, <1>4, <1>5, <1>6 DEF Leido
-----------------------------------------------------------------------------
(* The engine's end.  At the beginning all is left to send,                *)
LEMMA QuedaTodo ==
  ASSUME NEW r \in Resultados
  PROVE  /\ Queda(r, r.docs, Siguiente(r, Comienzo)) /\ Comienzo \in Lugares(r) /\ Comienzo # Fin(r)
         /\ Caracter(r, Comienzo) = IF r.isOk THEN "1" ELSE "2"
<1> DEFINE n == Len(r.docs)
<1>1. n \in Nat /\ r.docs \in Seq(Seq(Letras))
  BY Documentos
<1>2. Comienzo \in Lugares(r) /\ Comienzo # Fin(r) /\ Caracter(r, Comienzo) = IF r.isOk THEN "1" ELSE "2"
  BY <1>1 DEF Comienzo, Lugares, Fin, Caracter
<1>3. Siguiente(r, Comienzo) = <<1, 1>>
  BY <1>1 DEF Siguiente, EsLetra, Comienzo
<1>4. <<1, 1>> \in Lugares(r)
  BY <1>2, <1>3, SiguienteEsLugar
<1>5. CASE n = 0
  <2>1. r.docs = <<>>
    BY <1>1, <1>5
  <2> QED
    BY <1>2, <1>3, <1>4, <1>5, <2>1 DEF Queda
<1>6. CASE n > 0
  <2> DEFINE s == r.docs
             x == s[1]
  <2>1. s \in Seq(Seq(Letras)) /\ 1 \in 1..Len(s) /\ x \in Seq(Letras)
    BY <1>1, <1>6, Documentos
  <2>2. SubSeq(x, 1, Len(x)) = x
    BY <2>1, Trozos
  <2>3. SubSeq(s, 1, Len(s)) = s /\ SubSeq(s, 1, Len(s)) = <<s[1]>> \o SubSeq(s, 1 + 1, Len(s))
    BY <2>1, Trozos
  <2>4. s = <<SubSeq(x, 1, Len(x))>> \o SubSeq(s, 1 + 1, Len(s))
    BY <2>2, <2>3
  <2>5. <<1, 1>>[1] = 1 /\ <<1, 1>>[2] = 1 /\ 1 \in 1..(n + 1) /\ 1 <= n
    BY <1>1, <1>6
  <2> QED
    BY <1>2, <1>3, <1>4, <2>4, <2>5 DEF Queda
<1> QED
  BY <1>1, <1>5, <1>6

(* then a letter of a document goes,                                       *)
LEMMA QuedaLetra ==
  ASSUME NEW r \in Resultados, NEW ds, NEW p, Queda(r, ds, p), ds # <<>>, Head(ds) # <<>>
  PROVE  /\ p \in Lugares(r) /\ p # Fin(r) /\ Head(Head(ds)) = Caracter(r, p)
         /\ Queda(r, [ds EXCEPT ![1] = Tail(Head(ds))], Siguiente(r, p))
<1> DEFINE n == Len(r.docs)
<1>1. PICK i, j \in Nat :
        /\ p = <<i, j>>
        /\ \/ i = 0 /\ j = 1
           \/ i \in 1..n /\ j \in 1..(Len(r.docs[i]) + 1)
           \/ i \in {n + 1, n + 2} /\ j = 1
  BY EsLugar DEF Queda
<1>2. p[1] = i /\ p[2] = j /\ i \in 1..(n + 1) /\ p # Comienzo /\ p # Fin(r) /\ n \in Nat
  BY <1>1, Documentos DEF Queda, Comienzo, Fin
<1>3. i \in 1..n /\ ds = <<SubSeq(r.docs[i], j, Len(r.docs[i]))>> \o SubSeq(r.docs, i + 1, n)
  BY <1>2 DEF Queda
<1> DEFINE x == r.docs[i]
           y == SubSeq(x, j, Len(x))
           z == SubSeq(r.docs, i + 1, n)
<1>4. x \in Seq(Letras) /\ Len(x) \in Nat /\ j \in 1..(Len(x) + 1)
  <2>1. j \in 1..(Len(x) + 1)
    BY <1>1, <1>2, <1>3
  <2> QED
    BY <1>3, <2>1, Documentos
<1>5. z \in Seq(Seq(Letras))
  <2>1. r.docs \in Seq(Seq(Letras))
    BY Documentos
  <2> QED
    BY <1>2, <1>3, <2>1
<1>6. y \in Seq(Letras)
  <2> HIDE DEF x
  <2> QED
    BY <1>4
<1>7. ds = <<y>> \o z
  BY <1>3
<1>8. y # <<>> => j <= Len(x) /\ Head(y) = x[j] /\ Tail(y) = SubSeq(x, j + 1, Len(x))
  <2> HIDE DEF x
  <2> QED
    BY <1>4
<1> HIDE DEF x, y, z
<1>9. Head(ds) = y /\ [ds EXCEPT ![1] = Tail(y)] = <<Tail(y)>> \o z
  <2> DEFINE P == Seq(Letras)
  <2>1. y \in P /\ z \in Seq(P)
    BY <1>5, <1>6
  <2>2. ds \in Seq(P) /\ Head(ds) = y /\ Tail(ds) = z
    <3> HIDE DEF P
    <3> QED
      BY <1>7, <2>1, ConCabeza
  <2>3. Tail(y) \in P
    BY <1>6, <2>2
  <2> DEFINE t == Tail(y)
  <2> HIDE DEF P, t
  <2>4. [ds EXCEPT ![1] = t] = <<t>> \o Tail(ds)
    BY <2>2, <2>3, OtraCabeza DEF t
  <2> QED
    BY <2>2, <2>4 DEF t
<1>10. j <= Len(x) /\ Head(y) = x[j] /\ Tail(y) = SubSeq(x, j + 1, Len(x))
  BY <1>8, <1>9
<1>11. EsLetra(r, p) /\ Caracter(r, p) = x[j] /\ Siguiente(r, p) = <<i, j + 1>>
  BY <1>2, <1>3, <1>10 DEF EsLetra, Caracter, Siguiente, x
<1>12. Siguiente(r, p) \in Lugares(r) /\ p \in Lugares(r)
  BY <1>2, SiguienteEsLugar DEF Queda
<1>13. Queda(r, <<Tail(y)>> \o z, <<i, j + 1>>)
  BY <1>2, <1>3, <1>10, <1>11, <1>12 DEF Queda, x, z
<1> QED
  BY <1>2, <1>9, <1>10, <1>11, <1>12, <1>13

(* the '\0' after it,                                                      *)
LEMMA QuedaDocumento ==
  ASSUME NEW r \in Resultados, NEW ds, NEW p, Queda(r, ds, p), ds # <<>>, Head(ds) = <<>>
  PROVE  p \in Lugares(r) /\ p # Fin(r) /\ Caracter(r, p) = Nul /\ Queda(r, Tail(ds), Siguiente(r, p))
<1> DEFINE n == Len(r.docs)
<1>1. PICK i, j \in Nat :
        /\ p = <<i, j>>
        /\ \/ i = 0 /\ j = 1
           \/ i \in 1..n /\ j \in 1..(Len(r.docs[i]) + 1)
           \/ i \in {n + 1, n + 2} /\ j = 1
  BY EsLugar DEF Queda
<1>2. p[1] = i /\ p[2] = j /\ i \in 1..(n + 1) /\ p # Comienzo /\ p # Fin(r) /\ n \in Nat
  BY <1>1, Documentos DEF Queda, Comienzo, Fin
<1>3. i \in 1..n /\ ds = <<SubSeq(r.docs[i], j, Len(r.docs[i]))>> \o SubSeq(r.docs, i + 1, n)
  BY <1>2 DEF Queda
<1> DEFINE x == r.docs[i]
           y == SubSeq(x, j, Len(x))
           z == SubSeq(r.docs, i + 1, n)
<1>4. x \in Seq(Letras) /\ Len(x) \in Nat /\ j \in 1..(Len(x) + 1)
  <2>1. j \in 1..(Len(x) + 1)
    BY <1>1, <1>2, <1>3
  <2> QED
    BY <1>3, <2>1, Documentos
<1>5. r.docs \in Seq(Seq(Letras)) /\ z \in Seq(Seq(Letras))
  <2>1. r.docs \in Seq(Seq(Letras))
    BY Documentos
  <2> QED
    BY <1>2, <1>3, <2>1
<1>6. y \in Seq(Letras) /\ (y = <<>> => j = Len(x) + 1)
  <2> HIDE DEF x
  <2>1. CASE j \in 1..Len(x)
    <3>1. SubSeq(x, j, Len(x)) \in Seq(Letras) /\ SubSeq(x, j, Len(x)) # <<>>
      BY <1>4, <2>1, Trozos
    <3> QED
      BY <3>1
  <2>2. CASE j = Len(x) + 1
    BY <1>4, <2>2, Trozos
  <2> QED
    BY <1>4, <2>1, <2>2
<1>7. ds = <<y>> \o z
  BY <1>3
<1>8. Head(ds) = y /\ Tail(ds) = z
  <2> DEFINE P == Seq(Letras)
  <2> HIDE DEF y, z
  <2>1. y \in P /\ z \in Seq(P)
    BY <1>5, <1>6
  <2> HIDE DEF P
  <2> QED
    BY <1>7, <2>1, ConCabeza
<1>9. ~EsLetra(r, p) /\ Caracter(r, p) = Nul /\ Siguiente(r, p) = <<i + 1, 1>>
  <2>1. ~(j <= Len(r.docs[i]))
    BY <1>4, <1>6, <1>8
  <2> QED
    BY <1>2, <2>1 DEF EsLetra, Caracter, Siguiente
<1>10. Siguiente(r, p) \in Lugares(r) /\ p \in Lugares(r)
  BY <1>2, SiguienteEsLugar DEF Queda
<1>11. z = IF i + 1 <= n
           THEN <<SubSeq(r.docs[i + 1], 1, Len(r.docs[i + 1]))>> \o SubSeq(r.docs, (i + 1) + 1, n) ELSE <<>>
  <2> DEFINE s == r.docs
             t == s[i + 1]
  <2>1. CASE i + 1 <= n
    <3>1. t \in Seq(Letras) /\ i + 1 \in 1..Len(s)
      BY <1>2, <1>3, <2>1, Documentos
    <3>2. SubSeq(t, 1, Len(t)) = t
      <4> HIDE DEF t
      <4> QED
        BY <3>1
    <3>3. SubSeq(s, i + 1, Len(s)) = <<s[i + 1]>> \o SubSeq(s, (i + 1) + 1, Len(s))
      <4> HIDE DEF s
      <4> QED
        BY <1>5, <3>1 DEF s
    <3> QED
      BY <2>1, <3>2, <3>3
  <2>2. CASE ~(i + 1 <= n)
    <3>1. i = Len(s)
      BY <1>2, <1>3, <2>2
    <3>2. SubSeq(s, i + 1, Len(s)) = <<>>
      <4> HIDE DEF s
      <4> QED
        BY <1>5, <3>1 DEF s
    <3> QED
      BY <2>2, <3>2
  <2> QED
    BY <2>1, <2>2
<1>12. i + 1 \in 1..(n + 1)
  BY <1>2, <1>3
<1>13. Queda(r, z, <<i + 1, 1>>)
  <2> HIDE DEF z, n
  <2> QED
    BY <1>9, <1>10, <1>11, <1>12 DEF Queda, n
<1> QED
  BY <1>2, <1>8, <1>9, <1>10, <1>13

(* and after the last one the '\0' that ends the reply.                    *)
LEMMA QuedaNada ==
  ASSUME NEW r \in Resultados, NEW p, Queda(r, <<>>, p)
  PROVE  p \in Lugares(r) /\ p # Fin(r) /\ Caracter(r, p) = Nul /\ Siguiente(r, p) = Fin(r)
<1> DEFINE n == Len(r.docs)
<1>1. PICK i, j \in Nat :
        /\ p = <<i, j>>
        /\ \/ i = 0 /\ j = 1
           \/ i \in 1..n /\ j \in 1..(Len(r.docs[i]) + 1)
           \/ i \in {n + 1, n + 2} /\ j = 1
  BY EsLugar DEF Queda
<1>2. p[1] = i /\ p[2] = j /\ i \in 1..(n + 1) /\ p # Comienzo /\ p # Fin(r) /\ n \in Nat /\ p \in Lugares(r)
  BY <1>1, Documentos DEF Queda, Comienzo, Fin
<1>3. ~(i \in 1..n)
  <2> SUFFICES ASSUME i \in 1..n PROVE FALSE
    OBVIOUS
  <2> DEFINE y == SubSeq(r.docs[i], j, Len(r.docs[i]))
             z == SubSeq(r.docs, i + 1, Len(r.docs))
  <2>1. <<>> = <<y>> \o z
    <3>1. p[1] <= Len(r.docs)
      BY <1>2
    <3> QED
      BY <1>2, <3>1 DEF Queda
  <2>2. r.docs \in Seq(Seq(Letras)) /\ i \in 1..Len(r.docs)
    BY Documentos
  <2>3. z \in Seq(Seq(Letras))
    BY <2>2, Trozos
  <2> HIDE DEF y, z
  <2>4. z \in Seq(Seq(Letras) \cup {y}) /\ y \in Seq(Letras) \cup {y}
    BY <2>3
  <2> QED
    BY <2>1, <2>4, ConCabeza
<1>4. i = n + 1 /\ j = 1 /\ ~EsLetra(r, p)
  BY <1>1, <1>2, <1>3 DEF EsLetra
<1> QED
  BY <1>2, <1>4 DEF Siguiente, Caracter, Fin
-----------------------------------------------------------------------------
(* What the client has in a queue and what it has still to put there.      *)
LEMMA Juntas ==
  ASSUME NEW q, NEW b, EsSecuencia(q), EsSecuencia(b)
  PROVE  /\ b # <<>> => Append(q, Head(b)) \o Tail(b) = q \o b
         /\ q # <<>> => q \o b # <<>> /\ Head(q \o b) = Head(q) /\ Tail(q) \o b = Tail(q \o b)
         /\ q \o b = <<>> => q = <<>> /\ b = <<>>
         /\ q = <<>> => q \o b = b
<1>1. PICK A : q \in Seq(A)
  BY DEF EsSecuencia
<1>2. PICK B : b \in Seq(B)
  BY DEF EsSecuencia
<1> DEFINE C == A \cup B
<1>3. q \in Seq(C) /\ b \in Seq(C)
  BY <1>1, <1>2
<1> HIDE DEF C
<1>4. ASSUME b # <<>> PROVE Append(q, Head(b)) \o Tail(b) = q \o b
  BY <1>3, <1>4
<1>5. ASSUME q # <<>> PROVE q \o b # <<>> /\ Head(q \o b) = Head(q) /\ Tail(q) \o b = Tail(q \o b)
  <2>1. Len(q) \in Nat /\ Len(q) > 0 /\ Len(b) \in Nat
    BY <1>3, <1>5
  <2>2. q \o b \in Seq(C) /\ Len(q \o b) = Len(q) + Len(b) /\ (q \o b)[1] = q[1]
    BY <1>3, <2>1
  <2>3. q \o b # <<>> /\ Head(q \o b) = Head(q)
    BY <1>3, <2>1, <2>2
  <2>4. Tail(q) \o b = Tail(q \o b)
    BY <1>3, <1>5, <2>3
  <2> QED
    BY <2>3, <2>4
<1>6. ASSUME q \o b = <<>> PROVE q = <<>> /\ b = <<>>
  <2>1. Len(q) + Len(b) = 0 /\ Len(q) \in Nat /\ Len(b) \in Nat
    BY <1>3, <1>6
  <2> QED
    BY <1>3, <2>1
<1>7. ASSUME q = <<>> PROVE q \o b = b
  BY <1>3, <1>7
<1> QED
  BY <1>4, <1>5, <1>6, <1>7

(* A sequence with one more element at the end, or one less at the front.  *)
LEMMA MasMenos ==
  ASSUME NEW q, EsSecuencia(q)
  PROVE  (\A x : EsSecuencia(Append(q, x))) /\ (q # <<>> => EsSecuencia(Tail(q)))
<1>1. ASSUME NEW x PROVE EsSecuencia(Append(q, x))
  BY Agregar
<1>2. ASSUME q # <<>> PROVE EsSecuencia(Tail(q))
  <2>1. PICK A : q \in Seq(A)
    BY DEF EsSecuencia
  <2>2. Tail(q) \in Seq(A)
    BY <1>2, <2>1
  <2> QED
    BY <2>2 DEF EsSecuencia
<1> QED
  BY <1>1, <1>2

(* The rest of a sequence from one of its elements.                        *)
LEMMA Resto ==
  ASSUME NEW S, NEW s \in Seq(S), NEW i \in 1..Len(s)
  PROVE  /\ SubSeq(s, i, Len(s)) # <<>> /\ Head(SubSeq(s, i, Len(s))) = s[i]
         /\ Tail(SubSeq(s, i, Len(s))) = SubSeq(s, i + 1, Len(s))
         /\ SubSeq(s, i, i) = <<s[i]>>
<1>1. Len(s) \in Nat /\ i \in Nat /\ s[i] \in S
  OBVIOUS
<1>2. SubSeq(s, i, i) = <<s[i]>>
  <2>1. SubSeq(s, i, i) \in Seq(S) /\ Len(SubSeq(s, i, i)) = 1 /\ SubSeq(s, i, i)[1] = s[i]
    BY <1>1
  <2>2. <<s[i]>> \in Seq(S) /\ Len(<<s[i]>>) = 1 /\ <<s[i]>>[1] = s[i]
    BY <1>1
  <2> DEFINE u == SubSeq(s, i, i)
             v == <<s[i]>>
  <2> HIDE DEF u, v
  <2>3. u \in Seq(S) /\ v \in Seq(S) /\ Len(u) = 1 /\ Len(v) = 1 /\ u[1] = v[1]
    BY <2>1, <2>2 DEF u, v
  <2>4. u = v
    BY <2>3
  <2> QED
    BY <2>4 DEF u, v
<1>3. SubSeq(s, i, Len(s)) # <<>> /\ Head(SubSeq(s, i, Len(s))) = s[i]
  <2> DEFINE u == SubSeq(s, i, Len(s))
  <2>1. u \in Seq(S) /\ Len(u) > 0 /\ u[1] = s[i]
    BY <1>1
  <2> HIDE DEF u
  <2>2. u # <<>> /\ Head(u) = u[1]
    BY <2>1
  <2> QED
    BY <2>1, <2>2 DEF u
<1>4. Tail(SubSeq(s, i, Len(s))) = SubSeq(s, i + 1, Len(s))
  BY <1>1
<1> QED
  BY <1>2, <1>3, <1>4

(* Before the first document nothing has been received.                    *)
LEMMA LeidoNada ==
  ASSUME NEW r \in Resultados
  PROVE  Leido(r, <<>>, <<>>, Siguiente(r, Comienzo))
<1>1. Siguiente(r, Comienzo) = <<1, 1>>
  BY DEF Siguiente, EsLetra, Comienzo
<1>2. <<1, 1>> \in Lugares(r)
  BY <1>1, QuedaTodo, SiguienteEsLugar
<1>3. Len(r.docs) \in Nat /\ r.docs \in Seq(Seq(Letras)) /\ \A i \in 1..Len(r.docs) : r.docs[i] \in Seq(Letras)
  BY Documentos
<1>4. SubSeq(r.docs, 1, 0) = <<>> /\ \A i \in 1..Len(r.docs) : SubSeq(r.docs[i], 1, 0) = <<>>
  BY <1>3, Trozos
<1>5. 1 <= Len(r.docs) => 1 \in 1..Len(r.docs)
  BY <1>3
<1>6. <<1, 1>>[1] = 1 /\ <<1, 1>>[2] = 1 /\ 1 - 1 = 0 /\ 1 \in 1..(Len(r.docs) + 1)
  BY <1>3
<1> QED
  BY <1>1, <1>2, <1>4, <1>5, <1>6 DEF Leido

(* What every request gets is a result, and every request is one.          *)
LEMMA Pedidos ==
  ASSUME TiposDelServicio, NEW c \in Clientes
  PROVE  /\ RespuestaDe(c) \in Resultados
         /\ pedido[c].consulta \in Seq(Letras) /\ pedido[c].metodo \in Metodos
         /\ EsSecuencia(Pide(c))
<1>1. pedido[c].consulta \in Consultas /\ pedido[c].metodo \in Metodos
  BY DEF TiposDelServicio
<1>2. (pedido[c].metodo = "1") \in BOOLEAN
  OBVIOUS
<1>3. RespuestaDe(c) \in Resultados
  BY <1>1, <1>2, ResultadosSinVacios DEF RespuestaDe
<1>4. pedido[c].consulta \in Seq(Letras)
  BY <1>1, ConsultasDeLetras
<1>5. Pide(c) \in Seq(Caracteres)
  BY <1>1, <1>4 DEF Pide, Caracteres
<1> QED
  BY <1>1, <1>3, <1>4, <1>5 DEF EsSecuencia

(* The characters of a request, one at a time.                             *)
LEMMA LeePedido ==
  ASSUME TiposDelServicio, NEW c \in Clientes, NEW k \in 0..Len(pedido[c].consulta),
         NEW resto, resto = SubSeq(Pide(c), k + 1, Len(Pide(c)))
  PROVE  \/ /\ k + 1 \in 0..Len(pedido[c].consulta) /\ Head(resto) # Nul
            /\ Append(SubSeq(pedido[c].consulta, 1, k), Head(resto)) = SubSeq(pedido[c].consulta, 1, k + 1)
            /\ Tail(resto) = SubSeq(Pide(c), (k + 1) + 1, Len(Pide(c)))
         \/ /\ Head(resto) = Nul
            /\ SubSeq(pedido[c].consulta, 1, k) = pedido[c].consulta
            /\ Tail(resto) = <<pedido[c].metodo>>
<1> DEFINE s == pedido[c].consulta
           m == pedido[c].metodo
           P == Pide(c)
<1>0. s \in Seq(Letras) /\ m \in Metodos /\ k \in 0..Len(s) /\ P = s \o <<Nul, m>> /\ resto = SubSeq(P, k + 1, Len(P))
  BY Pedidos DEF Pide
<1> HIDE DEF s, m, P
<1>1. s \in Seq(Caracteres) /\ <<Nul, m>> \in Seq(Caracteres) /\ Len(s) \in Nat
  BY <1>0 DEF Caracteres
<1>2. /\ P \in Seq(Caracteres) /\ Len(P) = Len(s) + 2
      /\ \A i \in 1..Len(s) : P[i] = s[i]
      /\ P[Len(s) + 1] = Nul /\ P[Len(s) + 2] = m
  BY <1>0, <1>1
<1>3. k + 1 \in 1..Len(P)
  BY <1>0, <1>1, <1>2
<1>4. resto # <<>> /\ Head(resto) = P[k + 1] /\ Tail(resto) = SubSeq(P, (k + 1) + 1, Len(P))
  <2>1. ASSUME NEW p \in Seq(Caracteres), NEW i \in 1..Len(p)
        PROVE  /\ SubSeq(p, i, Len(p)) # <<>> /\ Head(SubSeq(p, i, Len(p))) = p[i]
               /\ Tail(SubSeq(p, i, Len(p))) = SubSeq(p, i + 1, Len(p))
    BY Resto
  <2> QED
    BY <1>0, <1>2, <1>3, <2>1
<1>5. CASE k < Len(s)
  <2>1. k + 1 \in 1..Len(s) /\ k + 1 \in 0..Len(s) /\ (k + 1) - 1 = k
    BY <1>0, <1>1, <1>5
  <2>2. P[k + 1] = s[k + 1] /\ s[k + 1] \in Letras
    BY <1>0, <1>2, <2>1
  <2>3. Append(SubSeq(s, 1, (k + 1) - 1), s[k + 1]) = SubSeq(s, 1, k + 1)
    BY <1>0, <2>1, Trozos
  <2> QED
    BY <1>4, <2>1, <2>2, <2>3, NulNoEsLetra DEF s, m, P
<1>6. CASE k = Len(s)
  <2>1. SubSeq(s, 1, k) = s
    BY <1>0, <1>6, Trozos
  <2>2. SubSeq(P, Len(s) + 2, Len(s) + 2) = <<m>>
    <3>1. ASSUME NEW p \in Seq(Caracteres), NEW i \in 1..Len(p) PROVE SubSeq(p, i, i) = <<p[i]>>
      BY Resto
    <3>2. Len(s) + 2 \in 1..Len(P)
      BY <1>1, <1>2
    <3> QED
      BY <1>2, <3>1, <3>2
  <2>3. (k + 1) + 1 = Len(s) + 2 /\ Len(P) = Len(s) + 2
    BY <1>1, <1>2, <1>6
  <2> QED
    BY <1>2, <1>4, <1>6, <2>1, <2>2, <2>3 DEF s, m, P
<1>7. k < Len(s) \/ k = Len(s)
  BY <1>0, <1>1
<1> QED
  BY <1>5, <1>6, <1>7
-----------------------------------------------------------------------------
(* Keys and queues, in words the provers can use.                          *)
LEMMA Hechos ==
  ASSUME InvCanales
  PROVE  /\ CGItoSearch \in Canales /\ SearchToCGI \in Canales /\ CGItoSearch # SearchToCGI
         /\ \A k \in Canales : k = CGItoSearch \/ k = SearchToCGI
         /\ \A k \in Canales : clave[k] \in Nat /\ (clave[k] # 0 => clave[k] \in viva)
         /\ 0 \notin viva /\ Len(cola) \in Nat /\ viva \subseteq 1..Len(cola)
         /\ clave[CGItoSearch] # 0 => clave[CGItoSearch] # clave[SearchToCGI]
<1>1. Len(cola) \in Nat
  BY Agregar DEF InvCanales, ColasNumeradas
<1>2. viva \subseteq 1..Len(cola) /\ 0 \notin viva
  BY <1>1 DEF InvCanales, ColasNumeradas
<1>3. CGItoSearch \in Canales /\ SearchToCGI \in Canales /\ CGItoSearch # SearchToCGI
  BY DEF Canales, CGItoSearch, SearchToCGI
<1>4. \A k \in Canales : k = CGItoSearch \/ k = SearchToCGI
  BY DEF Canales
<1>5. /\ \A k \in Canales : clave[k] \in Nat /\ (clave[k] # 0 => clave[k] \in viva)
      /\ clave[CGItoSearch] # 0 => clave[CGItoSearch] # clave[SearchToCGI]
  BY DEF InvCanales, ClavesVivas
<1> QED
  BY <1>1, <1>2, <1>3, <1>4, <1>5

(* Changing what is in a queue changes that one.                           *)
LEMMA UnaCola ==
  ASSUME InvCanales, ColasDeMensajes, NEW id \in viva, NEW x, EsSecuencia(x),
         cola' = [cola EXCEPT ![id] = x]
  PROVE  /\ ColasDeMensajes' /\ Len(cola') = Len(cola) /\ cola'[id] = x
         /\ \A i \in viva : i # id => cola'[i] = cola[i]
<1>1. id \in 1..Len(cola) /\ viva \subseteq 1..Len(cola) /\ EsSecuencia(cola)
  BY DEF InvCanales, ColasNumeradas
<1>2. PICK A : cola \in Seq(A)
  BY <1>1 DEF EsSecuencia
<1>3. Len(cola') = Len(cola)
  BY <1>1, Cambiar
<1>4. cola'[id] = x /\ \A i \in 1..Len(cola) : i # id => cola'[i] = cola[i]
  BY <1>1, <1>2
<1>5. ColasDeMensajes'
  BY <1>3, <1>4 DEF ColasDeMensajes
<1> QED
  BY <1>1, <1>3, <1>4, <1>5

(* What is in the queues is a sequence.                                    *)
LEMMA EsCola ==
  ASSUME InvCanales, ColasDeMensajes, NEW id \in viva
  PROVE  EsSecuencia(cola[id]) /\ (cola[id] # <<>> => EsSecuencia(Tail(cola[id])))
<1>1. id \in 1..Len(cola)
  BY DEF InvCanales, ColasNumeradas
<1> QED
  BY <1>1, MasMenos DEF ColasDeMensajes

(* The steps of the engine change nothing of a client.                     *)
LEMMA MismosClientes ==
  ASSUME UNCHANGED cliente
  PROVE  /\ TiposDelServicio => TiposDelServicio'
         /\ UnoALaVez => UnoALaVez'
         /\ Pasos => Pasos'
         /\ \A c : RespuestaDe(c)' = RespuestaDe(c) /\ Pide(c)' = Pide(c)
         /\ \A c, p : Va(c, p)' <=> Va(c, p)
         /\ UNCHANGED viva => \A c : (Espera(c)' <=> Espera(c)) /\ (EnSesion(c)' <=> EnSesion(c))
         /\ UNCHANGED clave => (Limpio' <=> Limpio)
<1>1. UNCHANGED <<pc, pedido, canal, busqueda, isError, currentDoc, docs>>
  BY DEF cliente
<1>2. \A c : RespuestaDe(c)' = RespuestaDe(c) /\ Pide(c)' = Pide(c)
  BY <1>1 DEF RespuestaDe, Pide
<1>3. TiposDelServicio => TiposDelServicio'
  BY <1>1 DEF TiposDelServicio
<1>4. UnoALaVez => UnoALaVez'
  BY <1>1 DEF UnoALaVez, Activos
<1>5. Pasos => Pasos'
  BY <1>1, <1>2 DEF Pasos, PasosDe
<1>6. \A c, p : Va(c, p)' <=> Va(c, p)
  BY <1>1, <1>2 DEF Va
<1>7. UNCHANGED viva => \A c : (Espera(c)' <=> Espera(c)) /\ (EnSesion(c)' <=> EnSesion(c))
  BY <1>1 DEF Espera, EnSesion
<1>8. UNCHANGED clave => (Limpio' <=> Limpio)
  BY <1>1 DEF Limpio
<1> QED
  BY <1>2, <1>3, <1>4, <1>5, <1>6, <1>7, <1>8

(* A request that waits is the only one.                                   *)
LEMMA Unico ==
  ASSUME InvServicio, NEW c \in Clientes, c \in Activos, NEW d \in Clientes, Espera(d)
  PROVE  d = c
BY DEF InvServicio, UnoALaVez, Activos, Espera, Finales

(* A step of the engine in a session leaves one.                           *)
LEMMA Turno ==
  ASSUME InvServicio, InvCanales', ColasDeMensajes', UNCHANGED <<clave, viva, canalMotor, cliente>>,
         EnServicio, EnServicio', Len(cola') = Len(cola),
         Limpio => \E c \in Clientes : EnSesion(c),
         \A c \in Clientes : \A de, al \in Lugares(RespuestaDe(c)) :
           /\ EnSesion(c) /\ Fase(c, al)
           /\ EnCamino(RespuestaDe(c), cola[clave[SearchToCGI]], de, al)
           => \E nuevo \in Lugares(RespuestaDe(c)) :
                /\ EnCamino(RespuestaDe(c), cola'[clave[SearchToCGI]], de, nuevo)
                /\ Fase(c, nuevo)'
  PROVE  InvServicio'
<1>1. TiposDelServicio' /\ UnoALaVez' /\ Pasos' /\ (Limpio' <=> Limpio)
  BY MismosClientes DEF InvServicio
<1>2. CanalesDeClientes'
  BY DEF InvServicio, CanalesDeClientes, CanalesDe, cliente
<1>3. Reposo'
  BY DEF Reposo, EnServicio
<1>4. \A c : (Espera(c)' <=> Espera(c)) /\ (EnSesion(c)' <=> EnSesion(c)) /\ RespuestaDe(c)' = RespuestaDe(c)
  BY MismosClientes
<1>5. \A c, p : Va(c, p)' <=> Va(c, p)
  BY MismosClientes
<1>6. Limpio => \E c \in Clientes : Espera(c)' /\ EnSesion(c)'
  BY <1>4 DEF EnSesion
<1>7. NadieEspera' /\ MotorOcioso'
  BY <1>1, <1>6 DEF NadieEspera, MotorOcioso
<1>8. RespuestasEnCamino'
  <2> SUFFICES ASSUME Limpio, NEW c \in Clientes, Espera(c)
               PROVE  \E de, nuevo \in Lugares(RespuestaDe(c)) :
                        /\ Va(c, de)
                        /\ EnCamino(RespuestaDe(c), cola'[clave[SearchToCGI]], de, nuevo)
                        /\ EnServicio' /\ EnSesion(c) => Fase(c, nuevo)'
    BY <1>1, <1>4, <1>5 DEF RespuestasEnCamino
  <2>1. PICK de, al \in Lugares(RespuestaDe(c)) :
          /\ Va(c, de)
          /\ EnCamino(RespuestaDe(c), cola[clave[SearchToCGI]], de, al)
          /\ EnServicio /\ EnSesion(c) => Fase(c, al)
    BY DEF InvServicio, RespuestasEnCamino
  <2>2. EnSesion(c)
    <3>1. PICK d \in Clientes : EnSesion(d)
      OBVIOUS
    <3>2. Espera(d) /\ c \in Activos
      BY <3>1 DEF EnSesion, Espera, Activos, Finales
    <3> QED
      BY <3>1, <3>2, Unico
  <2> QED
    BY <2>1, <2>2
<1> QED
  BY <1>1, <1>2, <1>3, <1>7, <1>8 DEF InvServicio
-----------------------------------------------------------------------------
(* The queues the engine uses while it serves.                             *)
LEMMA EnSusColas ==
  ASSUME InvServicio, EnServicio
  PROVE  /\ canalMotor[CGItoSearch] = clave[CGItoSearch] /\ canalMotor[SearchToCGI] = clave[SearchToCGI]
         /\ clave[CGItoSearch] \in viva /\ clave[SearchToCGI] \in viva
         /\ clave[CGItoSearch] # clave[SearchToCGI]
BY Hechos DEF InvServicio, InvCanales, ArranqueEnOrden, Tiene

(* What the engine has in front of it in a session.                        *)
LEMMA EnFrente ==
  ASSUME InvServicio, EnServicio, NEW c \in Clientes
  PROVE  /\ EsSecuencia(cola[clave[CGItoSearch]]) /\ EsSecuencia(busqueda[c])
         /\ Camino(c) = <<>> => cola[clave[CGItoSearch]] = <<>>
<1>1. EsSecuencia(cola[clave[CGItoSearch]])
  BY EnSusColas, EsCola DEF InvServicio
<1>2. EsSecuencia(busqueda[c])
  BY DEF InvServicio, TiposDelServicio, EsSecuencia
<1> QED
  BY <1>1, <1>2, Juntas DEF Camino

(* A character of the request is read.                                     *)
LEMMA UnoMenos ==
  ASSUME InvServicio, EnServicio, NEW m, Msgrcv(canalMotor[CGItoSearch], m), UNCHANGED <<clave, viva>>
  PROVE  /\ ColasDeMensajes' /\ Len(cola') = Len(cola)
         /\ cola[clave[CGItoSearch]] # <<>>
         /\ cola'[clave[SearchToCGI]] = cola[clave[SearchToCGI]]
         /\ \A c \in Clientes :
              /\ Camino(c) # <<>> /\ m = Head(Camino(c))
              /\ cola'[clave[CGItoSearch]] \o busqueda[c] = Tail(Camino(c))
<1> DEFINE G == clave[CGItoSearch]
<1>1. /\ G \in viva /\ cola[G] # <<>> /\ m = Head(cola[G]) /\ cola' = [cola EXCEPT ![G] = Tail(cola[G])]
      /\ clave[SearchToCGI] \in viva /\ clave[SearchToCGI] # G
  BY EnSusColas DEF Msgrcv
<1>2. EsSecuencia(Tail(cola[G]))
  BY <1>1, EsCola DEF InvServicio
<1>3. /\ ColasDeMensajes' /\ Len(cola') = Len(cola) /\ cola'[G] = Tail(cola[G])
      /\ \A i \in viva : i # G => cola'[i] = cola[i]
  <2> DEFINE x == Tail(cola[G])
  <2> HIDE DEF G, x
  <2>1. cola' = [cola EXCEPT ![G] = x]
    BY <1>1 DEF x
  <2>2. EsSecuencia(x)
    BY <1>2 DEF x
  <2>3. /\ ColasDeMensajes' /\ Len(cola') = Len(cola) /\ cola'[G] = x
        /\ \A i \in viva : i # G => cola'[i] = cola[i]
    BY <1>1, <2>1, <2>2, UnaCola DEF InvServicio
  <2> QED
    BY <2>3 DEF x
<1>4. ASSUME NEW c \in Clientes
      PROVE  Camino(c) # <<>> /\ m = Head(Camino(c)) /\ cola'[G] \o busqueda[c] = Tail(Camino(c))
  <2>1. Camino(c) = cola[G] \o busqueda[c]
    BY DEF Camino
  <2>2. EsSecuencia(cola[G]) /\ EsSecuencia(busqueda[c])
    BY EnFrente
  <2> DEFINE q == cola[G]
             b == busqueda[c]
  <2> HIDE DEF q, b
  <2>3. q # <<>> /\ EsSecuencia(q) /\ EsSecuencia(b) /\ Camino(c) = q \o b
        /\ m = Head(q) /\ cola'[G] \o busqueda[c] = Tail(q) \o b
    BY <1>1, <1>3, <2>1, <2>2 DEF q, b
  <2>4. q \o b # <<>> /\ Head(q \o b) = Head(q) /\ Tail(q) \o b = Tail(q \o b)
    BY <2>3, Juntas
  <2> QED
    BY <2>3, <2>4
<1> QED
  BY <1>1, <1>3, <1>4

(* The engine reads a character of the query.                              *)
LEMMA ServicioLeerConsulta ==
  ASSUME InvServicio, InvCanales', LeerConsulta
  PROVE  InvServicio'
<1>1. EnServicio /\ EnServicio' /\ pcMotor = "escuchar" /\ UNCHANGED <<clave, viva, canalMotor, cliente>>
  BY DEF LeerConsulta, EnServicio
<1>2. PICK m : /\ Msgrcv(canalMotor[CGItoSearch], m)
               /\ IF m = Nul THEN pcMotor' = "metodo" /\ UNCHANGED temp
                  ELSE temp' = Append(temp, m) /\ UNCHANGED pcMotor
  BY DEF LeerConsulta
<1>3. /\ ColasDeMensajes' /\ Len(cola') = Len(cola) /\ cola[clave[CGItoSearch]] # <<>>
      /\ cola'[clave[SearchToCGI]] = cola[clave[SearchToCGI]]
      /\ \A c \in Clientes : /\ Camino(c) # <<>> /\ m = Head(Camino(c))
                             /\ Camino(c)' = Tail(Camino(c))
  BY <1>1, <1>2, UnoMenos DEF Camino, cliente
<1>4. Limpio => \E c \in Clientes : EnSesion(c)
  BY <1>1, <1>3 DEF InvServicio, MotorOcioso
<1>5. ASSUME NEW c \in Clientes, NEW al \in Lugares(RespuestaDe(c)), Fase(c, al)
      PROVE  Fase(c, al)'
  <2> DEFINE s == pedido[c].consulta
  <2>1. al = Comienzo /\ \E k \in 0..Len(s) : temp = SubSeq(s, 1, k) /\ Camino(c) = SubSeq(Pide(c), k + 1, Len(Pide(c)))
    BY <1>1, <1>3, <1>5 DEF Fase
  <2>2. PICK k \in 0..Len(s) : temp = SubSeq(s, 1, k) /\ Camino(c) = SubSeq(Pide(c), k + 1, Len(Pide(c)))
    BY <2>1
  <2>3. s \in Seq(Letras) /\ pedido[c].metodo \in Metodos /\ Pide(c) = s \o <<Nul, pedido[c].metodo>>
    BY Pedidos DEF InvServicio, Pide
  <2>4. UNCHANGED pedido /\ Pide(c)' = Pide(c)
    BY <1>1, MismosClientes DEF cliente
  <2> HIDE DEF s
  <2>5. CASE /\ k + 1 \in 0..Len(s) /\ m # Nul /\ Append(temp, m) = SubSeq(s, 1, k + 1)
             /\ Tail(Camino(c)) = SubSeq(Pide(c), (k + 1) + 1, Len(Pide(c)))
    <3>1. pcMotor' = "escuchar" /\ temp' = SubSeq(s, 1, k + 1)
      BY <1>1, <1>2, <2>5
    <3>2. Camino(c)' = SubSeq(Pide(c), (k + 1) + 1, Len(Pide(c)))
      BY <1>3, <2>5
    <3> QED
      BY <2>1, <2>4, <2>5, <3>1, <3>2 DEF Fase, s
  <2>6. CASE m = Nul /\ temp = s /\ Tail(Camino(c)) = <<pedido[c].metodo>>
    <3>1. pcMotor' = "metodo" /\ temp' = s /\ Camino(c)' = <<pedido[c].metodo>>
      BY <1>2, <1>3, <2>6
    <3> QED
      BY <2>1, <2>4, <3>1 DEF Fase, s
  <2> DEFINE resto == SubSeq(Pide(c), k + 1, Len(Pide(c)))
  <2>7. \/ /\ k + 1 \in 0..Len(s) /\ Head(resto) # Nul
           /\ Append(SubSeq(s, 1, k), Head(resto)) = SubSeq(s, 1, k + 1)
           /\ Tail(resto) = SubSeq(Pide(c), (k + 1) + 1, Len(Pide(c)))
        \/ /\ Head(resto) = Nul
           /\ SubSeq(s, 1, k) = s /\ Tail(resto) = <<pedido[c].metodo>>
    BY LeePedido DEF InvServicio, s
  <2>8. Camino(c) = resto /\ temp = SubSeq(s, 1, k) /\ m = Head(resto)
    BY <1>3, <2>2
  <2> HIDE DEF resto
  <2> QED
    BY <2>5, <2>6, <2>7, <2>8
<1> QED
  BY <1>1, <1>3, <1>4, <1>5, Turno

(* The engine reads the method and computes the reply.                     *)
LEMMA ServicioLeerMetodo ==
  ASSUME InvServicio, InvCanales', LeerMetodo
  PROVE  InvServicio'
<1>1. EnServicio /\ EnServicio' /\ pcMotor = "metodo" /\ UNCHANGED <<clave, viva, canalMotor, cliente>>
  BY DEF LeerMetodo, EnServicio
<1>2. PICK m : /\ Msgrcv(canalMotor[CGItoSearch], m)
               /\ isOk' = Procesar(temp, m = "1").isOk /\ documentos' = Procesar(temp, m = "1").docs
  BY DEF LeerMetodo
<1>3. /\ ColasDeMensajes' /\ Len(cola') = Len(cola) /\ cola[clave[CGItoSearch]] # <<>>
      /\ cola'[clave[SearchToCGI]] = cola[clave[SearchToCGI]]
      /\ \A c \in Clientes : /\ Camino(c) # <<>> /\ m = Head(Camino(c))
                             /\ Camino(c)' = Tail(Camino(c))
  BY <1>1, <1>2, UnoMenos DEF Camino, cliente
<1>4. Limpio => \E c \in Clientes : EnSesion(c)
  BY <1>1 DEF InvServicio, MotorOcioso
<1>5. ASSUME NEW c \in Clientes, NEW al \in Lugares(RespuestaDe(c)), Fase(c, al)
      PROVE  Fase(c, al)'
  <2>1. al = Comienzo /\ temp = pedido[c].consulta /\ Camino(c) = <<pedido[c].metodo>>
    BY <1>1, <1>5 DEF Fase
  <2>2. m = pedido[c].metodo /\ Camino(c)' = <<>>
    <3>1. \A x : Head(<<x>>) = x /\ Tail(<<x>>) = <<>>
      OBVIOUS
    <3> QED
      BY <1>3, <2>1, <3>1
  <2>3. RespuestaDe(c) = Procesar(temp, m = "1")
    BY <2>1, <2>2 DEF RespuestaDe
  <2>4. RespuestaDe(c)' = RespuestaDe(c)
    BY <1>1, MismosClientes
  <2>5. pcMotor' = "codigo"
    BY DEF LeerMetodo
  <2> QED
    BY <1>2, <2>1, <2>2, <2>3, <2>4, <2>5 DEF Fase
<1> QED
  BY <1>1, <1>3, <1>4, <1>5, Turno
-----------------------------------------------------------------------------
(* A character of the reply is sent: the queue has one more, and the place *)
(* the engine is at goes to the next one.                                  *)
LEMMA UnoMas ==
  ASSUME InvServicio, EnServicio, NEW x, Msgsnd(canalMotor[SearchToCGI], x),
         UNCHANGED <<clave, viva, cliente>>
  PROVE  /\ ColasDeMensajes' /\ Len(cola') = Len(cola)
         /\ \A c : Camino(c)' = Camino(c)
         /\ \A c \in Clientes : \A de, al \in Lugares(RespuestaDe(c)) :
              /\ EnCamino(RespuestaDe(c), cola[clave[SearchToCGI]], de, al)
              /\ al # Fin(RespuestaDe(c)) /\ x = Caracter(RespuestaDe(c), al)
              => /\ Siguiente(RespuestaDe(c), al) \in Lugares(RespuestaDe(c))
                 /\ EnCamino(RespuestaDe(c), cola'[clave[SearchToCGI]], de, Siguiente(RespuestaDe(c), al))
<1> DEFINE B == clave[SearchToCGI]
           q == cola[B]
<1>1. B \in viva /\ clave[CGItoSearch] \in viva /\ clave[CGItoSearch] # B /\ canalMotor[SearchToCGI] = B
  BY EnSusColas
<1>2. cola' = [cola EXCEPT ![B] = Append(q, x)]
  BY <1>1 DEF Msgsnd
<1>3. EsSecuencia(q)
  BY <1>1, EsCola DEF InvServicio
<1>4. EsSecuencia(Append(q, x))
  BY <1>3, MasMenos
<1> HIDE DEF q
<1>5. /\ ColasDeMensajes' /\ Len(cola') = Len(cola) /\ cola'[B] = Append(q, x)
      /\ \A i \in viva : i # B => cola'[i] = cola[i]
  <2> DEFINE y == Append(q, x)
  <2>1. cola' = [cola EXCEPT ![B] = y] /\ EsSecuencia(y)
    BY <1>2, <1>4
  <2> HIDE DEF y, B
  <2>2. /\ ColasDeMensajes' /\ Len(cola') = Len(cola) /\ cola'[B] = y
        /\ \A i \in viva : i # B => cola'[i] = cola[i]
    BY <1>1, <2>1, UnaCola DEF InvServicio
  <2> QED
    BY <2>2 DEF y
<1>6. \A c : Camino(c)' = Camino(c)
  BY <1>1, <1>5 DEF Camino, cliente
<1>7. ASSUME NEW c \in Clientes, NEW de \in Lugares(RespuestaDe(c)), NEW al \in Lugares(RespuestaDe(c)),
             EnCamino(RespuestaDe(c), q, de, al),
             al # Fin(RespuestaDe(c)), x = Caracter(RespuestaDe(c), al)
      PROVE  /\ Siguiente(RespuestaDe(c), al) \in Lugares(RespuestaDe(c))
             /\ EnCamino(RespuestaDe(c), Append(q, x), de, Siguiente(RespuestaDe(c), al))
  <2> DEFINE r == RespuestaDe(c)
  <2>1. r \in Resultados
    BY Pedidos DEF InvServicio
  <2>2. PICK C : q \in Seq(C)
    BY <1>3 DEF EsSecuencia
  <2>3. de \in Lugares(r) /\ al \in Lugares(r) /\ EnCamino(r, q, de, al) /\ al # Fin(r) /\ x = Caracter(r, al)
    BY <1>7
  <2> HIDE DEF r
  <2>4. Siguiente(r, al) \in Lugares(r) /\ EnCamino(r, Append(q, x), de, Siguiente(r, al))
    BY <2>1, <2>2, <2>3, CaminoMas, SiguienteEsLugar
  <2> QED
    BY <2>4 DEF r
<1> QED
  BY <1>5, <1>6, <1>7 DEF q

(* The code of the reply.                                                  *)
LEMMA ServicioEnviarCodigo ==
  ASSUME InvServicio, InvCanales', EnviarCodigo
  PROVE  InvServicio'
<1>1. /\ EnServicio /\ EnServicio' /\ pcMotor = "codigo" /\ pcMotor' = "responder"
      /\ UNCHANGED <<clave, viva, canalMotor, cliente, isOk, documentos>>
  BY DEF EnviarCodigo, EnServicio
<1> DEFINE x == IF isOk THEN "1" ELSE "2"
<1>2. Msgsnd(canalMotor[SearchToCGI], x)
  BY DEF EnviarCodigo
<1> HIDE DEF x
<1>3. ColasDeMensajes' /\ Len(cola') = Len(cola) /\ \A c : Camino(c)' = Camino(c)
  BY <1>1, <1>2, UnoMas
<1>4. Limpio => \E c \in Clientes : EnSesion(c)
  BY <1>1 DEF InvServicio, MotorOcioso
<1>5. ASSUME NEW c \in Clientes, NEW de \in Lugares(RespuestaDe(c)), NEW al \in Lugares(RespuestaDe(c)),
             Fase(c, al), EnCamino(RespuestaDe(c), cola[clave[SearchToCGI]], de, al)
      PROVE  \E nuevo \in Lugares(RespuestaDe(c)) :
               EnCamino(RespuestaDe(c), cola'[clave[SearchToCGI]], de, nuevo) /\ Fase(c, nuevo)'
  <2> DEFINE r == RespuestaDe(c)
  <2>1. al = Comienzo /\ Camino(c) = <<>> /\ isOk = r.isOk /\ documentos = r.docs
    BY <1>1, <1>5 DEF Fase
  <2>2. r \in Resultados
    BY Pedidos DEF InvServicio
  <2>3. Queda(r, r.docs, Siguiente(r, al)) /\ al # Fin(r) /\ x = Caracter(r, al)
    BY <2>1, <2>2, QuedaTodo DEF x
  <2>4. Siguiente(r, al) \in Lugares(r) /\ EnCamino(r, cola'[clave[SearchToCGI]], de, Siguiente(r, al))
    BY <1>1, <1>2, <1>5, <2>3, UnoMas
  <2>5. RespuestaDe(c)' = r
    BY <1>1, MismosClientes
  <2>6. PICK nuevo \in Lugares(r) : nuevo = Siguiente(r, al)
    BY <2>4
  <2>7. Fase(c, nuevo)'
    BY <1>1, <1>3, <2>1, <2>3, <2>5, <2>6 DEF Fase
  <2> QED
    BY <2>4, <2>6, <2>7
<1> QED
  BY <1>1, <1>3, <1>4, <1>5, Turno

(* A character of a document, or the '\0' after it.                        *)
LEMMA ServicioEnviarDocumento ==
  ASSUME InvServicio, InvCanales', EnviarDocumento
  PROVE  InvServicio'
<1>1. /\ EnServicio /\ EnServicio' /\ pcMotor = "responder" /\ pcMotor' = "responder" /\ documentos # <<>>
      /\ UNCHANGED <<clave, viva, canalMotor, cliente>>
  BY DEF EnviarDocumento, EnServicio
<1>2. PICK x :
        /\ Msgsnd(canalMotor[SearchToCGI], x)
        /\ \/ Head(documentos) = <<>> /\ x = Nul /\ documentos' = Tail(documentos)
           \/ /\ Head(documentos) # <<>> /\ x = Head(Head(documentos))
              /\ documentos' = [documentos EXCEPT ![1] = Tail(Head(documentos))]
  BY DEF EnviarDocumento
<1>3. ColasDeMensajes' /\ Len(cola') = Len(cola) /\ \A c : Camino(c)' = Camino(c)
  BY <1>1, <1>2, UnoMas
<1>4. Limpio => \E c \in Clientes : EnSesion(c)
  BY <1>1 DEF InvServicio, MotorOcioso
<1>5. ASSUME NEW c \in Clientes, NEW de \in Lugares(RespuestaDe(c)), NEW al \in Lugares(RespuestaDe(c)),
             Fase(c, al), EnCamino(RespuestaDe(c), cola[clave[SearchToCGI]], de, al)
      PROVE  \E nuevo \in Lugares(RespuestaDe(c)) :
               EnCamino(RespuestaDe(c), cola'[clave[SearchToCGI]], de, nuevo) /\ Fase(c, nuevo)'
  <2> DEFINE r == RespuestaDe(c)
  <2>1. Camino(c) = <<>> /\ Queda(r, documentos, al)
    BY <1>1, <1>5 DEF Fase
  <2>2. r \in Resultados
    BY Pedidos DEF InvServicio
  <2> HIDE DEF r
  <2>3. al # Fin(r) /\ x = Caracter(r, al) /\ Queda(r, documentos', Siguiente(r, al))
    <3>1. CASE Head(documentos) = <<>> /\ x = Nul /\ documentos' = Tail(documentos)
      BY <1>1, <2>1, <2>2, <3>1, QuedaDocumento
    <3>2. CASE /\ Head(documentos) # <<>> /\ x = Head(Head(documentos))
               /\ documentos' = [documentos EXCEPT ![1] = Tail(Head(documentos))]
      <4>1. /\ al # Fin(r) /\ Head(Head(documentos)) = Caracter(r, al)
            /\ Queda(r, [documentos EXCEPT ![1] = Tail(Head(documentos))], Siguiente(r, al))
        BY <1>1, <2>1, <2>2, <3>2, QuedaLetra
      <4> QED
        BY <3>2, <4>1
    <3> QED
      BY <1>2, <3>1, <3>2
  <2>4. Siguiente(r, al) \in Lugares(r) /\ EnCamino(r, cola'[clave[SearchToCGI]], de, Siguiente(r, al))
    BY <1>1, <1>2, <1>5, <2>3, UnoMas DEF r
  <2>5. RespuestaDe(c)' = r
    BY <1>1, MismosClientes DEF r
  <2>6. PICK nuevo \in Lugares(r) : nuevo = Siguiente(r, al)
    BY <2>4
  <2>7. Fase(c, nuevo)'
    BY <1>1, <1>3, <2>1, <2>3, <2>5, <2>6 DEF Fase
  <2> QED
    BY <2>4, <2>6, <2>7 DEF r
<1> QED
  BY <1>1, <1>3, <1>4, <1>5, Turno

(* The '\0' that ends the reply.                                           *)
LEMMA ServicioEnviarFin ==
  ASSUME InvServicio, InvCanales', EnviarFin
  PROVE  InvServicio'
<1>1. /\ EnServicio /\ EnServicio' /\ pcMotor = "responder" /\ pcMotor' = "escuchar"
      /\ documentos = <<>> /\ temp' = <<>>
      /\ UNCHANGED <<clave, viva, canalMotor, cliente>>
  BY DEF EnviarFin, EnServicio
<1>2. Msgsnd(canalMotor[SearchToCGI], Nul)
  BY DEF EnviarFin
<1>3. ColasDeMensajes' /\ Len(cola') = Len(cola) /\ \A c : Camino(c)' = Camino(c)
  BY <1>1, <1>2, UnoMas
<1>4. Limpio => \E c \in Clientes : EnSesion(c)
  BY <1>1 DEF InvServicio, MotorOcioso
<1>5. ASSUME NEW c \in Clientes, NEW de \in Lugares(RespuestaDe(c)), NEW al \in Lugares(RespuestaDe(c)),
             Fase(c, al), EnCamino(RespuestaDe(c), cola[clave[SearchToCGI]], de, al)
      PROVE  \E nuevo \in Lugares(RespuestaDe(c)) :
               EnCamino(RespuestaDe(c), cola'[clave[SearchToCGI]], de, nuevo) /\ Fase(c, nuevo)'
  <2> DEFINE r == RespuestaDe(c)
  <2>1. Camino(c) = <<>> /\ Queda(r, <<>>, al)
    BY <1>1, <1>5 DEF Fase
  <2>2. r \in Resultados
    BY Pedidos DEF InvServicio
  <2> HIDE DEF r
  <2>3. al # Fin(r) /\ Nul = Caracter(r, al) /\ Siguiente(r, al) = Fin(r)
    BY <2>1, <2>2, QuedaNada
  <2>4. Siguiente(r, al) \in Lugares(r) /\ EnCamino(r, cola'[clave[SearchToCGI]], de, Siguiente(r, al))
    BY <1>1, <1>2, <1>5, <2>3, UnoMas DEF r
  <2>5. RespuestaDe(c)' = r
    BY <1>1, MismosClientes DEF r
  <2>6. PICK nuevo \in Lugares(r) : nuevo = Siguiente(r, al)
    BY <2>4
  <2>7. Fase(c, nuevo)'
    BY <1>1, <1>3, <2>1, <2>3, <2>5, <2>6 DEF Fase
  <2> QED
    BY <2>4, <2>6, <2>7 DEF r
<1> QED
  BY <1>1, <1>3, <1>4, <1>5, Turno
-----------------------------------------------------------------------------
(* Outside of its service the engine leaves the queue of replies as it is, *)
(* or nobody waits in it and it is empty, if it is.                        *)
LEMMA FueraDeServicio ==
  ASSUME InvServicio, InvCanales', ColasDeMensajes', CanalesDeClientes', Reposo', UNCHANGED cliente,
         \/ /\ ~EnServicio' /\ clave'[SearchToCGI] = clave[SearchToCGI]
            /\ clave[SearchToCGI] # 0 => cola'[clave[SearchToCGI]] = cola[clave[SearchToCGI]]
         \/ /\ \A c \in Clientes : canal[c][SearchToCGI] \notin viva'
            /\ clave'[SearchToCGI] # 0 => cola'[clave'[SearchToCGI]] = <<>>
            /\ EnServicio' => pcMotor' = "escuchar" /\ temp' = <<>> /\ cola'[clave'[CGItoSearch]] = <<>>
  PROVE  InvServicio'
<1>1. TiposDelServicio' /\ UnoALaVez' /\ Pasos'
  BY MismosClientes DEF InvServicio
<1>2. UNCHANGED <<pc, canal, docs, currentDoc, isError>>
  BY DEF cliente
<1>3. CASE /\ ~EnServicio' /\ clave'[SearchToCGI] = clave[SearchToCGI]
           /\ clave[SearchToCGI] # 0 => cola'[clave[SearchToCGI]] = cola[clave[SearchToCGI]]
  <2>1. Limpio' <=> Limpio
    BY <1>2, <1>3 DEF Limpio
  <2>2. SearchToCGI \in Canales /\ 0 \notin viva /\ (clave[SearchToCGI] # 0 => clave[SearchToCGI] \in viva)
    BY Hechos DEF InvServicio
  <2>3. 0 \notin viva' /\ (clave'[SearchToCGI] # 0 => clave'[SearchToCGI] \in viva')
    <3>1. 0 \notin viva'
      <4>1. Len(cola') \in Nat /\ viva' \subseteq 1..Len(cola')
        BY Agregar DEF InvCanales, ColasNumeradas
      <4> QED
        BY <4>1
    <3> QED
      BY <2>2, <3>1 DEF InvCanales, ClavesVivas
  <2>4. \A c \in Clientes :
          /\ canal[c][SearchToCGI] \in viva => canal[c][SearchToCGI] = clave[SearchToCGI]
          /\ canal[c][SearchToCGI] \in viva' => canal[c][SearchToCGI] = clave'[SearchToCGI]
    BY <1>2, <2>2 DEF InvServicio, CanalesDeClientes, CanalesDe
  <2>5. \A c \in Clientes : canal[c][SearchToCGI] \in viva' <=> canal[c][SearchToCGI] \in viva
    BY <1>3, <2>2, <2>3, <2>4
  <2>6. \A c \in Clientes : Espera(c)' <=> Espera(c)
    BY <1>2, <2>5 DEF Espera
  <2>7. NadieEspera' /\ MotorOcioso'
    BY <1>3, <2>1, <2>6 DEF InvServicio, NadieEspera, MotorOcioso
  <2>8. RespuestasEnCamino'
    <3> SUFFICES ASSUME Limpio, NEW c \in Clientes, Espera(c)
                 PROVE  \E de, al \in Lugares(RespuestaDe(c)) :
                          /\ Va(c, de)
                          /\ EnCamino(RespuestaDe(c), cola[clave[SearchToCGI]], de, al)
      <4>1. \A c : RespuestaDe(c)' = RespuestaDe(c) /\ \A p : Va(c, p)' <=> Va(c, p)
        BY MismosClientes
      <4>2. \A c \in Clientes : Espera(c) => cola'[clave'[SearchToCGI]] = cola[clave[SearchToCGI]]
        BY <1>3, <2>2, <2>4 DEF Espera
      <4> QED
        BY <1>3, <2>1, <2>6, <4>1, <4>2 DEF RespuestasEnCamino
    <3> QED
      BY DEF InvServicio, RespuestasEnCamino
  <2> QED
    BY <1>1, <2>7, <2>8 DEF InvServicio
<1>4. CASE /\ \A c \in Clientes : canal[c][SearchToCGI] \notin viva'
           /\ clave'[SearchToCGI] # 0 => cola'[clave'[SearchToCGI]] = <<>>
           /\ EnServicio' => pcMotor' = "escuchar" /\ temp' = <<>> /\ cola'[clave'[CGItoSearch]] = <<>>
  <2>1. \A c \in Clientes : ~Espera(c)'
    BY <1>2, <1>4 DEF Espera
  <2>2. RespuestasEnCamino' /\ NadieEspera'
    BY <1>4, <2>1 DEF RespuestasEnCamino, NadieEspera
  <2>3. EnServicio' => clave'[SearchToCGI] # 0
    BY DEF InvCanales, ArranqueEnOrden, Tiene
  <2>4. MotorOcioso'
    BY <1>4, <2>3 DEF MotorOcioso
  <2> QED
    BY <1>1, <2>2, <2>4 DEF InvServicio
<1> QED
  BY <1>3, <1>4

(* A queue that is created is empty and nobody has it.                     *)
LEMMA ServicioCrea ==
  ASSUME InvServicio, NEW k \in Canales, CreateChannel(k), UNCHANGED cliente
  PROVE  /\ ColasDeMensajes' /\ CanalesDeClientes'
         /\ clave[k] # 0 => UNCHANGED colas
         /\ clave[k] = 0 => cola'[clave'[k]] = <<>> /\ \A c \in Clientes : canal[c][k] \notin viva'
         /\ \A j \in Canales \ {k} : clave'[j] = clave[j]
         /\ \A i \in viva : cola'[i] = cola[i]
<1> DEFINE n == Len(cola) + 1
<1>1. UNCHANGED <<canal, pc>>
  BY DEF cliente
<1>2. CASE clave[k] # 0
  <2>1. UNCHANGED <<clave, cola, viva>>
    BY <1>2 DEF CreateChannel, colas
  <2> QED
    BY <1>1, <1>2, <2>1 DEF InvServicio, ColasDeMensajes, CanalesDeClientes, CanalesDe, colas
<1>3. CASE clave[k] = 0
  <2>1. cola' = Append(cola, <<>>) /\ viva' = viva \cup {n} /\ clave' = [clave EXCEPT ![k] = n]
    BY <1>3 DEF CreateChannel
  <2>2. EsSecuencia(cola) /\ clave \in [Canales -> Nat]
    BY DEF InvServicio, InvCanales, ColasNumeradas, ClavesVivas
  <2>3. Len(cola') = n /\ Len(cola) \in Nat /\ cola'[n] = <<>> /\ \A i \in 1..Len(cola) : cola'[i] = cola[i]
    <3>1. PICK A : cola \in Seq(A)
      BY <2>2 DEF EsSecuencia
    <3>2. cola \in Seq(A \cup {<<>>})
      BY <3>1
    <3> QED
      BY <2>1, <3>2
  <2>4. clave'[k] = n /\ \A j \in Canales \ {k} : clave'[j] = clave[j]
    BY <2>1, <2>2, <2>3
  <2>5. viva \subseteq 1..Len(cola) /\ 0 \notin viva
    BY Hechos DEF InvServicio
  <2>6. ColasDeMensajes'
    <3>1. EsSecuencia(<<>>)
      BY DEF EsSecuencia
    <3>2. \A i \in 1..Len(cola') : i \in 1..Len(cola) \/ i = n
      BY <2>3
    <3> QED
      BY <2>3, <3>1, <3>2 DEF InvServicio, ColasDeMensajes
  <2>7. \A c \in Clientes, j \in Canales :
          /\ canal[c][j] <= Len(cola) /\ canal[c][j] \in Nat
          /\ canal[c][j] \in viva => canal[c][j] = clave[j]
    BY DEF InvServicio, CanalesDeClientes, CanalesDe, TiposDelServicio
  <2>8. \A c \in Clientes, j \in Canales : canal[c][j] \in viva' => canal[c][j] \in viva /\ j # k
    BY <1>3, <2>1, <2>3, <2>5, <2>7
  <2>9. CanalesDeClientes'
    <3>1. \A c \in Clientes, j \in Canales :
            canal[c][j] <= Len(cola') /\ (canal[c][j] \in viva' => canal[c][j] = clave'[j])
      BY <2>3, <2>4, <2>7, <2>8
    <3>2. CGItoSearch \in Canales
      BY DEF Canales
    <3>3. \A c \in Clientes :
            canal[c][CGItoSearch] \in viva' /\ canal[c][SearchToCGI] # 0 => canal[c][SearchToCGI] \in viva'
      BY <2>1, <2>8, <3>2 DEF InvServicio, CanalesDeClientes, CanalesDe
    <3> QED
      BY <1>1, <3>1, <3>3 DEF CanalesDeClientes, CanalesDe
  <2> QED
    BY <1>3, <2>3, <2>4, <2>5, <2>6, <2>8, <2>9
<1> QED
  BY <1>2, <1>3

(* A queue that is removed is not there for anybody: first the one of the  *)
(* requests, so that nobody can ask and not be told.                       *)
LEMMA ServicioBorra ==
  ASSUME InvServicio, NEW k \in Canales, Tiene(k), DestroyChannel(k), UNCHANGED cliente,
         k = CGItoSearch \/ clave[CGItoSearch] = 0
  PROVE  /\ ColasDeMensajes' /\ CanalesDeClientes' /\ clave'[k] = 0
         /\ \A j \in Canales \ {k} : clave'[j] = clave[j]
         /\ \A i \in viva : i # clave[k] => cola'[i] = cola[i]
         /\ \A c \in Clientes : canal[c][k] \notin viva'
<1> DEFINE id == clave[k]
<1>1. UNCHANGED <<canal, pc>>
  BY DEF cliente
<1>2. /\ ClavesVivas /\ ColasNumeradas /\ id \in viva /\ 0 \notin viva
      /\ CGItoSearch \in Canales /\ SearchToCGI \in Canales
  BY Hechos DEF InvServicio, InvCanales, Tiene, ClavesVivas
<1>3. clave'[k] = 0 /\ \A j \in Canales \ {k} : clave'[j] = clave[j]
  BY <1>2, Borra
<1>4. cola' = [cola EXCEPT ![id] = <<>>] /\ viva' = viva \ {id}
  BY <1>2 DEF DestroyChannel, Tiene
<1>5. ColasDeMensajes' /\ Len(cola') = Len(cola) /\ \A i \in viva : i # id => cola'[i] = cola[i]
  <2>1. EsSecuencia(<<>>)
    BY DEF EsSecuencia
  <2> HIDE DEF id
  <2> QED
    BY <1>2, <1>4, <2>1, UnaCola DEF InvServicio
<1>6. \A c \in Clientes, j \in Canales :
        /\ canal[c][j] <= Len(cola)
        /\ canal[c][j] \in viva => canal[c][j] = clave[j]
  BY DEF InvServicio, CanalesDeClientes, CanalesDe
<1>7. \A c \in Clientes, j \in Canales : canal[c][j] \in viva' => canal[c][j] \in viva /\ j # k
  BY <1>4, <1>6
<1>8. CanalesDeClientes'
  <2>1. \A c \in Clientes, j \in Canales :
          canal[c][j] <= Len(cola') /\ (canal[c][j] \in viva' => canal[c][j] = clave'[j])
    BY <1>3, <1>5, <1>6, <1>7
  <2>2. \A c \in Clientes : canal[c][CGItoSearch] \notin viva'
    BY <1>2, <1>6, <1>7
  <2> QED
    BY <1>1, <2>1, <2>2 DEF CanalesDeClientes, CanalesDe
<1> QED
  BY <1>2, <1>3, <1>5, <1>7, <1>8

(* The six calls of the startup.                                           *)
LEMMA ServicioArrancar ==
  ASSUME InvServicio, InvCanales', Arrancar
  PROVE  InvServicio'
<1> DEFINE A == CGItoSearch
           B == SearchToCGI
<1>1. A \in Canales /\ B \in Canales /\ A # B /\ A \in Canales \ {B} /\ B \in Canales \ {A}
  BY DEF Canales, CGItoSearch, SearchToCGI
<1>2. UNCHANGED cliente /\ UNCHANGED temp
  BY DEF Arrancar
<1>3. ~EnServicio /\ temp = <<>>
  BY DEF Arrancar, EnArranque, Arranque, EnServicio, InvServicio, Reposo
<1>4. ArranqueEnOrden
  BY DEF InvServicio, InvCanales
<1>5. \A k \in Canales : clave[k] # 0 => clave[k] \in viva
  BY Hechos DEF InvServicio
<1> HIDE DEF A, B
<1>6. CASE EnArranque(1) /\ CreateChannel(A)
  <2>1. pcMotor' = "crear2" /\ ~EnServicio'
    BY <1>6 DEF EnArranque, Arranque, EnServicio
  <2>2. Reposo'
    BY <1>2, <1>3, <2>1 DEF Reposo
  <2>3. /\ ColasDeMensajes' /\ CanalesDeClientes' /\ clave'[B] = clave[B]
        /\ \A i \in viva : cola'[i] = cola[i]
    BY <1>1, <1>2, <1>6, ServicioCrea
  <2> QED
    BY <1>1, <1>2, <1>5, <2>1, <2>2, <2>3, FueraDeServicio DEF B
<1>7. CASE EnArranque(2) /\ CreateChannel(B)
  <2>1. pcMotor' = "borrar1" /\ ~EnServicio'
    BY <1>7 DEF EnArranque, Arranque, EnServicio
  <2>2. Reposo'
    BY <1>2, <1>3, <2>1 DEF Reposo
  <2>3. /\ ColasDeMensajes' /\ CanalesDeClientes'
        /\ clave[B] # 0 => UNCHANGED colas
        /\ clave[B] = 0 => cola'[clave'[B]] = <<>> /\ \A c \in Clientes : canal[c][B] \notin viva'
    BY <1>1, <1>2, <1>7, ServicioCrea
  <2> QED
    BY <1>2, <2>1, <2>2, <2>3, FueraDeServicio DEF B, colas
<1>8. CASE EnArranque(3) /\ DestroyChannel(A)
  <2>1. pcMotor = "borrar1" /\ pcMotor' = "borrar2" /\ ~EnServicio'
    BY <1>8 DEF EnArranque, Arranque, EnServicio
  <2>2. Reposo'
    BY <1>2, <1>3, <2>1 DEF Reposo
  <2>3. Tiene(A) /\ clave[A] # 0 /\ clave[A] # clave[B]
    BY <1>4, <2>1, Hechos DEF ArranqueEnOrden, Tiene, InvServicio, A, B
  <2>4. /\ ColasDeMensajes' /\ CanalesDeClientes' /\ clave'[B] = clave[B]
        /\ \A i \in viva : i # clave[A] => cola'[i] = cola[i]
    BY <1>1, <1>2, <1>8, <2>3, ServicioBorra DEF A
  <2> QED
    BY <1>1, <1>2, <1>5, <2>1, <2>2, <2>3, <2>4, FueraDeServicio DEF B
<1>9. CASE EnArranque(4) /\ DestroyChannel(B)
  <2>1. pcMotor = "borrar2" /\ pcMotor' = "recrear1" /\ ~EnServicio'
    BY <1>9 DEF EnArranque, Arranque, EnServicio
  <2>2. Reposo'
    BY <1>2, <1>3, <2>1 DEF Reposo
  <2>3. Tiene(B) /\ clave[A] = 0
    BY <1>4, <2>1 DEF ArranqueEnOrden, A, B
  <2>4. /\ ColasDeMensajes' /\ CanalesDeClientes' /\ clave'[B] = 0
        /\ \A c \in Clientes : canal[c][B] \notin viva'
    BY <1>1, <1>2, <1>9, <2>3, ServicioBorra DEF A
  <2> QED
    BY <1>2, <2>1, <2>2, <2>4, FueraDeServicio DEF B
<1>10. CASE EnArranque(5) /\ CreateChannel(A)
  <2>1. pcMotor = "recrear1" /\ pcMotor' = "recrear2" /\ ~EnServicio'
    BY <1>10 DEF EnArranque, Arranque, EnServicio
  <2>2. clave[A] = 0
    BY <1>4, <2>1 DEF ArranqueEnOrden, A
  <2>3. /\ ColasDeMensajes' /\ CanalesDeClientes' /\ clave'[B] = clave[B] /\ cola'[clave'[A]] = <<>>
        /\ \A i \in viva : cola'[i] = cola[i]
    BY <1>1, <1>2, <1>10, <2>2, ServicioCrea
  <2>4. Reposo'
    BY <1>2, <1>3, <2>1, <2>3 DEF Reposo, A
  <2> QED
    BY <1>1, <1>2, <1>5, <2>1, <2>3, <2>4, FueraDeServicio DEF B
<1>11. CASE EnArranque(6) /\ CreateChannel(B)
  <2>1. pcMotor = "recrear2" /\ pcMotor' = "escuchar" /\ EnServicio'
    BY <1>11 DEF EnArranque, Arranque, EnServicio
  <2>2. Reposo'
    BY <2>1 DEF Reposo
  <2>3. clave[B] = 0 /\ clave[A] \in viva /\ cola[clave[A]] = <<>>
    BY <1>1, <1>4, <1>5, <2>1 DEF ArranqueEnOrden, Tiene, InvServicio, Reposo, A, B
  <2>4. /\ ColasDeMensajes' /\ CanalesDeClientes' /\ clave'[A] = clave[A]
        /\ cola'[clave'[B]] = <<>> /\ \A c \in Clientes : canal[c][B] \notin viva'
        /\ \A i \in viva : cola'[i] = cola[i]
    BY <1>1, <1>2, <1>11, <2>3, ServicioCrea
  <2> QED
    BY <1>2, <1>3, <2>1, <2>2, <2>3, <2>4, FueraDeServicio DEF A, B
<1> QED
  BY <1>6, <1>7, <1>8, <1>9, <1>10, <1>11 DEF Arrancar, A, B

(* The engine is killed: what is in the queues stays.                      *)
LEMMA ServicioCaer ==
  ASSUME InvServicio, InvCanales', Caer
  PROVE  InvServicio'
<1>1. UNCHANGED <<clave, cola, viva, cliente>> /\ pcMotor' = "apagado" /\ temp' = <<>>
  BY DEF Caer, colas
<1>2. ColasDeMensajes' /\ CanalesDeClientes'
  BY <1>1 DEF InvServicio, ColasDeMensajes, CanalesDeClientes, CanalesDe, cliente
<1>3. ~EnServicio' /\ Reposo'
  BY <1>1 DEF EnServicio, Reposo
<1> QED
  BY <1>1, <1>2, <1>3, FueraDeServicio
-----------------------------------------------------------------------------
(* A step of a client: its own and the queues' messages.                   *)
SoloCambia(c) ==
  /\ UNCHANGED <<clave, viva, motor, pedido>> /\ Len(cola') = Len(cola)
  /\ \A d \in Clientes \ {c} :
       /\ pc'[d] = pc[d] /\ canal'[d] = canal[d] /\ busqueda'[d] = busqueda[d]
       /\ isError'[d] = isError[d] /\ currentDoc'[d] = currentDoc[d] /\ docs'[d] = docs[d]

(* No other client is asking or waiting then.                              *)
LEMMA LosDemas ==
  ASSUME InvServicio, NEW c \in Clientes, SoloCambia(c), c \in Activos \/ Activos = {}
  PROVE  /\ \A d \in Clientes \ {c} : d \notin Activos /\ ~Espera(d) /\ ~EnSesion(d)
         /\ \A d \in Clientes \ {c} : d \notin Activos' /\ ~Espera(d)' /\ ~EnSesion(d)'
         /\ \A d : RespuestaDe(d)' = RespuestaDe(d) /\ Pide(d)' = Pide(d)
         /\ EnServicio' <=> EnServicio
         /\ clave' = clave /\ viva' = viva /\ pcMotor' = pcMotor /\ canalMotor' = canalMotor /\ temp' = temp
         /\ isOk' = isOk /\ documentos' = documentos
<1>1. \A d \in Clientes \ {c} : d \notin Activos
  BY DEF InvServicio, UnoALaVez
<1>2. \A d \in Clientes \ {c} : ~Espera(d) /\ ~EnSesion(d)
  BY <1>1 DEF Espera, EnSesion, Activos, Finales
<1>3. \A d \in Clientes \ {c} : d \notin Activos'
  BY <1>1 DEF SoloCambia, Activos
<1>4. \A d \in Clientes \ {c} : ~Espera(d)' /\ ~EnSesion(d)'
  BY <1>2 DEF Espera, EnSesion, SoloCambia
<1>5. \A d : RespuestaDe(d)' = RespuestaDe(d) /\ Pide(d)' = Pide(d)
  BY DEF SoloCambia, RespuestaDe, Pide
<1>6. EnServicio' <=> EnServicio
  BY DEF SoloCambia, EnServicio, motor
<1> QED
  BY <1>1, <1>2, <1>3, <1>4, <1>5, <1>6 DEF SoloCambia, motor

(* What a step of a client keeps without looking at the reply.             *)
LEMMA Llano ==
  ASSUME InvServicio, NEW c \in Clientes, SoloCambia(c), c \in Activos \/ Activos = {},
         TiposDelServicio', ColasDeMensajes', CanalesDe(c)', PasosDe(c)',
         pcMotor = "recrear2" => cola'[clave[CGItoSearch]] = cola[clave[CGItoSearch]],
         RespuestasEnCamino', NadieEspera', MotorOcioso', InvCanales'
  PROVE  InvServicio'
<1>1. UnoALaVez'
  BY LosDemas DEF UnoALaVez, Activos
<1>2. CanalesDeClientes'
  <2>1. \A d \in Clientes \ {c} : CanalesDe(d)'
    BY DEF InvServicio, CanalesDeClientes, CanalesDe, SoloCambia
  <2> QED
    BY <2>1 DEF CanalesDeClientes
<1>3. Pasos'
  <2>1. \A d \in Clientes \ {c} : PasosDe(d)'
    BY LosDemas DEF InvServicio, Pasos, PasosDe, SoloCambia
  <2> QED
    BY <2>1 DEF Pasos
<1>4. Reposo'
  BY LosDemas DEF InvServicio, Reposo
<1> QED
  BY <1>1, <1>2, <1>3, <1>4 DEF InvServicio

(* Nobody waited and nobody waits: nothing is on its way.                  *)
LEMMA SinEspera ==
  ASSUME InvServicio, NEW c \in Clientes, SoloCambia(c), c \in Activos \/ Activos = {},
         UNCHANGED cola, ~Espera(c), ~Espera(c)', Limpio' => Limpio
  PROVE  RespuestasEnCamino' /\ NadieEspera' /\ MotorOcioso'
<1>1. \A d \in Clientes : ~Espera(d) /\ ~EnSesion(d) /\ ~Espera(d)'
  BY LosDemas DEF EnSesion
<1>2. RespuestasEnCamino'
  BY <1>1 DEF RespuestasEnCamino
<1>3. NadieEspera'
  BY <1>1, LosDemas DEF InvServicio, NadieEspera
<1>4. MotorOcioso'
  BY <1>1, LosDemas DEF InvServicio, MotorOcioso
<1> QED
  BY <1>2, <1>3, <1>4

(* A client goes on waiting.                                               *)
LEMMA SigueEsperando ==
  ASSUME InvServicio, NEW c \in Clientes, SoloCambia(c), c \in Activos, Espera(c)',
         Limpio' => /\ Limpio
                    /\ EnServicio /\ ~EnSesion(c)' => ~EnSesion(c) /\ cola' = cola
                    /\ \E de, al \in Lugares(RespuestaDe(c)) :
                         /\ Va(c, de)'
                         /\ EnCamino(RespuestaDe(c), cola'[clave[SearchToCGI]], de, al)
                         /\ EnServicio /\ EnSesion(c)' => Fase(c, al)'
  PROVE  RespuestasEnCamino' /\ NadieEspera' /\ MotorOcioso'
<1>1. NadieEspera'
  BY DEF NadieEspera
<1>2. MotorOcioso'
  <2> SUFFICES ASSUME Limpio', EnServicio', ~EnSesion(c)'
               PROVE  /\ pcMotor' = "escuchar" /\ temp' = <<>>
                      /\ cola'[clave'[CGItoSearch]] = <<>> /\ cola'[clave'[SearchToCGI]] = <<>>
    BY DEF MotorOcioso
  <2>1. Limpio /\ EnServicio /\ ~EnSesion(c) /\ cola' = cola
    BY LosDemas
  <2>2. \A d \in Clientes : ~EnSesion(d)
    BY <2>1, LosDemas
  <2> QED
    BY <2>1, <2>2, LosDemas DEF InvServicio, MotorOcioso
<1>3. RespuestasEnCamino'
  <2> SUFFICES ASSUME Limpio', NEW d \in Clientes, Espera(d)'
               PROVE  (\E de, al \in Lugares(RespuestaDe(d)) :
                         /\ Va(d, de)
                         /\ EnCamino(RespuestaDe(d), cola[clave[SearchToCGI]], de, al)
                         /\ EnServicio /\ EnSesion(d) => Fase(d, al))'
    BY DEF RespuestasEnCamino
  <2>1. d = c
    BY LosDemas
  <2> QED
    BY <2>1, LosDemas
<1> QED
  BY <1>1, <1>2, <1>3
-----------------------------------------------------------------------------
(* With one request at a time, a new one is alone.                         *)
LEMMA NadieMas ==
  ASSUME MaxActivos = 1, UnoALaVez, Cardinality(Activos) < MaxActivos
  PROVE  Activos = {}
<1> SUFFICES ASSUME NEW d \in Activos PROVE FALSE
  OBVIOUS
<1>1. Activos = {d}
  BY DEF UnoALaVez
<1>2. Cardinality({d}) = 1
  BY FS_Singleton
<1> QED
  BY <1>1, <1>2

(* Whether there is a killed request changes only when one is.             *)
LEMMA SigueLimpio ==
  ASSUME NEW c \in Clientes, SoloCambia(c), pc[c] # "abortado", pc'[c] # "abortado"
  PROVE  Limpio' <=> Limpio
<1>1. \A d \in Clientes \ {c} : pc'[d] = pc[d] /\ canal'[d] = canal[d]
  BY DEF SoloCambia
<1>2. clave' = clave
  BY DEF SoloCambia
<1> QED
  BY <1>1, <1>2 DEF Limpio

(* The first msgget of a client.                                           *)
LEMMA ServicioAbrirPedido ==
  ASSUME MaxActivos = 1, InvServicio, InvCanales', NEW c \in Clientes, AbrirPedido(c)
  PROVE  InvServicio'
<1> DEFINE A == CGItoSearch
           B == SearchToCGI
<1>1. /\ pc[c] = "inicio" /\ canal' = [canal EXCEPT ![c][A] = clave[A]]
      /\ pc' = [pc EXCEPT ![c] = IF clave[A] = 0 THEN "exit1" ELSE "abrir2"]
      /\ busqueda' = [busqueda EXCEPT ![c] = Pide(c)]
      /\ UNCHANGED <<clave, cola, viva, motor, pedido, isError, currentDoc, docs>>
  BY DEF AbrirPedido, Abrir, colas, Pide
<1>2. Activos = {}
  BY NadieMas DEF AbrirPedido, InvServicio
<1>3. A \in Canales /\ B \in Canales /\ A # B /\ \A k \in Canales : clave[k] \in Nat /\ clave[k] <= Len(cola) /\ (clave[k] # 0 => clave[k] \in viva)
  <2>1. \A k \in Canales : clave[k] # 0 => clave[k] \in 1..Len(cola)
    BY Hechos DEF InvServicio
  <2>2. Len(cola) \in Nat
    BY Hechos DEF InvServicio
  <2> QED
    BY <2>1, <2>2, Hechos DEF InvServicio
<1>4. /\ TiposDelServicio /\ pc \in [Clientes -> {"inicio", "abrir2", "enviar", "recibir"} \cup Finales]
      /\ canal \in [Clientes -> [Canales -> Nat]] /\ busqueda \in [Clientes -> Seq(Caracteres)]
  BY DEF InvServicio, TiposDelServicio
<1>5. Pide(c) \in Seq(Caracteres)
  <2>1. pedido[c].consulta \in Seq(Letras) /\ pedido[c].metodo \in Metodos
    BY <1>4, Pedidos
  <2> QED
    BY <2>1 DEF Pide, Caracteres
<1> HIDE DEF A, B
<1>6. /\ pc' \in [Clientes -> {"inicio", "abrir2", "enviar", "recibir"} \cup Finales]
      /\ pc'[c] = IF clave[A] = 0 THEN "exit1" ELSE "abrir2"
      /\ canal' \in [Clientes -> [Canales -> Nat]] /\ canal'[c][A] = clave[A] /\ canal'[c][B] = canal[c][B]
      /\ busqueda' \in [Clientes -> Seq(Caracteres)] /\ busqueda'[c] = Pide(c)
  BY <1>1, <1>3, <1>4, <1>5 DEF Finales
<1>7. TiposDelServicio' /\ ColasDeMensajes'
  BY <1>1, <1>4, <1>6 DEF TiposDelServicio, InvServicio, ColasDeMensajes
<1>8. SoloCambia(c)
  BY <1>1, <1>4 DEF SoloCambia
<1>9. canal[c] = Cerrados /\ canal[c][B] = 0 /\ docs[c] = <<>> /\ currentDoc[c] = <<>>
  BY <1>1, <1>3 DEF InvServicio, Pasos, PasosDe, Cerrados
<1>10. CanalesDe(c)'
  <2>1. \A k \in Canales : canal'[c][k] <= Len(cola) /\ (canal'[c][k] \in viva => canal'[c][k] = clave[k])
    <3>1. 0 \notin viva /\ Len(cola) \in Nat
      BY Hechos DEF InvServicio
    <3>2. \A k \in Canales : k = A \/ k = B
      BY DEF Canales, A, B
    <3> QED
      BY <1>3, <1>6, <1>9, <3>1, <3>2
  <2> QED
    BY <1>1, <1>6, <1>9, <2>1 DEF CanalesDe, B
<1>11. PasosDe(c)'
  BY <1>1, <1>2, <1>6, <1>8, <1>9, LosDemas DEF PasosDe, A, B
<1>12. RespuestasEnCamino' /\ NadieEspera' /\ MotorOcioso'
  <2>1. ~Espera(c) /\ ~Espera(c)'
    BY <1>1, <1>6 DEF Espera
  <2>2. Limpio' => Limpio
    BY <1>1, <1>6, <1>8, SigueLimpio
  <2> QED
    BY <1>1, <1>2, <1>8, <2>1, <2>2, SinEspera
<1> QED
  BY <1>1, <1>2, <1>7, <1>8, <1>10, <1>11, <1>12, Llano

(* The second one: the queue of replies is empty, whatever came before,    *)
(* unless a request was killed with it.                                    *)
LEMMA ServicioAbrirRespuesta ==
  ASSUME InvServicio, InvCanales', NEW c \in Clientes, AbrirRespuesta(c)
  PROVE  InvServicio'
<1> DEFINE A == CGItoSearch
           B == SearchToCGI
<1>1. /\ pc[c] = "abrir2" /\ canal' = [canal EXCEPT ![c][B] = clave[B]]
      /\ pc' = [pc EXCEPT ![c] = IF clave[B] = 0 THEN "exit1" ELSE "enviar"]
      /\ UNCHANGED <<clave, cola, viva, motor, pedido, busqueda, isError, currentDoc, docs>>
  BY DEF AbrirRespuesta, Abrir, colas
<1>2. c \in Activos
  BY <1>1 DEF Activos, Finales
<1>3. /\ A \in Canales /\ B \in Canales /\ A # B
      /\ clave[B] \in Nat /\ clave[B] <= Len(cola) /\ (clave[B] # 0 => clave[B] \in viva)
  <2>1. B \in Canales /\ (clave[B] # 0 => clave[B] \in 1..Len(cola)) /\ Len(cola) \in Nat
    BY Hechos DEF InvServicio
  <2> QED
    BY <2>1, Hechos DEF InvServicio
<1>4. /\ TiposDelServicio /\ pc \in [Clientes -> {"inicio", "abrir2", "enviar", "recibir"} \cup Finales]
      /\ canal \in [Clientes -> [Canales -> Nat]]
  BY DEF InvServicio, TiposDelServicio
<1> HIDE DEF A, B
<1>5. /\ pc' \in [Clientes -> {"inicio", "abrir2", "enviar", "recibir"} \cup Finales]
      /\ pc'[c] = IF clave[B] = 0 THEN "exit1" ELSE "enviar"
      /\ canal' \in [Clientes -> [Canales -> Nat]] /\ canal'[c][B] = clave[B] /\ canal'[c][A] = canal[c][A]
  BY <1>1, <1>3, <1>4 DEF Finales
<1>6. TiposDelServicio' /\ ColasDeMensajes'
  BY <1>1, <1>4, <1>5 DEF TiposDelServicio, InvServicio, ColasDeMensajes
<1>7. SoloCambia(c)
  BY <1>1, <1>4 DEF SoloCambia
<1>8. canal[c][A] # 0 /\ canal[c][B] = 0 /\ busqueda[c] = Pide(c) /\ docs[c] = <<>> /\ currentDoc[c] = <<>>
  BY <1>1 DEF InvServicio, Pasos, PasosDe, A, B
<1>9. CanalesDe(c)'
  <2>1. \A k \in Canales : canal'[c][k] <= Len(cola) /\ (canal'[c][k] \in viva => canal'[c][k] = clave[k])
    <3>1. \A k \in Canales : k = A \/ k = B
      BY DEF Canales, A, B
    <3>2. canal[c][A] <= Len(cola) /\ (canal[c][A] \in viva => canal[c][A] = clave[A])
      BY <1>3 DEF InvServicio, CanalesDeClientes, CanalesDe
    <3> QED
      BY <1>3, <1>5, <3>1, <3>2
  <2> QED
    BY <1>1, <1>3, <1>5, <2>1 DEF CanalesDe, B
<1>10. PasosDe(c)'
  BY <1>1, <1>2, <1>5, <1>7, <1>8, LosDemas DEF PasosDe, A, B
<1>11. (Limpio' <=> Limpio) /\ ~Espera(c) /\ ~EnSesion(c)
  BY <1>1, <1>5, <1>7, SigueLimpio DEF Espera, EnSesion
<1>12. RespuestasEnCamino' /\ NadieEspera' /\ MotorOcioso'
  <2>1. CASE clave[B] = 0
    <3>1. ~Espera(c)'
      BY <1>5, <2>1 DEF Espera
    <3> QED
      BY <1>1, <1>2, <1>7, <1>11, <3>1, SinEspera
  <2>2. CASE clave[B] # 0
    <3>1. Espera(c)'
      BY <1>1, <1>3, <1>5, <2>2 DEF Espera, B
    <3>2. SUFFICES ASSUME Limpio
                   PROVE  \E de, al \in Lugares(RespuestaDe(c)) :
                            /\ Va(c, de)'
                            /\ EnCamino(RespuestaDe(c), cola'[clave[SearchToCGI]], de, al)
                            /\ EnServicio /\ EnSesion(c)' => Fase(c, al)'
      BY <1>1, <1>2, <1>7, <1>11, <3>1, SigueEsperando
    <3>3. \A d \in Clientes : ~Espera(d) /\ ~EnSesion(d)
      BY <1>2, <1>7, <1>11, LosDemas
    <3>4. cola[clave[B]] = <<>>
      BY <2>2, <3>2, <3>3 DEF InvServicio, NadieEspera, B
    <3>5. RespuestaDe(c) \in Resultados
      BY <1>4, Pedidos
    <3>6. Comienzo \in Lugares(RespuestaDe(c))
      BY <3>5, QuedaTodo
    <3>7. Va(c, Comienzo)'
      BY <1>5, <2>2 DEF Va
    <3>8. EnCamino(RespuestaDe(c), cola'[clave[B]], Comienzo, Comienzo)
      BY <1>1, <3>4, <3>6, CaminoVacio
    <3>9. ASSUME EnServicio PROVE Fase(c, Comienzo)'
      <4>1. pcMotor = "escuchar" /\ temp = <<>> /\ cola[clave[A]] = <<>>
        BY <3>2, <3>3, <3>9 DEF InvServicio, MotorOcioso, A
      <4>2. Camino(c) = Pide(c)
        <5>1. Camino(c) = cola[clave[A]] \o Pide(c)
          BY <1>8 DEF Camino, A
        <5>2. EsSecuencia(Pide(c)) /\ EsSecuencia(<<>>)
          BY <1>4, Pedidos DEF EsSecuencia
        <5> QED
          BY <4>1, <5>1, <5>2, Juntas
      <4>3. pedido[c].consulta \in Seq(Letras) /\ pedido[c].metodo \in Metodos
        BY <1>4, Pedidos
      <4>4. SubSeq(pedido[c].consulta, 1, 0) = <<>> /\ 0 \in 0..Len(pedido[c].consulta)
        <5> DEFINE s == pedido[c].consulta
        <5>1. s \in Seq(Letras)
          BY <4>3
        <5> HIDE DEF s
        <5>2. SubSeq(s, 1, 0) = <<>> /\ 0 \in 0..Len(s)
          BY <5>1
        <5> QED
          BY <5>2 DEF s
      <4>5. Pide(c) = SubSeq(Pide(c), 0 + 1, Len(Pide(c)))
        <5> DEFINE p == Pide(c)
        <5>1. p \in Seq(Caracteres)
          BY <4>3 DEF Pide, Caracteres
        <5> HIDE DEF p
        <5>2. SubSeq(p, 1, Len(p)) = p
          BY <5>1
        <5> QED
          BY <5>2 DEF p
      <4>6. Camino(c)' = Camino(c) /\ Pide(c)' = Pide(c)
        BY <1>1 DEF Camino, Pide
      <4>7. pcMotor' = pcMotor /\ temp' = temp
        BY <1>1 DEF motor
      <4> QED
        BY <1>1, <4>1, <4>2, <4>4, <4>5, <4>6, <4>7 DEF Fase
    <3> QED
      BY <3>6, <3>7, <3>8, <3>9 DEF B
  <2> QED
    BY <2>1, <2>2
<1> QED
  BY <1>1, <1>2, <1>6, <1>7, <1>9, <1>10, <1>12, Llano

(* A character of the request is sent, to the queue there is or to one     *)
(* that was removed.                                                       *)
LEMMA ServicioEnviar ==
  ASSUME InvServicio, InvCanales', NEW c \in Clientes, Enviar(c)
  PROVE  InvServicio'
<1> DEFINE A == CGItoSearch
           B == SearchToCGI
           b == busqueda[c]
           id == canal[c][A]
<1>1. /\ pc[c] = "enviar" /\ b # <<>> /\ Msgsnd(id, Head(b))
      /\ busqueda' = [busqueda EXCEPT ![c] = Tail(b)]
      /\ UNCHANGED <<clave, viva, motor, pc, pedido, canal, isError, currentDoc, docs>>
  BY DEF Enviar
<1>2. c \in Activos
  BY <1>1 DEF Activos, Finales
<1>3. TiposDelServicio /\ b \in Seq(Caracteres) /\ busqueda \in [Clientes -> Seq(Caracteres)]
  BY DEF InvServicio, TiposDelServicio
<1>4. Tail(b) \in Seq(Caracteres)
  BY <1>1, <1>3
<1>5. busqueda' \in [Clientes -> Seq(Caracteres)] /\ busqueda'[c] = Tail(b)
  BY <1>1, <1>3, <1>4
<1>6. TiposDelServicio'
  BY <1>1, <1>3, <1>5 DEF TiposDelServicio
<1>7. A \in Canales /\ B \in Canales /\ A # B /\ (id \in viva => id = clave[A] /\ canal[c][B] \in viva /\ canal[c][B] = clave[B])
  <2>1. canal[c][A] # 0 /\ canal[c][B] # 0
    BY <1>1 DEF InvServicio, Pasos, PasosDe
  <2> QED
    BY <2>1, Hechos DEF InvServicio, CanalesDeClientes, CanalesDe
<1>8. \/ id \notin viva /\ cola' = cola
      \/ id \in viva /\ cola' = [cola EXCEPT ![id] = Append(cola[id], Head(b))]
  BY <1>1 DEF Msgsnd
<1>9. /\ ColasDeMensajes' /\ Len(cola') = Len(cola)
      /\ \A i \in viva : i # id => cola'[i] = cola[i]
      /\ id \in viva => cola'[id] = Append(cola[id], Head(b))
  <2>1. CASE id \notin viva /\ cola' = cola
    BY <2>1 DEF InvServicio, ColasDeMensajes
  <2>2. CASE id \in viva /\ cola' = [cola EXCEPT ![id] = Append(cola[id], Head(b))]
    <3> DEFINE y == Append(cola[id], Head(b))
    <3>1. EsSecuencia(cola[id])
      BY <2>2, EsCola DEF InvServicio
    <3>2. EsSecuencia(y)
      BY <3>1, MasMenos
    <3>3. cola' = [cola EXCEPT ![id] = y]
      BY <2>2
    <3> HIDE DEF y, id
    <3>4. /\ ColasDeMensajes' /\ Len(cola') = Len(cola) /\ cola'[id] = y
          /\ \A i \in viva : i # id => cola'[i] = cola[i]
      BY <2>2, <3>2, <3>3, UnaCola DEF InvServicio
    <3> QED
      BY <2>2, <3>4 DEF y
  <2> QED
    BY <1>8, <2>1, <2>2
<1>10. SoloCambia(c)
  BY <1>1, <1>3, <1>9 DEF SoloCambia
<1>11. CanalesDe(c)'
  BY <1>1, <1>9 DEF InvServicio, CanalesDeClientes, CanalesDe
<1>12. PasosDe(c)'
  BY <1>1 DEF InvServicio, Pasos, PasosDe
<1>13. /\ clave[A] # 0 => clave[A] # clave[B]
       /\ clave[B] # 0 => clave[B] \in viva
       /\ clave[A] # 0 => clave[A] \in viva
       /\ 0 \notin viva
  BY Hechos DEF InvServicio
<1>14. pcMotor = "recrear2" => cola'[clave[A]] = cola[clave[A]]
  <2> SUFFICES ASSUME pcMotor = "recrear2" PROVE cola'[clave[A]] = cola[clave[A]]
    OBVIOUS
  <2>1. clave[B] = 0 /\ clave[A] # 0
    BY DEF InvServicio, InvCanales, ArranqueEnOrden, Tiene
  <2> QED
    BY <1>7, <1>8, <1>13, <2>1
<1>15. (Limpio' <=> Limpio) /\ (Espera(c)' <=> Espera(c)) /\ (EnSesion(c)' <=> EnSesion(c))
  BY <1>1 DEF Limpio, Espera, EnSesion
<1>16. id \in viva => EnSesion(c) /\ Camino(c)' = Camino(c)
  <2> SUFFICES ASSUME id \in viva PROVE EnSesion(c) /\ Camino(c)' = Camino(c)
    OBVIOUS
  <2>1. EnSesion(c)
    BY <1>1, <1>7 DEF EnSesion, Espera
  <2> DEFINE q == cola[id]
  <2>2. Camino(c) = q \o b
    BY <1>7 DEF Camino
  <2>3. Camino(c)' = Append(q, Head(b)) \o Tail(b)
    BY <1>1, <1>5, <1>7, <1>9 DEF Camino
  <2>4. EsSecuencia(q) /\ EsSecuencia(b)
    BY <1>3, EsCola DEF InvServicio, EsSecuencia
  <2> HIDE DEF q, b
  <2>5. Append(q, Head(b)) \o Tail(b) = q \o b
    BY <1>1, <2>4, Juntas
  <2> QED
    BY <2>1, <2>2, <2>3, <2>5
<1>17. RespuestasEnCamino' /\ NadieEspera' /\ MotorOcioso'
  <2>1. CASE ~Espera(c)
    <3>1. id \notin viva
      BY <1>16, <2>1 DEF EnSesion
    <3> QED
      BY <1>2, <1>8, <1>10, <1>15, <2>1, <3>1, SinEspera
  <2>2. CASE Espera(c)
    <3>1. clave[B] \in viva /\ cola'[clave[B]] = cola[clave[B]]
      <4>1. clave[B] \in viva
        BY <1>1, <1>7, <2>2 DEF Espera, InvServicio, CanalesDeClientes, CanalesDe
      <4> QED
        BY <1>7, <1>9, <1>13, <4>1
    <3>2. SUFFICES ASSUME Limpio
                   PROVE  /\ EnServicio /\ ~EnSesion(c) => cola' = cola
                          /\ \E de, al \in Lugares(RespuestaDe(c)) :
                               /\ Va(c, de)'
                               /\ EnCamino(RespuestaDe(c), cola'[clave[SearchToCGI]], de, al)
                               /\ EnServicio /\ EnSesion(c)' => Fase(c, al)'
      BY <1>2, <1>10, <1>15, <2>2, SigueEsperando
    <3>3. ~EnSesion(c) => cola' = cola
      BY <1>8, <1>16
    <3>4. PICK de, al \in Lugares(RespuestaDe(c)) :
            /\ Va(c, de)
            /\ EnCamino(RespuestaDe(c), cola[clave[B]], de, al)
            /\ EnServicio /\ EnSesion(c) => Fase(c, al)
      BY <2>2, <3>2 DEF InvServicio, RespuestasEnCamino
    <3>5. Va(c, de)'
      BY <1>1, <3>4 DEF Va
    <3>6. ASSUME EnServicio, EnSesion(c) PROVE Fase(c, al)'
      <4>1. Fase(c, al) /\ id \in viva
        BY <3>4, <3>6 DEF EnSesion
      <4>2. Camino(c)' = Camino(c) /\ RespuestaDe(c)' = RespuestaDe(c) /\ Pide(c)' = Pide(c)
        BY <1>1, <1>16, <4>1 DEF RespuestaDe, Pide
      <4>3. UNCHANGED <<pcMotor, temp, isOk, documentos, pedido>>
        BY <1>1 DEF motor
      <4> QED
        BY <4>1, <4>2, <4>3 DEF Fase
    <3> QED
      BY <1>15, <3>1, <3>3, <3>4, <3>5, <3>6
  <2> QED
    BY <2>1, <2>2
<1> QED
  BY <1>2, <1>6, <1>9, <1>10, <1>11, <1>12, <1>14, <1>17, Llano

(* A client receives a character: it is the one of the place it is at, if  *)
(* no request was killed with its queue.                                   *)
LEMMA Recibido ==
  ASSUME InvServicio, NEW c \in Clientes, pc[c] \in {"enviar", "recibir"},
         NEW m, Msgrcv(canal[c][SearchToCGI], m)
  PROVE  /\ Espera(c) /\ c \in Activos
         /\ ColasDeMensajes' /\ Len(cola') = Len(cola)
         /\ clave[CGItoSearch] # 0 => cola'[clave[CGItoSearch]] = cola[clave[CGItoSearch]]
         /\ Limpio => \E de, al \in Lugares(RespuestaDe(c)) :
              /\ Va(c, de) /\ de # Fin(RespuestaDe(c)) /\ m = Caracter(RespuestaDe(c), de)
              /\ Siguiente(RespuestaDe(c), de) \in Lugares(RespuestaDe(c))
              /\ EnCamino(RespuestaDe(c), cola'[clave[SearchToCGI]], Siguiente(RespuestaDe(c), de), al)
              /\ EnServicio => EnSesion(c) /\ Fase(c, al)
<1> DEFINE A == CGItoSearch
           B == SearchToCGI
           id == canal[c][B]
           q == cola[id]
           r == RespuestaDe(c)
<1>1. id \in viva /\ q # <<>> /\ m = Head(q) /\ cola' = [cola EXCEPT ![id] = Tail(q)]
  BY DEF Msgrcv
<1>2. Espera(c) /\ c \in Activos
  BY <1>1 DEF Espera, Activos, Finales
<1>3. id = clave[B]
  BY <1>1, Hechos DEF InvServicio, CanalesDeClientes, CanalesDe
<1>4. EsSecuencia(q) /\ EsSecuencia(Tail(q))
  BY <1>1, EsCola DEF InvServicio
<1>5. /\ ColasDeMensajes' /\ Len(cola') = Len(cola) /\ cola'[id] = Tail(q)
      /\ \A i \in viva : i # id => cola'[i] = cola[i]
  <2> DEFINE y == Tail(q)
  <2>1. cola' = [cola EXCEPT ![id] = y] /\ EsSecuencia(y)
    BY <1>1, <1>4
  <2> HIDE DEF y, id
  <2>2. /\ ColasDeMensajes' /\ Len(cola') = Len(cola) /\ cola'[id] = y
        /\ \A i \in viva : i # id => cola'[i] = cola[i]
    BY <1>1, <2>1, UnaCola DEF InvServicio
  <2> QED
    BY <2>2 DEF y
<1>6. clave[A] # 0 => cola'[clave[A]] = cola[clave[A]]
  BY <1>3, <1>5, Hechos DEF InvServicio
<1>7. ASSUME Limpio
      PROVE  \E de, al \in Lugares(r) :
               /\ Va(c, de) /\ de # Fin(r) /\ m = Caracter(r, de) /\ Siguiente(r, de) \in Lugares(r)
               /\ EnCamino(r, cola'[clave[B]], Siguiente(r, de), al)
               /\ EnServicio => EnSesion(c) /\ Fase(c, al)
  <2>1. PICK de, al \in Lugares(r) :
          /\ Va(c, de)
          /\ EnCamino(r, cola[clave[B]], de, al)
          /\ EnServicio /\ EnSesion(c) => Fase(c, al)
    BY <1>2, <1>7 DEF InvServicio, RespuestasEnCamino
  <2>2. r \in Resultados
    BY Pedidos DEF InvServicio
  <2>3. PICK C : q \in Seq(C)
    BY <1>4 DEF EsSecuencia
  <2>4. EnCamino(r, q, de, al)
    BY <1>3, <2>1
  <2>5. EnServicio => EnSesion(c)
    <3> SUFFICES ASSUME EnServicio, ~EnSesion(c) PROVE FALSE
      OBVIOUS
    <3>1. \A d \in Clientes : ~EnSesion(d)
      BY <1>2, Unico DEF EnSesion
    <3>2. cola[clave[B]] = <<>>
      BY <1>7, <3>1 DEF InvServicio, MotorOcioso
    <3> QED
      BY <1>1, <1>3, <3>2
  <2> HIDE DEF r, q
  <2>6. de # Fin(r) /\ m = Caracter(r, de) /\ EnCamino(r, Tail(q), Siguiente(r, de), al)
    BY <1>1, <2>3, <2>4, CaminoMenos
  <2>7. Siguiente(r, de) \in Lugares(r)
    BY <2>1, <2>2, <2>6, SiguienteEsLugar
  <2>8. cola'[clave[B]] = Tail(q)
    BY <1>3, <1>5
  <2> QED
    BY <2>1, <2>5, <2>6, <2>7, <2>8
<1> QED
  BY <1>2, <1>5, <1>6, <1>7

(* What the client then has in front of it is kept by the engine.          *)
LEMMA MismaFase ==
  ASSUME NEW c \in Clientes, UNCHANGED <<clave, viva, motor, pedido, canal, busqueda>>,
         cola'[clave[CGItoSearch]] = cola[clave[CGItoSearch]], NEW al, Fase(c, al)
  PROVE  Fase(c, al)'
<1>1. Camino(c)' = Camino(c) /\ RespuestaDe(c)' = RespuestaDe(c) /\ Pide(c)' = Pide(c)
  BY DEF Camino, RespuestaDe, Pide
<1>2. UNCHANGED <<pcMotor, temp, isOk, documentos, pedido>>
  BY DEF motor
<1> QED
  BY <1>1, <1>2 DEF Fase

(* The code of the reply is received.                                      *)
LEMMA ServicioRecibirCodigo ==
  ASSUME InvServicio, InvCanales', NEW c \in Clientes, RecibirCodigo(c)
  PROVE  InvServicio'
<1>1. /\ pc[c] = "enviar" /\ busqueda[c] = <<>> /\ pc' = [pc EXCEPT ![c] = "recibir"]
      /\ UNCHANGED <<clave, viva, motor, pedido, canal, busqueda, currentDoc, docs>>
  BY DEF RecibirCodigo
<1>2. PICK m : Msgrcv(canal[c][SearchToCGI], m) /\ isError' = [isError EXCEPT ![c] = (m # "1")]
  BY DEF RecibirCodigo
<1> DEFINE r == RespuestaDe(c)
<1>3. /\ Espera(c) /\ c \in Activos /\ ColasDeMensajes' /\ Len(cola') = Len(cola)
      /\ clave[CGItoSearch] # 0 => cola'[clave[CGItoSearch]] = cola[clave[CGItoSearch]]
      /\ Limpio => \E de, al \in Lugares(r) :
           /\ Va(c, de) /\ m = Caracter(r, de) /\ Siguiente(r, de) \in Lugares(r)
           /\ EnCamino(r, cola'[clave[SearchToCGI]], Siguiente(r, de), al)
           /\ EnServicio => EnSesion(c) /\ Fase(c, al)
  BY <1>1, <1>2, Recibido
<1>4. /\ TiposDelServicio /\ pc \in [Clientes -> {"inicio", "abrir2", "enviar", "recibir"} \cup Finales]
      /\ isError \in [Clientes -> BOOLEAN]
  BY DEF InvServicio, TiposDelServicio
<1>5. (m # "1") \in BOOLEAN
  OBVIOUS
<1>6. /\ pc' \in [Clientes -> {"inicio", "abrir2", "enviar", "recibir"} \cup Finales] /\ pc'[c] = "recibir"
      /\ isError' \in [Clientes -> BOOLEAN] /\ isError'[c] = (m # "1")
  BY <1>1, <1>2, <1>4, <1>5
<1>7. TiposDelServicio'
  BY <1>1, <1>4, <1>6 DEF TiposDelServicio
<1>8. SoloCambia(c)
  BY <1>1, <1>2, <1>3, <1>4 DEF SoloCambia
<1>9. CanalesDe(c)'
  BY <1>1, <1>3 DEF InvServicio, CanalesDeClientes, CanalesDe
<1>10. PasosDe(c)'
  BY <1>1, <1>6 DEF InvServicio, Pasos, PasosDe
<1>11. (Limpio' <=> Limpio) /\ Espera(c)' /\ (EnSesion(c)' <=> EnSesion(c))
  BY <1>1, <1>3, <1>6, <1>8, SigueLimpio DEF Espera, EnSesion
<1>12. pcMotor = "recrear2" => cola'[clave[CGItoSearch]] = cola[clave[CGItoSearch]]
  BY <1>3 DEF InvServicio, InvCanales, ArranqueEnOrden, Tiene
<1>13. ASSUME Limpio
       PROVE  /\ EnServicio => EnSesion(c)
              /\ \E de, al \in Lugares(r) :
                   /\ Va(c, de)' /\ EnCamino(r, cola'[clave[SearchToCGI]], de, al)
                   /\ EnServicio => Fase(c, al)'
  <2>1. PICK de, al \in Lugares(r) :
           /\ Va(c, de) /\ m = Caracter(r, de) /\ Siguiente(r, de) \in Lugares(r)
           /\ EnCamino(r, cola'[clave[SearchToCGI]], Siguiente(r, de), al)
           /\ EnServicio => EnSesion(c) /\ Fase(c, al)
    BY <1>3, <1>13
  <2>2. r \in Resultados
    BY <1>4, Pedidos
  <2>3. de = Comienzo /\ docs[c] = <<>> /\ currentDoc[c] = <<>>
    BY <1>1, <2>1 DEF Va, InvServicio, Pasos, PasosDe
  <2>4. (m # "1") = ~r.isOk /\ Leido(r, <<>>, <<>>, Siguiente(r, de))
    BY <2>1, <2>2, <2>3, QuedaTodo, LeidoNada, Documentos
  <2>5. PICK p \in Lugares(r) : p = Siguiente(r, de)
    BY <2>1
  <2>6. RespuestaDe(c)' = r
    BY <1>1 DEF RespuestaDe
  <2>7. Va(c, p)'
    BY <1>1, <1>6, <2>3, <2>4, <2>5, <2>6 DEF Va
  <2>8. EnServicio => Fase(c, al)'
    <3>1. EnServicio => cola'[clave[CGItoSearch]] = cola[clave[CGItoSearch]]
      BY <1>3 DEF InvServicio, InvCanales, ArranqueEnOrden, Tiene
    <3> QED
      BY <1>1, <2>1, <3>1, MismaFase
  <2> QED
    BY <2>1, <2>5, <2>7, <2>8
<1>14. RespuestasEnCamino' /\ NadieEspera' /\ MotorOcioso'
  BY <1>3, <1>8, <1>11, <1>13, SigueEsperando
<1> QED
  BY <1>3, <1>7, <1>8, <1>9, <1>10, <1>12, <1>14, Llano

(* When a client has the '\0' that ends the reply it has all of it, and    *)
(* nothing of the request or of the reply is left anywhere.                *)
LEMMA RespuestaCompleta ==
  ASSUME InvServicio, Limpio, NEW c \in Clientes, pc[c] = "recibir", currentDoc[c] = <<>>,
         Msgrcv(canal[c][SearchToCGI], Nul)
  PROVE  /\ docs[c] = RespuestaDe(c).docs /\ isError[c] = ~RespuestaDe(c).isOk
         /\ cola'[clave[SearchToCGI]] = <<>>
         /\ EnServicio => pcMotor = "escuchar" /\ temp = <<>> /\ cola[clave[CGItoSearch]] = <<>>
<1> DEFINE r == RespuestaDe(c)
           q == cola'[clave[SearchToCGI]]
<1>1. PICK de, al \in Lugares(r) :
         /\ Va(c, de) /\ de # Fin(r) /\ Nul = Caracter(r, de)
         /\ EnCamino(r, q, Siguiente(r, de), al)
         /\ EnServicio => EnSesion(c) /\ Fase(c, al)
  BY Recibido
<1>2. r \in Resultados
  BY Pedidos DEF InvServicio
<1>3. isError[c] = ~r.isOk /\ Leido(r, docs[c], <<>>, de)
  BY <1>1 DEF Va
<1>4. docs[c] = r.docs /\ Siguiente(r, de) = Fin(r)
  BY <1>1, <1>2, <1>3, LeidoTodo
<1>5. EsSecuencia(q)
  <2>1. ColasDeMensajes' /\ Len(cola') = Len(cola) /\ Espera(c)
    BY Recibido
  <2>2. clave[SearchToCGI] \in 1..Len(cola)
    BY <2>1, Hechos DEF InvServicio, CanalesDeClientes, CanalesDe, Espera
  <2> QED
    BY <2>1, <2>2 DEF ColasDeMensajes
<1>6. q = <<>> /\ al = Fin(r)
  <2>1. PICK C : q \in Seq(C)
    BY <1>5 DEF EsSecuencia
  <2> HIDE DEF q, r
  <2> QED
    BY <1>1, <1>4, <2>1, CaminoAcabado
<1>7. ASSUME EnServicio
      PROVE  pcMotor = "escuchar" /\ temp = <<>> /\ cola[clave[CGItoSearch]] = <<>>
  <2>1. Fin(r) # Comienzo
    BY <1>2, QuedaTodo
  <2>2. ~(Queda(r, documentos, al))
    <3>1. Len(r.docs) \in Nat
      BY <1>2, Documentos
    <3> QED
      BY <1>6, <3>1 DEF Queda, Fin
  <2>3. pcMotor = "escuchar" /\ temp = <<>> /\ Camino(c) = <<>>
    BY <1>1, <1>6, <1>7, <2>1, <2>2 DEF Fase
  <2> QED
    BY <1>7, <2>3, EnFrente
<1> QED
  BY <1>3, <1>4, <1>6, <1>7

(* A character of a document, or the '\0' after one.                       *)
LEMMA ServicioRecibirMas ==
  ASSUME InvServicio, InvCanales', NEW c \in Clientes, Recibir(c), pc'[c] = "recibir"
  PROVE  InvServicio'
<1>1. /\ pc[c] = "recibir"
      /\ UNCHANGED <<clave, viva, motor, pedido, canal, busqueda, isError>>
  BY DEF Recibir
<1>2. /\ TiposDelServicio /\ pc \in [Clientes -> {"inicio", "abrir2", "enviar", "recibir"} \cup Finales]
      /\ currentDoc = [d \in Clientes |-> currentDoc[d]] /\ docs = [d \in Clientes |-> docs[d]]
  BY DEF InvServicio, TiposDelServicio
<1>3. PICK m :
        /\ Msgrcv(canal[c][SearchToCGI], m)
        /\ \/ m # Nul /\ currentDoc' = [currentDoc EXCEPT ![c] = Append(currentDoc[c], m)] /\ UNCHANGED docs
           \/ /\ m = Nul /\ currentDoc[c] # <<>>
              /\ docs' = [docs EXCEPT ![c] = Append(docs[c], currentDoc[c])]
              /\ currentDoc' = [currentDoc EXCEPT ![c] = <<>>]
        /\ UNCHANGED pc
  BY <1>1, <1>2 DEF Recibir, Finales
<1> DEFINE r == RespuestaDe(c)
<1>4. /\ Espera(c) /\ c \in Activos /\ ColasDeMensajes' /\ Len(cola') = Len(cola)
      /\ clave[CGItoSearch] # 0 => cola'[clave[CGItoSearch]] = cola[clave[CGItoSearch]]
      /\ Limpio => \E de, al \in Lugares(r) :
           /\ Va(c, de) /\ m = Caracter(r, de) /\ Siguiente(r, de) \in Lugares(r)
           /\ EnCamino(r, cola'[clave[SearchToCGI]], Siguiente(r, de), al)
           /\ EnServicio => EnSesion(c) /\ Fase(c, al)
  BY <1>1, <1>3, Recibido
<1>5. /\ currentDoc' = [d \in Clientes |-> currentDoc'[d]] /\ docs' = [d \in Clientes |-> docs'[d]]
      /\ \A d \in Clientes \ {c} : currentDoc'[d] = currentDoc[d] /\ docs'[d] = docs[d]
      /\ \/ m # Nul /\ currentDoc'[c] = Append(currentDoc[c], m) /\ docs'[c] = docs[c]
         \/ m = Nul /\ currentDoc[c] # <<>> /\ docs'[c] = Append(docs[c], currentDoc[c]) /\ currentDoc'[c] = <<>>
  BY <1>2, <1>3
<1>6. TiposDelServicio'
  BY <1>1, <1>2, <1>3, <1>5 DEF TiposDelServicio
<1>7. SoloCambia(c)
  BY <1>1, <1>3, <1>4, <1>5 DEF SoloCambia
<1>8. CanalesDe(c)'
  BY <1>1, <1>4 DEF InvServicio, CanalesDeClientes, CanalesDe
<1>9. PasosDe(c)'
  BY <1>1, <1>3 DEF InvServicio, Pasos, PasosDe
<1>10. (Limpio' <=> Limpio) /\ Espera(c)' /\ (EnSesion(c)' <=> EnSesion(c))
  BY <1>1, <1>3, <1>4, <1>7, SigueLimpio DEF Espera, EnSesion
<1>11. pcMotor = "recrear2" => cola'[clave[CGItoSearch]] = cola[clave[CGItoSearch]]
  BY <1>4 DEF InvServicio, InvCanales, ArranqueEnOrden, Tiene
<1>12. ASSUME Limpio
       PROVE  /\ EnServicio => EnSesion(c)
              /\ \E de, al \in Lugares(r) :
                   /\ Va(c, de)' /\ EnCamino(r, cola'[clave[SearchToCGI]], de, al)
                   /\ EnServicio => Fase(c, al)'
  <2>1. PICK de, al \in Lugares(r) :
           /\ Va(c, de) /\ m = Caracter(r, de) /\ Siguiente(r, de) \in Lugares(r)
           /\ EnCamino(r, cola'[clave[SearchToCGI]], Siguiente(r, de), al)
           /\ EnServicio => EnSesion(c) /\ Fase(c, al)
    BY <1>4, <1>12
  <2>2. r \in Resultados
    BY <1>2, Pedidos
  <2>3. isError[c] = ~r.isOk /\ Leido(r, docs[c], currentDoc[c], de)
    BY <1>1, <2>1 DEF Va
  <2> HIDE DEF r
  <2>4. Leido(r, docs'[c], currentDoc'[c], Siguiente(r, de))
    BY <1>5, <2>1, <2>2, <2>3, LeidoLetra, LeidoDocumento
  <2>5. PICK p \in Lugares(r) : p = Siguiente(r, de)
    BY <2>1
  <2>6. RespuestaDe(c)' = r
    BY <1>1 DEF RespuestaDe, r
  <2>7. Va(c, p)'
    BY <1>1, <1>3, <2>3, <2>4, <2>5, <2>6 DEF Va
  <2>8. EnServicio => Fase(c, al)'
    <3>1. EnServicio => cola'[clave[CGItoSearch]] = cola[clave[CGItoSearch]]
      BY <1>4 DEF InvServicio, InvCanales, ArranqueEnOrden, Tiene
    <3> QED
      BY <1>1, <2>1, <3>1, MismaFase
  <2> QED
    BY <2>1, <2>5, <2>7, <2>8
<1>13. RespuestasEnCamino' /\ NadieEspera' /\ MotorOcioso'
  BY <1>4, <1>7, <1>10, <1>12, SigueEsperando
<1> QED
  BY <1>4, <1>6, <1>7, <1>8, <1>9, <1>11, <1>13, Llano

(* The '\0' that ends the reply.                                           *)
LEMMA ServicioRecibirTodo ==
  ASSUME InvServicio, InvCanales', NEW c \in Clientes, Recibir(c), pc'[c] # "recibir"
  PROVE  InvServicio'
<1>1. /\ pc[c] = "recibir" /\ Msgrcv(canal[c][SearchToCGI], Nul) /\ currentDoc[c] = <<>>
      /\ pc' = [pc EXCEPT ![c] = "listo"]
      /\ UNCHANGED <<clave, viva, motor, pedido, canal, busqueda, isError, currentDoc, docs>>
  BY DEF Recibir
<1>2. TiposDelServicio /\ pc \in [Clientes -> {"inicio", "abrir2", "enviar", "recibir"} \cup Finales]
  BY DEF InvServicio, TiposDelServicio
<1>3. pc' \in [Clientes -> {"inicio", "abrir2", "enviar", "recibir"} \cup Finales] /\ pc'[c] = "listo"
  BY <1>1, <1>2 DEF Finales
<1>4. /\ Espera(c) /\ c \in Activos /\ ColasDeMensajes' /\ Len(cola') = Len(cola)
      /\ clave[CGItoSearch] # 0 => cola'[clave[CGItoSearch]] = cola[clave[CGItoSearch]]
  BY <1>1, Recibido
<1>5. TiposDelServicio'
  BY <1>1, <1>2, <1>3 DEF TiposDelServicio
<1>6. SoloCambia(c)
  BY <1>1, <1>2, <1>4 DEF SoloCambia
<1>7. CanalesDe(c)'
  BY <1>1, <1>4 DEF InvServicio, CanalesDeClientes, CanalesDe
<1>8. PasosDe(c)'
  BY <1>3 DEF PasosDe
<1>9. (Limpio' <=> Limpio) /\ ~Espera(c)'
  BY <1>1, <1>3, <1>6, SigueLimpio DEF Espera
<1>10. pcMotor = "recrear2" => cola'[clave[CGItoSearch]] = cola[clave[CGItoSearch]]
  BY <1>4 DEF InvServicio, InvCanales, ArranqueEnOrden, Tiene
<1>11. \A d \in Clientes : ~Espera(d)'
  BY <1>4, <1>6, <1>9, LosDemas
<1>12. RespuestasEnCamino'
  BY <1>11 DEF RespuestasEnCamino
<1>13. Limpio => /\ cola'[clave[SearchToCGI]] = <<>>
                 /\ EnServicio => pcMotor = "escuchar" /\ temp = <<>> /\ cola[clave[CGItoSearch]] = <<>>
  BY <1>1, RespuestaCompleta
<1>14. EnServicio => cola'[clave[CGItoSearch]] = cola[clave[CGItoSearch]]
  BY <1>4 DEF InvServicio, InvCanales, ArranqueEnOrden, Tiene
<1>15. NadieEspera' /\ MotorOcioso'
  BY <1>4, <1>6, <1>9, <1>13, <1>14, LosDemas DEF NadieEspera, MotorOcioso
<1> QED
  BY <1>4, <1>5, <1>6, <1>7, <1>8, <1>10, <1>12, <1>15, Llano

(* The queue was removed, or the process is killed.                        *)
LEMMA ServicioTermina ==
  ASSUME InvServicio, InvCanales', NEW c \in Clientes, RecibirFalla(c) \/ Abortar(c)
  PROVE  InvServicio'
<1>1. /\ c \in Activos
      /\ UNCHANGED <<clave, cola, viva, motor, pedido, canal, busqueda, isError, currentDoc, docs>>
  BY DEF RecibirFalla, Abortar, Activos, Finales, colas
<1>2. TiposDelServicio /\ pc \in [Clientes -> {"inicio", "abrir2", "enviar", "recibir"} \cup Finales]
  BY DEF InvServicio, TiposDelServicio
<1>3. \/ pc' = [pc EXCEPT ![c] = "exit1"] /\ canal[c][SearchToCGI] \notin viva
      \/ pc' = [pc EXCEPT ![c] = "abortado"]
  BY DEF RecibirFalla, Abortar
<1>4. /\ pc' \in [Clientes -> {"inicio", "abrir2", "enviar", "recibir"} \cup Finales]
      /\ pc'[c] \in {"exit1", "abortado"} /\ \A d \in Clientes \ {c} : pc'[d] = pc[d]
      /\ pc'[c] = "exit1" => canal[c][SearchToCGI] \notin viva
  BY <1>2, <1>3 DEF Finales
<1>5. TiposDelServicio' /\ ColasDeMensajes'
  BY <1>1, <1>2, <1>4 DEF TiposDelServicio, InvServicio, ColasDeMensajes
<1>6. SoloCambia(c)
  BY <1>1, <1>4 DEF SoloCambia
<1>7. CanalesDe(c)'
  BY <1>1 DEF InvServicio, CanalesDeClientes, CanalesDe
<1>8. PasosDe(c)'
  BY <1>4 DEF PasosDe
<1>9. ~Espera(c)'
  BY <1>4 DEF Espera
<1>10. Limpio' => Limpio
  <2> SUFFICES ASSUME Limpio', NEW d \in Clientes, pc[d] = "abortado"
               PROVE  canal[d][SearchToCGI] # clave[SearchToCGI]
    BY DEF Limpio
  <2>1. d # c
    BY <1>1 DEF Activos, Finales
  <2> QED
    BY <1>1, <1>4, <2>1 DEF Limpio
<1>11. CASE ~Espera(c)
  <2>1. RespuestasEnCamino' /\ NadieEspera' /\ MotorOcioso'
    BY <1>1, <1>6, <1>9, <1>10, <1>11, SinEspera
  <2> QED
    BY <1>1, <1>5, <1>6, <1>7, <1>8, <2>1, Llano
<1>12. CASE Espera(c)
  <2>1. pc'[c] = "abortado" /\ canal'[c][SearchToCGI] = clave'[SearchToCGI]
    BY <1>1, <1>4, <1>12, Hechos DEF Espera, InvServicio, CanalesDeClientes, CanalesDe
  <2>2. ~Limpio'
    BY <2>1 DEF Limpio
  <2>3. RespuestasEnCamino' /\ NadieEspera' /\ MotorOcioso'
    BY <2>2 DEF RespuestasEnCamino, NadieEspera, MotorOcioso
  <2> QED
    BY <1>1, <1>5, <1>6, <1>7, <1>8, <2>3, Llano
<1> QED
  BY <1>11, <1>12
-----------------------------------------------------------------------------
(* At the start there is no request and no queue.                          *)
LEMMA ServicioInicial == Init => InvServicio
<1> SUFFICES ASSUME Init PROVE InvServicio
  OBVIOUS
<1>1. InvCanales
  BY InvCanalesInicial
<1>2. \A c \in Clientes : pc[c] = "inicio" /\ canal[c] = Cerrados /\ docs[c] = <<>> /\ currentDoc[c] = <<>>
  BY DEF Init
<1>3. TiposDelServicio
  <2>1. <<>> \in Seq(Caracteres) /\ Cerrados \in [Canales -> Nat]
    BY DEF Cerrados
  <2> QED
    BY <2>1 DEF Init, TiposDelServicio
<1>4. ColasDeMensajes /\ UnoALaVez
  BY <1>2 DEF Init, ColasDeMensajes, UnoALaVez, Activos
<1>5. CanalesDeClientes
  BY <1>2 DEF Init, CanalesDeClientes, CanalesDe, Cerrados, Canales
<1>6. Pasos /\ Reposo
  BY <1>2 DEF Init, Pasos, PasosDe, Reposo
<1>7. RespuestasEnCamino
  BY <1>2 DEF RespuestasEnCamino, Espera
<1>8. clave[SearchToCGI] = 0 /\ ~EnServicio
  BY DEF Init, Cerrados, Canales, EnServicio
<1> QED
  BY <1>1, <1>3, <1>4, <1>5, <1>6, <1>7, <1>8 DEF InvServicio, NadieEspera, MotorOcioso

(* Every step of the engine and of the only client keeps it.               *)
LEMMA ServicioConserva ==
  ASSUME MaxActivos = 1, InvServicio, [Next]_vars
  PROVE  InvServicio'
<1>1. InvCanales'
  <2>1. CASE UNCHANGED vars
    BY <2>1, Quietos DEF InvServicio, InvCanales, ColasNumeradas, vars, colas, motor
  <2> QED
    BY <2>1, ArrancarConserva, PasoMotorConserva, PasoClienteConserva, CaerConserva DEF Next, InvServicio
<1>2. CASE Arrancar \/ Caer
  BY <1>1, <1>2, ServicioArrancar, ServicioCaer
<1>3. CASE PasoMotor
  BY <1>1, <1>3, ServicioLeerConsulta, ServicioLeerMetodo, ServicioEnviarCodigo,
     ServicioEnviarDocumento, ServicioEnviarFin DEF PasoMotor
<1>4. CASE \E c \in Clientes : AbrirPedido(c) \/ PasoCliente(c) \/ Abortar(c)
  <2>1. PICK c \in Clientes : AbrirPedido(c) \/ PasoCliente(c) \/ Abortar(c)
    BY <1>4
  <2>2. CASE AbrirPedido(c)
    BY <1>1, <2>2, ServicioAbrirPedido
  <2>3. CASE AbrirRespuesta(c) \/ Enviar(c) \/ RecibirCodigo(c)
    BY <1>1, <2>3, ServicioAbrirRespuesta, ServicioEnviar, ServicioRecibirCodigo
  <2>4. CASE Recibir(c)
    BY <1>1, <2>4, ServicioRecibirMas, ServicioRecibirTodo
  <2>5. CASE RecibirFalla(c) \/ Abortar(c)
    BY <1>1, <2>5, ServicioTermina
  <2> QED
    BY <2>1, <2>2, <2>3, <2>4, <2>5 DEF PasoCliente
<1>5. CASE UNCHANGED vars
  <2>1. UNCHANGED <<clave, cola, viva, cliente>> /\ pcMotor' = pcMotor /\ temp' = temp
        /\ UNCHANGED <<pc, pedido, canal, busqueda, isError, currentDoc, docs, isOk, documentos>>
    BY <1>5 DEF vars, colas, motor, cliente
  <2>2. ColasDeMensajes' /\ CanalesDeClientes' /\ Reposo' /\ (EnServicio' <=> EnServicio)
    BY <2>1 DEF InvServicio, ColasDeMensajes, CanalesDeClientes, CanalesDe, Reposo, EnServicio
  <2>3. TiposDelServicio' /\ UnoALaVez' /\ Pasos' /\ (Limpio' <=> Limpio)
    BY <2>1, MismosClientes DEF InvServicio
  <2>4. /\ \A c : (Espera(c)' <=> Espera(c)) /\ (EnSesion(c)' <=> EnSesion(c)) /\ RespuestaDe(c)' = RespuestaDe(c)
        /\ \A c, p : Va(c, p)' <=> Va(c, p)
        /\ \A c, p : Fase(c, p)' <=> Fase(c, p)
    <3>1. \A c : RespuestaDe(c)' = RespuestaDe(c) /\ Pide(c)' = Pide(c) /\ Camino(c)' = Camino(c)
      BY <2>1, MismosClientes DEF Camino
    <3>2. \A c, p : Fase(c, p)' <=> Fase(c, p)
      BY <2>1, <3>1 DEF Fase
    <3> QED
      BY <2>1, <3>1, <3>2, MismosClientes
  <2>5. NadieEspera' /\ MotorOcioso' /\ RespuestasEnCamino'
    BY <2>1, <2>2, <2>3, <2>4 DEF InvServicio, NadieEspera, MotorOcioso, RespuestasEnCamino
  <2> QED
    BY <1>1, <2>2, <2>3, <2>5 DEF InvServicio
<1> QED
  BY <1>2, <1>3, <1>4, <1>5 DEF Next
-----------------------------------------------------------------------------
(* The steps that the service does not see: those of the engine,           *)
LEMMA NoSeVe ==
  ASSUME UNCHANGED cliente
  PROVE  UNCHANGED Serv!vars
<1>1. UNCHANGED <<pc, pedido, canal, isError, docs>>
  BY DEF cliente
<1> QED
  BY <1>1 DEF Serv!vars, estadoVisible, respuestaVisible, expuestosVisibles, Expuesto

(* and those of a request that goes on with the queues it has.             *)
LEMMA NoSeVeAunque ==
  ASSUME NEW c \in Clientes, SoloCambia(c), canal' = canal,
         pc[c] \in {"abrir2", "enviar", "recibir"}, pc'[c] \in {"abrir2", "enviar", "recibir"}
  PROVE  UNCHANGED Serv!vars
<1>1. \A d \in Clientes \ {c} : pc'[d] = pc[d] /\ isError'[d] = isError[d] /\ docs'[d] = docs[d]
  BY DEF SoloCambia
<1>2. estadoVisible' = estadoVisible /\ respuestaVisible' = respuestaVisible
  BY <1>1 DEF estadoVisible, respuestaVisible
<1>3. \A d \in Clientes : pc'[d] = "abortado" <=> pc[d] = "abortado"
  BY <1>1
<1>4. expuestosVisibles' = expuestosVisibles
  BY <1>3 DEF expuestosVisibles, Expuesto
<1> QED
  BY <1>2, <1>4 DEF Serv!vars, SoloCambia

(* What changes for the service when a client changes state.               *)
LEMMA SeVe ==
  ASSUME NEW c \in Clientes, SoloCambia(c)
  PROVE  /\ estadoVisible' = [estadoVisible EXCEPT ![c] = estadoVisible'[c]]
         /\ respuestaVisible' = [respuestaVisible EXCEPT ![c] = respuestaVisible'[c]]
         /\ pedido' = pedido
<1>1. \A d \in Clientes \ {c} : pc'[d] = pc[d] /\ isError'[d] = isError[d] /\ docs'[d] = docs[d]
  BY DEF SoloCambia
<1>2. estadoVisible' = [estadoVisible EXCEPT ![c] = estadoVisible'[c]]
  BY <1>1 DEF estadoVisible
<1>3. respuestaVisible' = [respuestaVisible EXCEPT ![c] = respuestaVisible'[c]]
  BY <1>1 DEF respuestaVisible
<1> QED
  BY <1>2, <1>3 DEF SoloCambia

(* The same when it has no answer yet, or fails.                           *)
LEMMA SinRespuesta ==
  ASSUME NEW c \in Clientes, SoloCambia(c), pc[c] # "listo", pc'[c] # "listo"
  PROVE  respuestaVisible' = respuestaVisible
<1>1. \A d \in Clientes \ {c} : pc'[d] = pc[d] /\ isError'[d] = isError[d] /\ docs'[d] = docs[d]
  BY DEF SoloCambia
<1> QED
  BY <1>1 DEF respuestaVisible

(* Who shares a queue with a killed request: another one does as before,   *)
(* and the one that opens a queue may, if there is one.                    *)
LEMMA Exposicion ==
  ASSUME TiposDelServicio, NEW c \in Clientes, SoloCambia(c), pc[c] # "abortado", pc'[c] # "abortado",
         \A k \in Canales : canal[c][k] = 0 \/ canal'[c][k] = canal[c][k]
  PROVE  /\ Serv!Exponerse(c)
         /\ canal'[c] = canal[c] => expuestosVisibles' = expuestosVisibles
<1>1. \A d \in Clientes \ {c} : pc'[d] = pc[d] /\ canal'[d] = canal[d]
  BY DEF SoloCambia
<1>2. \A d \in Clientes : pc'[d] = "abortado" <=> pc[d] = "abortado"
  BY <1>1
<1>3. \A d \in Clientes : pc[d] = "abortado" => canal'[d] = canal[d]
  BY <1>1
<1>4. \A d \in Clientes \ {c} : Expuesto(d)' <=> Expuesto(d)
  BY <1>1, <1>2, <1>3 DEF Expuesto
<1>5. Expuesto(c) => Expuesto(c)'
  BY <1>2, <1>3 DEF Expuesto
<1>6. canal'[c] = canal[c] => (Expuesto(c)' <=> Expuesto(c))
  BY <1>2, <1>3 DEF Expuesto
<1>7. Expuesto(c)' => Serv!Muertos # {}
  <2>1. \A d \in Clientes : pc[d] = "abortado" => estadoVisible[d] = "muerto"
    BY DEF estadoVisible
  <2> QED
    BY <1>2, <2>1 DEF Expuesto, Serv!Muertos
<1>8. Expuesto(c)' <=> Expuesto(c) => expuestosVisibles' = expuestosVisibles
  BY <1>4 DEF expuestosVisibles
<1>9. Expuesto(c)' => expuestosVisibles' = expuestosVisibles \cup {c}
  BY <1>4 DEF expuestosVisibles
<1> QED
  BY <1>5, <1>6, <1>7, <1>8, <1>9 DEF Serv!Exponerse

(* The first msgget of a request makes it, or it fails.                    *)
LEMMA AbrirPedidoEsPedir ==
  ASSUME InvServicio, NEW c \in Clientes, AbrirPedido(c)
  PROVE  Serv!Pedir(c) \/ Serv!Fallar(c)
<1>1. /\ pc[c] = "inicio" /\ canal' = [canal EXCEPT ![c][CGItoSearch] = clave[CGItoSearch]]
      /\ pc' = [pc EXCEPT ![c] = IF clave[CGItoSearch] = 0 THEN "exit1" ELSE "abrir2"]
      /\ busqueda' = [busqueda EXCEPT ![c] = Pide(c)]
      /\ UNCHANGED <<clave, cola, viva, motor, pedido, isError, currentDoc, docs>>
  BY DEF AbrirPedido, Abrir, colas, Pide
<1>2. /\ TiposDelServicio /\ pc \in [Clientes -> {"inicio", "abrir2", "enviar", "recibir"} \cup Finales]
      /\ canal \in [Clientes -> [Canales -> Nat]] /\ busqueda \in [Clientes -> Seq(Caracteres)]
  BY DEF InvServicio, TiposDelServicio
<1>3. /\ SoloCambia(c) /\ pc'[c] = IF clave[CGItoSearch] = 0 THEN "exit1" ELSE "abrir2"
      /\ canal'[c] = [canal[c] EXCEPT ![CGItoSearch] = clave[CGItoSearch]]
  BY <1>1, <1>2 DEF SoloCambia
<1>4. canal[c] = Cerrados /\ \A k \in Canales : canal[c][k] = 0
  BY <1>1 DEF InvServicio, Pasos, PasosDe, Cerrados
<1>5. Serv!Exponerse(c) /\ (canal'[c] = canal[c] => expuestosVisibles' = expuestosVisibles)
  BY <1>1, <1>2, <1>3, <1>4, Exposicion
<1>6. estadoVisible[c] = "inicio" /\ respuestaVisible' = respuestaVisible /\ pedido' = pedido
  BY <1>1, <1>3, SinRespuesta DEF estadoVisible
<1>7. CASE clave[CGItoSearch] = 0
  <2>1. canal'[c] = canal[c]
    BY <1>2, <1>3, <1>4, <1>7
  <2>2. estadoVisible'[c] = "fallido"
    BY <1>3, <1>7 DEF estadoVisible
  <2>3. estadoVisible' = [estadoVisible EXCEPT ![c] = "fallido"]
    BY <1>3, <2>2, SeVe
  <2> QED
    BY <1>5, <1>6, <2>1, <2>3 DEF Serv!Fallar
<1>8. CASE clave[CGItoSearch] # 0
  <2>1. estadoVisible'[c] = "pendiente"
    BY <1>3, <1>8 DEF estadoVisible
  <2>2. estadoVisible' = [estadoVisible EXCEPT ![c] = "pendiente"]
    BY <1>3, <2>1, SeVe
  <2> QED
    BY <1>5, <1>6, <2>2 DEF Serv!Pedir
<1> QED
  BY <1>7, <1>8

(* The second one leaves it waiting, or it fails.                          *)
LEMMA AbrirRespuestaEsEsperar ==
  ASSUME InvServicio, NEW c \in Clientes, AbrirRespuesta(c)
  PROVE  Serv!Esperar(c) \/ Serv!Fallar(c)
<1>1. /\ pc[c] = "abrir2" /\ canal' = [canal EXCEPT ![c][SearchToCGI] = clave[SearchToCGI]]
      /\ pc' = [pc EXCEPT ![c] = IF clave[SearchToCGI] = 0 THEN "exit1" ELSE "enviar"]
      /\ UNCHANGED <<clave, cola, viva, motor, pedido, busqueda, isError, currentDoc, docs>>
  BY DEF AbrirRespuesta, Abrir, colas
<1>2. /\ TiposDelServicio /\ pc \in [Clientes -> {"inicio", "abrir2", "enviar", "recibir"} \cup Finales]
      /\ canal \in [Clientes -> [Canales -> Nat]]
  BY DEF InvServicio, TiposDelServicio
<1>3. /\ SoloCambia(c) /\ pc'[c] = IF clave[SearchToCGI] = 0 THEN "exit1" ELSE "enviar"
      /\ canal'[c] = [canal[c] EXCEPT ![SearchToCGI] = clave[SearchToCGI]]
  BY <1>1, <1>2 DEF SoloCambia
<1>4. SearchToCGI \in Canales /\ canal[c][SearchToCGI] = 0 /\ \A k \in Canales : canal[c][k] = 0 \/ canal'[c][k] = canal[c][k]
  BY <1>1, <1>2, <1>3 DEF InvServicio, Pasos, PasosDe, Canales
<1>5. Serv!Exponerse(c) /\ (canal'[c] = canal[c] => expuestosVisibles' = expuestosVisibles)
  BY <1>1, <1>2, <1>3, <1>4, Exposicion
<1>6. estadoVisible[c] = "pendiente" /\ respuestaVisible' = respuestaVisible /\ pedido' = pedido
  BY <1>1, <1>3, SinRespuesta DEF estadoVisible
<1>7. CASE clave[SearchToCGI] = 0
  <2>1. canal'[c] = canal[c]
    BY <1>2, <1>3, <1>4, <1>7
  <2>2. estadoVisible'[c] = "fallido"
    BY <1>3, <1>7 DEF estadoVisible
  <2>3. estadoVisible' = [estadoVisible EXCEPT ![c] = "fallido"]
    BY <1>3, <2>2, SeVe
  <2> QED
    BY <1>5, <1>6, <2>1, <2>3 DEF Serv!Fallar
<1>8. CASE clave[SearchToCGI] # 0
  <2>1. \A d \in Clientes \ {c} : pc'[d] = pc[d]
    BY <1>3 DEF SoloCambia
  <2>2. estadoVisible' = estadoVisible
    BY <1>1, <1>3, <1>8, <2>1 DEF estadoVisible
  <2> QED
    BY <1>5, <1>6, <2>2 DEF Serv!Esperar
<1> QED
  BY <1>7, <1>8

(* The end of the reply is the answer to its own request, unless it shares *)
(* a queue with a killed one.                                              *)
LEMMA RecibirEsResponder ==
  ASSUME InvServicio, NEW c \in Clientes, Recibir(c), pc'[c] # "recibir"
  PROVE  Serv!Responder(c)
<1>1. /\ pc[c] = "recibir" /\ Msgrcv(canal[c][SearchToCGI], Nul) /\ currentDoc[c] = <<>>
      /\ pc' = [pc EXCEPT ![c] = "listo"]
      /\ UNCHANGED <<clave, viva, motor, pedido, canal, busqueda, isError, currentDoc, docs>>
  BY DEF Recibir
<1>2. TiposDelServicio /\ pc \in [Clientes -> {"inicio", "abrir2", "enviar", "recibir"} \cup Finales]
  BY DEF InvServicio, TiposDelServicio
<1>3. Espera(c) /\ Len(cola') = Len(cola)
  BY <1>1, Recibido
<1>4. SoloCambia(c) /\ pc'[c] = "listo"
  BY <1>1, <1>2, <1>3 DEF SoloCambia, Finales
<1>5. estadoVisible[c] = "pendiente" /\ estadoVisible'[c] = "respondido"
  BY <1>1, <1>4 DEF estadoVisible
<1>6. estadoVisible' = [estadoVisible EXCEPT ![c] = "respondido"]
  BY <1>4, <1>5, SeVe
<1>7. expuestosVisibles' = expuestosVisibles /\ pedido' = pedido
  BY <1>1, <1>2, <1>4, Exposicion
<1>8. respuestaVisible' = [respuestaVisible EXCEPT ![c] = respuestaVisible'[c]]
  BY <1>4, SeVe
<1>9. ASSUME ~Expuesto(c)
      PROVE  respuestaVisible'[c] = Procesar(pedido[c].consulta, pedido[c].metodo = "1")
  <2>1. canal[c][SearchToCGI] = clave[SearchToCGI] /\ clave[SearchToCGI] # 0 /\ SearchToCGI \in Canales
    BY <1>3, Hechos DEF InvServicio, CanalesDeClientes, CanalesDe, Espera
  <2>2. Limpio
    BY <1>9, <2>1 DEF Limpio, Expuesto
  <2> DEFINE r == RespuestaDe(c)
  <2>3. docs[c] = r.docs /\ isError[c] = ~r.isOk /\ r \in Resultados
    BY <1>1, <1>2, <2>2, RespuestaCompleta, Pedidos
  <2>4. respuestaVisible'[c] = [isOk |-> ~isError[c], docs |-> docs[c]]
    BY <1>1, <1>4 DEF respuestaVisible
  <2>5. r.isOk \in BOOLEAN
    BY <2>3, Documentos
  <2> HIDE DEF r
  <2>6. (~isError[c]) = r.isOk
    BY <2>3, <2>5
  <2>7. r = [isOk |-> r.isOk, docs |-> r.docs]
    BY <2>3 DEF Resultados
  <2> QED
    BY <2>3, <2>4, <2>6, <2>7 DEF r, RespuestaDe
<1>10. Expuesto(c) <=> c \in expuestosVisibles
  BY DEF expuestosVisibles
<1> QED
  BY <1>5, <1>6, <1>7, <1>8, <1>9, <1>10 DEF Serv!Responder

(* A request whose queue was removed fails.                                *)
LEMMA RecibirFallaEsFallar ==
  ASSUME InvServicio, NEW c \in Clientes, RecibirFalla(c)
  PROVE  Serv!Fallar(c)
<1>1. /\ pc[c] \in {"enviar", "recibir"} /\ pc' = [pc EXCEPT ![c] = "exit1"]
      /\ UNCHANGED <<clave, cola, viva, motor, pedido, canal, busqueda, isError, currentDoc, docs>>
  BY DEF RecibirFalla, colas
<1>2. TiposDelServicio /\ pc \in [Clientes -> {"inicio", "abrir2", "enviar", "recibir"} \cup Finales]
  BY DEF InvServicio, TiposDelServicio
<1>3. SoloCambia(c) /\ pc'[c] = "exit1"
  BY <1>1, <1>2 DEF SoloCambia
<1>4. estadoVisible[c] = "pendiente" /\ estadoVisible'[c] = "fallido"
  BY <1>1, <1>3 DEF estadoVisible
<1>5. estadoVisible' = [estadoVisible EXCEPT ![c] = "fallido"]
  BY <1>3, <1>4, SeVe
<1>6. respuestaVisible' = respuestaVisible /\ pedido' = pedido
  BY <1>1, <1>3, SinRespuesta
<1>7. expuestosVisibles' = expuestosVisibles
  BY <1>1, <1>2, <1>3, Exposicion
<1> QED
  BY <1>4, <1>5, <1>6, <1>7 DEF Serv!Fallar

(* The kill of a request exposes whoever has its queue of replies.         *)
LEMMA AbortarEsMatar ==
  ASSUME InvServicio, NEW c \in Clientes, Abortar(c)
  PROVE  Serv!Matar(c)
<1>1. /\ pc[c] \in {"abrir2", "enviar", "recibir"} /\ pc' = [pc EXCEPT ![c] = "abortado"]
      /\ UNCHANGED <<clave, cola, viva, motor, pedido, canal, busqueda, isError, currentDoc, docs>>
  BY DEF Abortar, Activos, Finales, colas, InvServicio, TiposDelServicio
<1>2. TiposDelServicio /\ pc \in [Clientes -> {"inicio", "abrir2", "enviar", "recibir"} \cup Finales]
  BY DEF InvServicio, TiposDelServicio
<1>3. SoloCambia(c) /\ pc'[c] = "abortado" /\ \A d \in Clientes \ {c} : pc'[d] = pc[d]
  BY <1>1, <1>2 DEF SoloCambia
<1>4. estadoVisible[c] = "pendiente" /\ estadoVisible'[c] = "muerto"
  BY <1>1, <1>3 DEF estadoVisible
<1>5. estadoVisible' = [estadoVisible EXCEPT ![c] = "muerto"]
  BY <1>3, <1>4, SeVe
<1>6. respuestaVisible' = respuestaVisible /\ pedido' = pedido
  BY <1>1, <1>3, SinRespuesta
<1>7. \A d \in Clientes : Expuesto(d) => Expuesto(d)'
  BY <1>1, <1>3 DEF Expuesto
<1>8. Expuesto(c)'
  <2>1. canal[c][CGItoSearch] # 0 /\ CGItoSearch \in Canales
    BY <1>1 DEF InvServicio, Pasos, PasosDe, Canales
  <2> QED
    BY <1>1, <1>3, <2>1 DEF Expuesto
<1>9. expuestosVisibles \cup {c} \subseteq expuestosVisibles'
  BY <1>7, <1>8 DEF expuestosVisibles
<1> QED
  BY <1>4, <1>5, <1>6, <1>9 DEF Serv!Matar
-----------------------------------------------------------------------------
(* While requests come one at a time, the characters on their way are the  *)
(* ones of the request being served and of its reply, in their order, if   *)
(* no request was killed with the queue of replies there is.               *)
THEOREM UnaSesion ==
  ASSUME MaxActivos = 1
  PROVE  Spec => []InvServicio
<1>1. Init => InvServicio
  BY ServicioInicial
<1>2. InvServicio /\ [Next]_vars => InvServicio'
  BY ServicioConserva
<1> QED
  BY <1>1, <1>2, PTL DEF Spec

(* One request at a time, the two processes and their queues implement the *)
(* service: whoever has a reply has the one to its own query, whatever the *)
(* kills of the engine and its restarts, and only a request that shares a  *)
(* queue with a killed one may have another's (main of search_engine and   *)
(* thin_client).                                                           *)
THEOREM CanalesImplementaServicio ==
  ASSUME MaxActivos = 1
  PROVE  Spec => ImplementaServicio
<1>1. Init => Serv!Init
  <2> SUFFICES ASSUME Init PROVE Serv!Init
    OBVIOUS
  <2>1. \A c \in Clientes : pc[c] = "inicio"
    BY DEF Init
  <2>2. estadoVisible = [c \in Clientes |-> "inicio"] /\ respuestaVisible = [c \in Clientes |-> Sin]
    BY <2>1 DEF estadoVisible, respuestaVisible
  <2>3. expuestosVisibles = {}
    BY <2>1 DEF expuestosVisibles, Expuesto
  <2> QED
    BY <2>2, <2>3 DEF Serv!Init
<1>2. InvServicio /\ [Next]_vars => [Serv!Next]_(Serv!vars)
  <2> SUFFICES ASSUME InvServicio, [Next]_vars PROVE Serv!Next \/ UNCHANGED Serv!vars
    OBVIOUS
  <2>1. CASE Arrancar \/ PasoMotor \/ Caer \/ UNCHANGED vars
    <3>1. UNCHANGED cliente
      BY <2>1 DEF Arrancar, PasoMotor, LeerConsulta, LeerMetodo, EnviarCodigo, EnviarDocumento, EnviarFin, Caer, vars
    <3> QED
      BY <3>1, NoSeVe
  <2>2. CASE \E c \in Clientes : AbrirPedido(c) \/ PasoCliente(c) \/ Abortar(c)
    <3>1. PICK c \in Clientes : AbrirPedido(c) \/ PasoCliente(c) \/ Abortar(c)
      BY <2>2
    <3>2. CASE AbrirPedido(c)
      BY <3>2, AbrirPedidoEsPedir DEF Serv!Next
    <3>3. CASE AbrirRespuesta(c)
      BY <3>3, AbrirRespuestaEsEsperar DEF Serv!Next
    <3>4. CASE Enviar(c) \/ RecibirCodigo(c) \/ (Recibir(c) /\ pc'[c] = "recibir")
      <4>1. /\ pc \in [Clientes -> {"inicio", "abrir2", "enviar", "recibir"} \cup Finales] /\ TiposDelServicio
            /\ busqueda \in [Clientes -> Seq(Caracteres)] /\ isError \in [Clientes -> BOOLEAN]
            /\ currentDoc = [d \in Clientes |-> currentDoc[d]] /\ docs = [d \in Clientes |-> docs[d]]
        BY DEF InvServicio, TiposDelServicio
      <4>2. /\ pc[c] \in {"enviar", "recibir"} /\ pc'[c] \in {"enviar", "recibir"}
            /\ UNCHANGED <<clave, viva, motor, pedido, canal>>
            /\ \A d \in Clientes \ {c} : pc'[d] = pc[d]
        BY <3>4, <4>1 DEF Enviar, RecibirCodigo, Recibir, Finales
      <4>3. Len(cola') = Len(cola)
        <5>1. CASE Enviar(c)
          <6>1. \A id, m : Msgsnd(id, m) => Len(cola') = Len(cola)
            <7> SUFFICES ASSUME NEW id, NEW m, Msgsnd(id, m) PROVE Len(cola') = Len(cola)
              OBVIOUS
            <7>1. CASE id \in viva
              BY <7>1, Cambiar DEF Msgsnd, InvServicio, InvCanales, ColasNumeradas
            <7>2. CASE id \notin viva
              BY <7>2 DEF Msgsnd
            <7> QED
              BY <7>1, <7>2
          <6> QED
            BY <5>1, <6>1 DEF Enviar
        <5>2. CASE RecibirCodigo(c) \/ Recibir(c)
          BY <4>2, <5>2, Recibido DEF RecibirCodigo, Recibir
        <5> QED
          BY <3>4, <5>1, <5>2
      <4>4. \A d \in Clientes \ {c} : /\ busqueda'[d] = busqueda[d] /\ isError'[d] = isError[d]
                                      /\ currentDoc'[d] = currentDoc[d] /\ docs'[d] = docs[d]
        BY <3>4, <4>1 DEF Enviar, RecibirCodigo, Recibir
      <4>5. SoloCambia(c) /\ canal' = canal
        BY <4>2, <4>3, <4>4 DEF SoloCambia
      <4> QED
        BY <4>2, <4>5, NoSeVeAunque
    <3>5. CASE Recibir(c) /\ pc'[c] # "recibir"
      BY <3>5, RecibirEsResponder DEF Serv!Next
    <3>6. CASE RecibirFalla(c)
      BY <3>6, RecibirFallaEsFallar DEF Serv!Next
    <3>7. CASE Abortar(c)
      BY <3>7, AbortarEsMatar DEF Serv!Next
    <3> QED
      BY <3>1, <3>2, <3>3, <3>4, <3>5, <3>6, <3>7 DEF PasoCliente
  <2> QED
    BY <2>1, <2>2 DEF Next
<1> QED
  BY <1>1, <1>2, UnaSesion, PTL DEF Spec, ImplementaServicio, Serv!Spec
=============================================================================
