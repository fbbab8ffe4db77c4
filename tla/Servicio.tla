------------------------------ MODULE Servicio ------------------------------
(***************************************************************************)
(* The query service without engine, queues or characters: a request gets  *)
(* the answer to its own query, or none.  A request that is killed exposes *)
(* others, before and after it, and of theirs nothing is promised.         *)
(***************************************************************************)
CONSTANTS Clientes, Procesar(_, _), Ninguna

VARIABLES
  pedido,     \* the query and method of each client
  estado,     \* what each client knows of its request
  respuesta,  \* what each client got, Ninguna if nothing yet
  expuestos   \* the clients that share something with a killed one

vars == <<pedido, estado, respuesta, expuestos>>

Init ==
  /\ estado = [c \in Clientes |-> "inicio"]
  /\ respuesta = [c \in Clientes |-> Ninguna]
  /\ expuestos = {}

Muertos == { c \in Clientes : estado[c] = "muerto" }
Exponerse(c) == expuestos' = expuestos \/ (Muertos # {} /\ expuestos' = expuestos \cup {c})

Pedir(c) ==
  /\ estado[c] = "inicio"
  /\ estado' = [estado EXCEPT ![c] = "pendiente"]
  /\ Exponerse(c) /\ UNCHANGED <<pedido, respuesta>>

Esperar(c) ==
  /\ estado[c] = "pendiente"
  /\ Exponerse(c) /\ UNCHANGED <<pedido, estado, respuesta>>

Responder(c) ==
  /\ estado[c] = "pendiente"
  /\ estado' = [estado EXCEPT ![c] = "respondido"]
  /\ \/ respuesta' = [respuesta EXCEPT ![c] = Procesar(pedido[c].consulta, pedido[c].metodo = "1")]
     \/ c \in expuestos /\ respuesta' = [respuesta EXCEPT ![c] = respuesta'[c]]
  /\ UNCHANGED <<pedido, expuestos>>

Fallar(c) ==
  /\ estado[c] \in {"inicio", "pendiente"}
  /\ estado' = [estado EXCEPT ![c] = "fallido"]
  /\ UNCHANGED <<pedido, respuesta, expuestos>>

Matar(c) ==
  /\ estado[c] = "pendiente"
  /\ estado' = [estado EXCEPT ![c] = "muerto"]
  /\ expuestos \cup {c} \subseteq expuestos' /\ UNCHANGED <<pedido, respuesta>>

Next == \E c \in Clientes : Pedir(c) \/ Esperar(c) \/ Responder(c) \/ Fallar(c) \/ Matar(c)

Spec == Init /\ [][Next]_vars
=============================================================================
