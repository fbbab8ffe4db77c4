-------------------------- MODULE CanalesServicio --------------------------
(***************************************************************************)
(* The queues as the abstract service of Servicio: the refinement mapping. *)
(* Of a request only whether it is made, answered, failed or killed is     *)
(* seen, and its answer when it has all of it.                             *)
(***************************************************************************)
EXTENDS Canales

CONSTANT Sin       \* what a client has before its answer

(* The results of a query are paths of documents: none is empty nor has a  *)
(* '\0', which end what the client reads.                                  *)
Resultados == [isOk : BOOLEAN, docs : Seq(Seq(Letras) \ {<<>>})]
ASSUME ResultadosSinVacios ==
  \A consulta \in Consultas, useLeader \in BOOLEAN : Procesar(consulta, useLeader) \in Resultados

estadoVisible ==
  [c \in Clientes |->
     CASE pc[c] = "inicio" -> "inicio"
       [] pc[c] = "listo" -> "respondido"
       [] pc[c] = "exit1" -> "fallido"
       [] pc[c] = "abortado" -> "muerto"
       [] OTHER -> "pendiente"]
respuestaVisible ==
  [c \in Clientes |->
     IF pc[c] = "listo" THEN [isOk |-> ~isError[c], docs |-> docs[c]] ELSE Sin]
expuestosVisibles == { c \in Clientes : Expuesto(c) }

Serv == INSTANCE Servicio WITH estado <- estadoVisible, respuesta <- respuestaVisible,
                               expuestos <- expuestosVisibles, Ninguna <- Sin

(* The queue protocol implements the service: a client gets the answer to  *)
(* its own query or fails, never another answer, unless it has a queue of  *)
(* a killed one: past a restart of the engine nothing is left of those.    *)
ImplementaServicio == Serv!Spec
=============================================================================
