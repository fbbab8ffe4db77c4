----------------------------- MODULE MCCanales -----------------------------
(***************************************************************************)
(* Canales for TLC.  The engine's answers: an error for the query <<a>> in *)
(* leader mode, no document for the empty query, and otherwise two         *)
(* documents, the first one named like the query.                          *)
(***************************************************************************)
EXTENDS CanalesServicio

CONSTANTS a, b

MCConsultas == { <<>>, <<a>>, <<a, b>> }
MCDosConsultas == { <<>>, <<a>> }

MCProcesar(consulta, useLeader) ==
  CASE consulta = <<>>               -> [isOk |-> TRUE, docs |-> <<>>]
    [] consulta = <<a>> /\ useLeader -> [isOk |-> FALSE, docs |-> << <<b>> >>]
    [] OTHER                         -> [isOk |-> TRUE, docs |-> << consulta, <<b>> >>]
=============================================================================
