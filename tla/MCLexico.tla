------------------------------ MODULE MCLexico ------------------------------
(***************************************************************************)
(* Lexico for TLC: a few words, files and counts.                          *)
(***************************************************************************)
EXTENDS LexicoVocabulario, TLC

(* What a file may contain here: one, two or three words, once each or     *)
(* not, nothing, or something that is not HTML.                            *)
MCContenidos ==
  { Vacia, 1 :> 1, 2 :> 1, 3 :> 2, 1 :> 2 @@ 2 :> 1, 1 :> 1 @@ 3 :> 1, 2 :> 1 @@ 3 :> 2, 1 :> 1 @@ 2 :> 2 @@ 3 :> 1, Roto }
MCInit == contenido \in [Rutas \cup RutasStop -> MCContenidos] /\ Init
MCSpec == MCInit /\ [][Next]_vars /\ WF_vars(Next)
=============================================================================
