------------------------- MODULE LexicoVocabulario -------------------------
(***************************************************************************)
(* The lexicon files as the abstract vocabulary of Vocabulario: the        *)
(* refinement mapping.  Only lexical.dat counts, and only as it is when it *)
(* is closed; what a merge is writing is not seen until the rename.        *)
(***************************************************************************)
EXTENDS Lexico

idsActuales ==
  [w \in PalabrasDe(archivo["lex"]) |->
     (CHOOSE r \in Rango(archivo["lex"]) : r.termino = w).id]
vectoresActuales == [d \in DOMAIN docLex |-> docLex[d].terminos]

V == INSTANCE Vocabulario WITH ids <- idsActuales, vectores <- vectoresActuales

(* The files, the merges and the two document files implement the abstract *)
(* vocabulary: a merge is one Aprender, the words of a stop list or of a   *)
(* file with nothing new are stutters, a recorded document is a Registrar. *)
ImplementaVocabulario == V!Spec
=============================================================================
