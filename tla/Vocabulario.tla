----------------------------- MODULE Vocabulario -----------------------------
(***************************************************************************)
(* What the indexer promises of its vocabulary, without files or merges:   *)
(* a word gets an id once, the ids are 1, 2, 3... in the order the words   *)
(* were learnt, the words of one document are numbered in word order, and  *)
(* a document is recorded with a vector over words already learnt.         *)
(***************************************************************************)
EXTENDS Integers, Sequences, FiniteSets

CONSTANTS Palabras, Pesos

VARIABLES
  ids,       \* word -> id
  vectores   \* the vectors recorded, in order

vars == <<ids, vectores>>

Init ==
  /\ ids = [w \in {} |-> 0]
  /\ vectores = <<>>

(* The words of ps get the next ids, in word order.                        *)
Aprender(ps) ==
  /\ ps # {} /\ ps \cap DOMAIN ids = {}
  /\ ids' = [w \in DOMAIN ids \cup ps |->
               IF w \in ps THEN Cardinality(DOMAIN ids) + Cardinality({ v \in ps : v <= w })
               ELSE ids[w]]
  /\ UNCHANGED vectores

(* A document with the words of ps and their counts.                       *)
Registrar(conteo) ==
  /\ DOMAIN conteo # {} /\ DOMAIN conteo \subseteq DOMAIN ids
  /\ LET suyos == { ids[w] : w \in DOMAIN conteo }
         palabra(id) == CHOOSE w \in DOMAIN conteo : ids[w] = id
     IN  vectores' = Append(vectores, [id \in suyos |-> conteo[palabra(id)]])
  /\ UNCHANGED ids

Next ==
  \/ \E ps \in SUBSET Palabras : Aprender(ps)
  \/ \E ps \in SUBSET Palabras : \E conteo \in [ps -> Pesos] : Registrar(conteo)

Spec == Init /\ [][Next]_vars
=============================================================================
