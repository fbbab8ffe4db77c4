----------------------------- MODULE MCBusqueda -----------------------------
(* Instances of Busqueda, and of Lideres under it, for TLC.                *)
EXTENDS Busqueda, TLC

(* Up to five documents with one of these contents, numbered up or down,   *)
(* the largest first.                                                      *)
MCVectores == { 1 :> 4 @@ 2 :> 1, 1 :> 1 @@ 2 :> 2, 1 :> 1 @@ 2 :> 1, 1 :> 1, 2 :> 1, 3 :> 1 }
MCLargos(v) == \A i, j \in DOMAIN v : i < j => Cardinality(DOMAIN v[i]) >= Cardinality(DOMAIN v[j])
MCIds(n) == { [i \in 1..n |-> i], [i \in 1..n |-> n + 1 - i] }
MCPocos(max) ==
  UNION { { [i \in 1..n |-> [id |-> p[i], terminos |-> v[i]]] :
              p \in MCIds(n), v \in { u \in [1..n -> MCVectores] : MCLargos(u) } } : n \in 0..max }

(* Inputs of 30 and 31 documents; with 31, the fewest for it, some can be  *)
(* left without leader.  Each has a word of its own, except for two, which *)
(* may repeat the word of another.                                         *)
MCPropia(id, w) == [id |-> id, terminos |-> (w :> 1)]
MCTantos(n) ==
  { [i \in 1..n |-> MCPropia(id[i], IF i = a THEN w ELSE IF i = b THEN x ELSE i)] :
      a \in {3, 7, 20}, b \in {8, 21, 31}, w \in {1, 2, 3, 20}, x \in {2, 6, 7, 31},
      id \in MCIds(n) }

(* 32 documents of two words, most with words of their own; the eighth and *)
(* the last repeat those of the first two, which lead, and the last has no *)
(* leader.  Queries are asked of this index and of those of up to three.   *)
MCMuchos ==
  { [i \in 1..32 |-> [id |-> id[i], terminos |->
      IF i = 32 THEN 1 :> 2 @@ 2 :> 1 ELSE (100 + i) :> 2 @@ (IF i = 8 THEN 1 ELSE i) :> 1]] :
    id \in MCIds(32) }
MCEntradas == MCPocos(5) \cup MCTantos(30) \cup MCTantos(31) \cup MCMuchos
MCEntradas3 == MCPocos(3)

(* The words a, b and c are those with the ids 1, 2 and 3.                 *)
MCTerminos == <<"a">> :> 1 @@ <<"b">> :> 2 @@ <<"c">> :> 3
MCStop == { <<"s">> }

(* Words with both signs and several weights, a stop word, and one that no *)
(* document has, one and two in a text; and, of the empty index, every     *)
(* text of up to four characters.                                          *)
MCTrozos ==
  { <<"a">>, <<"+", "a">>, <<"-", "a">>, <<"B">>, <<"+", "b">>, <<"-", "b">>, <<"x">>, <<"+", "x">>, <<"-", "x">>,
    <<"a", "^", "-", "1">>, <<"b", "^", "3">>, <<"s">>, <<"-", "s">> }
MCTextosCortos == UNION { [1..n -> {"a", "A", "+", "-", "^", "0", "2", " "}] : n \in 0..4 }
MCTextos(n) ==
  IF n = 0 THEN MCTextosCortos
  ELSE IF n \in {1, 2, 3, 32} THEN { <<>> } \cup MCTrozos \cup { s \o <<" ">> \o t : s, t \in MCTrozos }
  ELSE {}

(* The texts that the test program of the parser lists as not valid        *)
(* (src/parser_query_test/src/main.cpp:35-43), asked of the empty index.   *)
MCInvalidos ==
  { <<"&", "t", "1">>, <<>>, <<"+", "+", "t", "1">>, <<"t", "1", "^", "n">>, <<"t", "1", "^", "^", "n">> }
MCSinDocumentos == { <<>> }
MCTextosInvalidos(n) == MCInvalidos

(* The parser refuses every text that its test program lists as not valid: *)
(* none of them is searched.                                               *)
InvalidosRechazados == texto \in MCInvalidos => paso \in {"espera", "error"}
=============================================================================
