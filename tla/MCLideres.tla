------------------------------ MODULE MCLideres ------------------------------
(* Instances of Lideres for TLC.                                           *)
EXTENDS Lideres, TLC

CONSTANT MCDocs

(* Every input of at most MCDocs documents with one of these contents,     *)
(* numbered up or down, the largest first.                                 *)
MCVectores == { 1 :> 4 @@ 2 :> 1, 1 :> 1 @@ 2 :> 2, 1 :> 1 @@ 2 :> 1, 1 :> 1, 2 :> 1, 3 :> 1 }
MCLargos(v) == \A i, j \in DOMAIN v : i < j => Cardinality(DOMAIN v[i]) >= Cardinality(DOMAIN v[j])
MCIds(n) == { [i \in 1..n |-> i], [i \in 1..n |-> n + 1 - i] }
MCPocos ==
  UNION { { [i \in 1..n |-> [id |-> p[i], terminos |-> v[i]]] :
              p \in MCIds(n), v \in { u \in [1..n -> MCVectores] : MCLargos(u) } } : n \in 0..MCDocs }
==============================================================================
