------------------------------- MODULE Coseno -------------------------------
(***************************************************************************)
(* MathIndex: the norm and the cosine rank of two vectors id -> peso.      *)
(* A rank is numerador / (norm1 * norm2), a double in the code; here it is *)
(* never divided: ranks are compared by cross multiplication of squares,   *)
(* which is exact for the weights of documents, all positive.              *)
(***************************************************************************)
EXTENDS FiniteSetsExt

(* The map of a vector, id -> peso; the weights of a query may be negative.*)
EsVector(items) ==
  IsFiniteSet(DOMAIN items) /\ DOMAIN items \subseteq Nat /\ items \in [DOMAIN items -> Int]

(* norm, squared: pesoTotal.                                               *)
Norma2(items) == MapThenSumSet(LAMBDA t : items[t] * items[t], DOMAIN items)

(* Fault: where the ids differ both iterators move on.                     *)
Numerador_SaltaLosDos(items1, items2) ==
  LET num[r \in (SUBSET DOMAIN items1) \X (SUBSET DOMAIN items2)] ==
        IF r[1] = {} \/ r[2] = {} THEN 0
        ELSE LET id1 == Min(r[1])
                 id2 == Min(r[2])
             IN  (IF id1 = id2 THEN items1[id1] * items2[id2] ELSE 0) + num[<<r[1] \ {id1}, r[2] \ {id2}>>]
  IN  num[<<DOMAIN items1, DOMAIN items2>>]

(* The loop of cosineRank: what is left of each map from its iterator on.  *)
Numerador(items1, items2) ==
  LET num[r \in (SUBSET DOMAIN items1) \X (SUBSET DOMAIN items2)] ==
        IF r[1] = {} \/ r[2] = {} THEN 0
        ELSE LET id1 == Min(r[1])
                 id2 == Min(r[2])
             IN  IF id1 = id2
                 THEN items1[id1] * items2[id2] + num[<<r[1] \ {id1}, r[2] \ {id2}>>]
                 ELSE IF id1 < id2 THEN num[<<r[1] \ {id1}, r[2]>>]
                                   ELSE num[<<r[1], r[2] \ {id2}>>]
  IN  num[<<DOMAIN items1, DOMAIN items2>>]

(* cosineRank(items1, items2) >= 0.75: deltaCosineForEqual.  A vector      *)
(* without terms has norm 0 and ranks 0.                                   *)
RankeaIgual(items1, items2) ==
  LET n == Norma2(items1) * Norma2(items2)
      num == Numerador(items1, items2)
  IN  n # 0 /\ 16 * num * num >= 9 * n

(* cosineRank(a, items) > cosineRank(b, items).                            *)
RankeaMejor(a, b, items) ==
  LET na == Numerador(a, items)
      nb == Numerador(b, items)
  IN  na * na * Norma2(b) > nb * nb * Norma2(a)

(* What cosineRank's numerator is meant to be.                             *)
Producto(items1, items2) ==
  MapThenSumSet(LAMBDA t : items1[t] * items2[t], DOMAIN items1 \cap DOMAIN items2)
=============================================================================
