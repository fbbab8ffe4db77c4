------------------------------ MODULE Lideres ------------------------------
(***************************************************************************)
(* Indexer::buildLeaders: the documents, largest first, are made leaders,  *)
(* followers of one leader, or left without one, and written to the files  *)
(* the search reads.  One step per document.                               *)
(*                                                                         *)
(* In the code a rank is a double and the best one so far is kept as a     *)
(* float.  Ranks that differ are taken to differ by more than a float      *)
(* resolves; of equal ones, any but 0, the float may be below the double,  *)
(* and then a later leader replaces an earlier one of the same rank.       *)
(***************************************************************************)
EXTENDS Sequences, Coseno

CONSTANTS
  Entradas   \* what documentLex may hold: sequences of documents [id, terminos]

Registros(s) == { s[i] : i \in 1..Len(s) }

(* Documents have different ids and come with the largest first; each has  *)
(* the ids of its words with their counts.                                 *)
ASSUME EntradasOrdenadas ==
  \A s \in Entradas :
    /\ s \in Seq(Registros(s))
    /\ \A i \in 1..Len(s) : s[i].id \in Nat \ {0} /\ EsVector(s[i].terminos)
    /\ \A i, j \in 1..Len(s) : i < j =>
         s[i].id # s[j].id /\ Cardinality(DOMAIN s[i].terminos) >= Cardinality(DOMAIN s[j].terminos)

VARIABLES
  entrada,        \* documentLex.dat
  leidos,         \* documents read from it
  leaders,        \* id -> [terminos, seguidores]; seguidores: id -> offset
  followers,      \* followers.dat: the documents, in the order written
  withoutLeader,  \* noLeaders.dat, in the same way
  aLeaders        \* leaders.dat, in the same way

vars == <<entrada, leidos, leaders, followers, withoutLeader, aLeaders>>

RaizHaciaArriba(n) == CHOOSE k \in 0..n : k * k >= n /\ \A j \in 0..n : j * j >= n => k <= j
docCount == Len(entrada)
maxLeaders == RaizHaciaArriba(docCount)
maxFollowers == RaizHaciaArriba(docCount \div 2)
data == entrada[leidos + 1]

Init ==
  /\ entrada \in Entradas /\ leidos = 0
  /\ leaders = [l \in {} |-> {}]
  /\ followers = <<>> /\ withoutLeader = <<>> /\ aLeaders = <<>>

-----------------------------------------------------------------------------
(* A record of an index file takes 16 bytes.                               *)
_tamanio == 16

(* Fault: the position is taken after the record was written.              *)
ultimaPosicionEscrita_Despues == _tamanio * (Len(followers) + 1)

(* Where escribir puts the record: the end of the index before the write.  *)
ultimaPosicionEscrita == _tamanio * Len(followers)

(* leerOffset on followers.dat.                                            *)
leerOffset(offset) == followers[offset \div _tamanio + 1]

HacerLider ==
  /\ leaders' = [l \in DOMAIN leaders \cup {data.id} |->
       IF l = data.id THEN [terminos |-> data.terminos, seguidores |-> [s \in {} |-> 0]] ELSE leaders[l]]
  /\ UNCHANGED <<followers, withoutLeader>>

HacerSeguidor(l) ==
  LET suyos == leaders[l].seguidores IN
  /\ followers' = Append(followers, data)
  /\ leaders' = [leaders EXCEPT ![l].seguidores =
       [s \in DOMAIN suyos \cup {data.id} |-> IF s = data.id THEN ultimaPosicionEscrita ELSE suyos[s]]]
  /\ UNCHANGED withoutLeader

-----------------------------------------------------------------------------
(* The leaders `data' is close enough to, and those that still take        *)
(* followers.                                                              *)
Naturales == { l \in DOMAIN leaders : RankeaIgual(leaders[l].terminos, data.terminos) }

ConLugar == { l \in DOMAIN leaders : Cardinality(DOMAIN leaders[l].seguidores) < maxFollowers }

(* What bestLeaderId can be at the end of the loop over the leaders.       *)
Mejores ==
  LET mejor(a, b) == RankeaMejor(leaders[a].terminos, leaders[b].terminos, data.terminos)
      primeros == { l \in ConLugar : \A m \in ConLugar : ~ mejor(m, l) }
  IN  { l \in primeros : Numerador(leaders[l].terminos, data.terminos) = 0 => \A m \in primeros : l <= m }

Leer == leidos < docCount /\ leidos' = leidos + 1 /\ UNCHANGED <<entrada, aLeaders>>

PrimerLider == leidos = 0 /\ Leer /\ HacerLider

(* Fault: the loop goes on after the document became a follower.           *)
SeguidorNatural_DeTodos ==
  /\ leidos > 0 /\ Leer /\ Naturales # {}
  /\ followers' = Append(followers, data)
  /\ leaders' = [l \in DOMAIN leaders |->
       IF l \in Naturales
       THEN [leaders[l] EXCEPT !.seguidores = [s \in DOMAIN @ \cup {data.id} |->
              IF s = data.id THEN ultimaPosicionEscrita ELSE @[s]]]
       ELSE leaders[l]]
  /\ UNCHANGED withoutLeader

(* The first leader, by id, that ranks 0.75 or more: its place is not      *)
(* asked for.                                                              *)
SeguidorNatural ==
  /\ leidos > 0 /\ Leer
  /\ \E l \in Naturales : (\A m \in Naturales : l <= m) /\ HacerSeguidor(l)

NuevoLider ==
  /\ leidos > 0 /\ Leer
  /\ Naturales = {} /\ Cardinality(DOMAIN leaders) < maxLeaders
  /\ HacerLider

SeguidorForzado ==
  /\ leidos > 0 /\ Leer
  /\ Naturales = {} /\ Cardinality(DOMAIN leaders) >= maxLeaders
  /\ \E l \in Mejores : HacerSeguidor(l)

(* Fault: a document that ranks 0 with every leader is left out.           *)
SinLider_SiNoRankea ==
  /\ leidos > 0 /\ Leer
  /\ Naturales = {} /\ Cardinality(DOMAIN leaders) >= maxLeaders
  /\ \A l \in Mejores : Numerador(leaders[l].terminos, data.terminos) = 0
  /\ withoutLeader' = Append(withoutLeader, data)
  /\ UNCHANGED <<leaders, followers>>

(* Fault: leaders[ bestLeaderId ] is used when bestLeaderId is -1.         *)
SinLider_SinMirar ==
  /\ leidos > 0 /\ Leer
  /\ Naturales = {} /\ Cardinality(DOMAIN leaders) >= maxLeaders /\ ConLugar = {}
  /\ followers' = Append(followers, data)
  /\ leaders' = [l \in DOMAIN leaders \cup {-1} |->
       IF l = -1 THEN [terminos |-> [t \in {} |-> 0], seguidores |-> [s \in {data.id} |-> ultimaPosicionEscrita]]
       ELSE leaders[l]]
  /\ UNCHANGED withoutLeader

SinLider ==
  /\ leidos > 0 /\ Leer
  /\ Naturales = {} /\ Cardinality(DOMAIN leaders) >= maxLeaders /\ ConLugar = {}
  /\ withoutLeader' = Append(withoutLeader, data)
  /\ UNCHANGED <<leaders, followers>>

(* The ids of a map in the order its iterator goes through them.           *)
EnOrden(ids) ==
  [i \in 1..Cardinality(ids) |-> CHOOSE l \in ids : Cardinality({ m \in ids : m <= l }) = i]

(* The leaders, with their followers, are written in order of id.          *)
Escritos ==
  [i \in 1..Cardinality(DOMAIN leaders) |->
     LET l == EnOrden(DOMAIN leaders)[i]
     IN  [id |-> l, terminos |-> leaders[l].terminos, seguidores |-> leaders[l].seguidores]]

Bajar ==
  /\ leidos = docCount /\ docCount > 0 /\ aLeaders = <<>>
  /\ aLeaders' = Escritos
  /\ UNCHANGED <<entrada, leidos, leaders, followers, withoutLeader>>

Next == PrimerLider \/ SeguidorNatural \/ NuevoLider \/ SeguidorForzado \/ SinLider \/ Bajar

Spec == Init /\ [][Next]_vars /\ WF_vars(Next)

-----------------------------------------------------------------------------
(* Properties                                                              *)

Leidas == { entrada[i].id : i \in 1..leidos }
IdsDe(archivo) == { archivo[i].id : i \in 1..Len(archivo) }
SeguidoresDe(l) == DOMAIN leaders[l].seguidores

(* The types of the leader selection.                                      *)
TypeOK ==
  /\ leidos \in 0..docCount
  /\ DOMAIN leaders \subseteq Nat \ {0}
  /\ \A l \in DOMAIN leaders :
       /\ DOMAIN leaders[l] = {"terminos", "seguidores"}
       /\ leaders[l].seguidores \in [SeguidoresDe(l) -> Nat]
  /\ followers \in Seq(Registros(entrada)) /\ withoutLeader \in Seq(Registros(entrada))

(* Every document read is a leader, the follower of one leader, or without *)
(* leader: in one of the three and in no two, so that a full search ranks  *)
(* each document once.                                                     *)
UnSoloLugar ==
  /\ DOMAIN leaders \cup IdsDe(followers) \cup IdsDe(withoutLeader) = Leidas
  /\ DOMAIN leaders \cap IdsDe(followers) = {}
  /\ (DOMAIN leaders \cup IdsDe(followers)) \cap IdsDe(withoutLeader) = {}
  /\ \A l, m \in DOMAIN leaders : l # m => SeguidoresDe(l) \cap SeguidoresDe(m) = {}
  /\ UNION { SeguidoresDe(l) : l \in DOMAIN leaders } = IdsDe(followers)

(* The offset a leader keeps of a follower is that of its record in        *)
(* followers.dat, whatever was written after it.                           *)
OffsetsResuelven ==
  \A l \in DOMAIN leaders : \A s \in SeguidoresDe(l) :
    LET o == leaders[l].seguidores[s]
    IN  o \div _tamanio < Len(followers) /\ leerOffset(o).id = s

(* A document is left without leader only when there are more documents    *)
(* than maxLeaders leaders with maxFollowers followers can take.           *)
SinLiderSoloSiNoCaben ==
  withoutLeader # <<>> => docCount > maxLeaders * (1 + maxFollowers)

(* cosineRank's loop adds exactly the terms the two vectors share, and no  *)
(* rank is above 1.                                                        *)
CosenoExacto ==
  leidos = 0 => \A i, j \in 1..docCount :
    LET a == entrada[i].terminos
        b == entrada[j].terminos
    IN  Numerador(a, b) = Producto(a, b) /\ Numerador(a, b) * Numerador(a, b) <= Norma2(a) * Norma2(b)

(* The design: a follower is assigned to one leader, the one that ranks    *)
(* best with the method of the cosine.                                     *)
SigueAlMejor ==
  [][leidos < docCount => \A l \in DOMAIN leaders : data.id \in DOMAIN leaders'[l].seguidores =>
       \A m \in DOMAIN leaders : ~ RankeaMejor(leaders[m].terminos, leaders[l].terminos, data.terminos)]_vars
=============================================================================
