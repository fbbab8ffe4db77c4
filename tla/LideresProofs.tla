--------------------------- MODULE LideresProofs ---------------------------
(***************************************************************************)
(* For any documents, whatever their ranks: each ends in one place, and    *)
(* the offset a leader keeps of a follower is that of its record.          *)
(*                                                                         *)
(* Neither fact is inductive without the other state it speaks of: the     *)
(* document read next is in no file yet (its id is not among those read),  *)
(* and an offset is below the end of followers.dat, so that what is        *)
(* written later cannot be what it points at.  Nothing about the rank is   *)
(* used.                                                                   *)
(***************************************************************************)
EXTENDS Lideres, ConteoProofs

(* A leader in memory is a record of its two fields.                       *)
Fichas ==
  \A l \in DOMAIN leaders :
    leaders[l] = [terminos |-> leaders[l].terminos, seguidores |-> leaders[l].seguidores]

Inv ==
  /\ entrada \in Entradas
  /\ TypeOK
  /\ leaders = [l \in DOMAIN leaders |-> leaders[l]]
  /\ Fichas
  /\ UnSoloLugar
  /\ OffsetsResuelven

(* What the next document adds to those read.                              *)
LEMMA LeerUno ==
  ASSUME entrada \in Entradas, leidos \in 0..docCount, Leer
  PROVE  /\ leidos < docCount /\ leidos' \in 0..docCount /\ leidos' = leidos + 1
         /\ entrada' = entrada /\ docCount' = docCount
         /\ docCount \in Nat
         /\ data \in Registros(entrada)
         /\ data.id \in Nat \ {0}
         /\ data.id \notin Leidas
         /\ Leidas' = Leidas \cup {data.id}
<1>1. entrada \in Seq(Registros(entrada)) /\ Len(entrada) \in Nat
  BY EntradasOrdenadas
<1>2. leidos < Len(entrada) /\ leidos' = leidos + 1 /\ entrada' = entrada /\ leidos + 1 \in 1..Len(entrada)
  BY <1>1 DEF Leer, docCount
<1>3. data \in Registros(entrada) /\ data.id \in Nat \ {0}
  BY <1>1, <1>2, EntradasOrdenadas DEF data, Registros
<1>4. data.id \notin Leidas
  <2>1. \A i \in 1..leidos : entrada[i].id # entrada[leidos + 1].id
    BY <1>1, <1>2, EntradasOrdenadas DEF docCount
  <2> QED BY <2>1 DEF Leidas, data
<1>5. Leidas' = Leidas \cup {data.id}
  <2>1. 1..leidos' = 1..leidos \cup {leidos + 1}
    BY <1>1, <1>2
  <2> QED BY <2>1, <1>2 DEF Leidas, data
<1> QED BY <1>1, <1>2, <1>3, <1>4, <1>5 DEF docCount

(* Writing a document at the end of a file adds its id.                    *)
LEMMA IdsDeAppend ==
  ASSUME NEW S, NEW archivo \in Seq(S), NEW d \in S
  PROVE  /\ Append(archivo, d) \in Seq(S)
         /\ Len(Append(archivo, d)) = Len(archivo) + 1
         /\ \A i \in 1..Len(archivo) : Append(archivo, d)[i] = archivo[i]
         /\ Append(archivo, d)[Len(archivo) + 1] = d
         /\ IdsDe(Append(archivo, d)) = IdsDe(archivo) \cup {d.id}
<1>1. /\ Append(archivo, d) \in Seq(S)
      /\ Len(Append(archivo, d)) = Len(archivo) + 1
      /\ \A i \in 1..Len(archivo) : Append(archivo, d)[i] = archivo[i]
      /\ Append(archivo, d)[Len(archivo) + 1] = d
      /\ Len(archivo) \in Nat
  OBVIOUS
<1>2. 1..(Len(archivo) + 1) = 1..Len(archivo) \cup {Len(archivo) + 1}
  BY <1>1
<1>3. IdsDe(Append(archivo, d)) = IdsDe(archivo) \cup {d.id}
  BY <1>1, <1>2 DEF IdsDe
<1> QED BY <1>1, <1>3

LEMMA InitInv == Init => Inv
<1> SUFFICES ASSUME Init PROVE Inv
  OBVIOUS
<1>1. entrada \in Entradas /\ Len(entrada) \in Nat
  BY EntradasOrdenadas DEF Init
<1>2. DOMAIN leaders = {} /\ leaders = [l \in DOMAIN leaders |-> leaders[l]]
  BY DEF Init
<1>3. Leidas = {} /\ IdsDe(followers) = {} /\ IdsDe(withoutLeader) = {}
  BY DEF Init, Leidas, IdsDe
<1>4. TypeOK
  BY <1>1, <1>2 DEF TypeOK, Init, docCount
<1>5. UnSoloLugar
  BY <1>2, <1>3 DEF UnSoloLugar
<1> QED BY <1>1, <1>2, <1>4, <1>5 DEF Inv, Fichas, OffsetsResuelven

(* A new leader: PrimerLider and NuevoLider.                               *)
LEMMA LiderConserva ==
  ASSUME Inv, Leer, HacerLider
  PROVE  Inv'
<1>0. PICK d : d = data
  OBVIOUS
<1> DEFINE nuevo == [terminos |-> d.terminos, seguidores |-> [s \in {} |-> 0]]
<1>1. /\ leidos' \in 0..docCount /\ entrada' = entrada /\ docCount' = docCount
      /\ d.id \in Nat \ {0} /\ d.id \notin Leidas /\ Leidas' = Leidas \cup {d.id}
  BY <1>0, LeerUno DEF Inv, TypeOK
<1>2. followers' = followers /\ withoutLeader' = withoutLeader
  BY DEF HacerLider
<1>3. /\ DOMAIN leaders' = DOMAIN leaders \cup {d.id}
      /\ leaders' = [l \in DOMAIN leaders' |-> leaders'[l]]
      /\ leaders'[d.id] = nuevo
      /\ \A l \in DOMAIN leaders : l # d.id => leaders'[l] = leaders[l]
  BY <1>0 DEF HacerLider
<1>4. DOMAIN leaders \subseteq Leidas /\ d.id \notin DOMAIN leaders
  BY <1>1 DEF Inv, UnSoloLugar
<1>5. nuevo.seguidores = [s \in {} |-> 0] /\ DOMAIN nuevo = {"terminos", "seguidores"} /\ DOMAIN nuevo.seguidores = {}
  OBVIOUS
<1>6. nuevo = [terminos |-> nuevo.terminos, seguidores |-> nuevo.seguidores]
  OBVIOUS
<1> HIDE DEF nuevo
<1>7. /\ SeguidoresDe(d.id)' = {}
      /\ \A l \in DOMAIN leaders : leaders'[l] = leaders[l] /\ SeguidoresDe(l)' = SeguidoresDe(l)
  BY <1>3, <1>4, <1>5 DEF SeguidoresDe
<1>8. IdsDe(followers)' = IdsDe(followers) /\ IdsDe(withoutLeader)' = IdsDe(withoutLeader)
  BY <1>2 DEF IdsDe
<1>9. TypeOK'
  <2>1. leaders'[d.id].seguidores \in [SeguidoresDe(d.id)' -> Nat]
    BY <1>3, <1>5, <1>7
  <2>2. \A l \in DOMAIN leaders' :
          /\ DOMAIN leaders'[l] = {"terminos", "seguidores"}
          /\ leaders'[l].seguidores \in [SeguidoresDe(l)' -> Nat]
    BY <2>1, <1>3, <1>5, <1>7 DEF Inv, TypeOK
  <2>3. DOMAIN leaders' \subseteq Nat \ {0}
    BY <1>1, <1>3 DEF Inv, TypeOK
  <2>4. followers' \in Seq(Registros(entrada)') /\ withoutLeader' \in Seq(Registros(entrada)')
    BY <1>1, <1>2 DEF Inv, TypeOK, Registros
  <2> QED BY <2>2, <2>3, <2>4, <1>1 DEF TypeOK
<1>10. Fichas'
  BY <1>3, <1>6, <1>7 DEF Inv, Fichas
<1>11. UnSoloLugar'
  <2>1. UNION { SeguidoresDe(l)' : l \in DOMAIN leaders' } = UNION { SeguidoresDe(l) : l \in DOMAIN leaders }
    BY <1>3, <1>7
  <2>2. \A l, m \in DOMAIN leaders' : l # m => SeguidoresDe(l)' \cap SeguidoresDe(m)' = {}
    BY <1>3, <1>7 DEF Inv, UnSoloLugar
  <2> QED BY <2>1, <2>2, <1>1, <1>3, <1>4, <1>8 DEF Inv, UnSoloLugar
<1>12. OffsetsResuelven'
  BY <1>2, <1>3, <1>7 DEF Inv, OffsetsResuelven, leerOffset
<1> QED BY <1>1, <1>3, <1>9, <1>10, <1>11, <1>12 DEF Inv

(* A new follower of leader l: SeguidorNatural and SeguidorForzado.        *)
LEMMA SeguidorConserva ==
  ASSUME Inv, Leer, NEW l \in DOMAIN leaders, HacerSeguidor(l)
  PROVE  Inv'
<1>0. PICK d : d = data
  OBVIOUS
<1> DEFINE suyos == leaders[l].seguidores
           suyosN == [s \in DOMAIN suyos \cup {d.id} |-> IF s = d.id THEN ultimaPosicionEscrita ELSE suyos[s]]
<1>1. /\ leidos' \in 0..docCount /\ entrada' = entrada /\ docCount' = docCount
      /\ d \in Registros(entrada)
      /\ d.id \in Nat \ {0} /\ d.id \notin Leidas /\ Leidas' = Leidas \cup {d.id}
  BY <1>0, LeerUno DEF Inv, TypeOK
<1>2. /\ followers' = Append(followers, d) /\ withoutLeader' = withoutLeader
      /\ leaders' = [leaders EXCEPT ![l].seguidores = suyosN]
  BY <1>0 DEF HacerSeguidor
<1>3. /\ followers \in Seq(Registros(entrada)) /\ Len(followers) \in Nat
      /\ followers' \in Seq(Registros(entrada))
      /\ Len(followers') = Len(followers) + 1
      /\ \A i \in 1..Len(followers) : followers'[i] = followers[i]
      /\ followers'[Len(followers) + 1] = d
      /\ IdsDe(followers)' = IdsDe(followers) \cup {d.id}
  BY <1>1, <1>2, IdsDeAppend DEF Inv, TypeOK, IdsDe
<1>4. /\ DOMAIN suyosN = SeguidoresDe(l) \cup {d.id}
      /\ suyosN[d.id] = ultimaPosicionEscrita
      /\ \A s \in SeguidoresDe(l) : s # d.id => suyosN[s] = suyos[s]
  BY DEF SeguidoresDe
<1>5. suyosN \in [SeguidoresDe(l) \cup {d.id} -> Nat]
  <2>1. ultimaPosicionEscrita \in Nat
    BY <1>3 DEF ultimaPosicionEscrita, _tamanio
  <2>2. suyos \in [SeguidoresDe(l) -> Nat]
    BY DEF Inv, TypeOK
  <2> QED BY <2>1, <2>2 DEF SeguidoresDe
<1> HIDE DEF suyosN
<1>6. /\ DOMAIN leaders' = DOMAIN leaders
      /\ leaders' = [m \in DOMAIN leaders' |-> leaders'[m]]
      /\ leaders'[l] = [terminos |-> leaders[l].terminos, seguidores |-> suyosN]
      /\ \A m \in DOMAIN leaders : m # l => leaders'[m] = leaders[m]
  <2>1. leaders[l] = [terminos |-> leaders[l].terminos, seguidores |-> leaders[l].seguidores]
    BY DEF Inv, Fichas
  <2>2. leaders = [m \in DOMAIN leaders |-> leaders[m]]
    BY DEF Inv
  <2>3. leaders' = [m \in DOMAIN leaders |-> IF m = l THEN [leaders[l] EXCEPT !.seguidores = suyosN] ELSE leaders[m]]
    BY <1>2, <2>2
  <2>4. [leaders[l] EXCEPT !.seguidores = suyosN] = [terminos |-> leaders[l].terminos, seguidores |-> suyosN]
    BY <2>1
  <2> QED BY <2>3, <2>4
<1>7. /\ leaders'[l].seguidores = suyosN
      /\ SeguidoresDe(l)' = SeguidoresDe(l) \cup {d.id}
      /\ \A m \in DOMAIN leaders : m # l => SeguidoresDe(m)' = SeguidoresDe(m)
  BY <1>4, <1>6 DEF SeguidoresDe
<1>8. DOMAIN leaders \subseteq Leidas /\ IdsDe(followers) \subseteq Leidas /\ IdsDe(withoutLeader) \subseteq Leidas
  BY DEF Inv, UnSoloLugar
<1>9. \A m \in DOMAIN leaders : d.id \notin SeguidoresDe(m)
  BY <1>1, <1>8 DEF Inv, UnSoloLugar
<1>10. TypeOK'
  <2>1. \A m \in DOMAIN leaders' :
          /\ DOMAIN leaders'[m] = {"terminos", "seguidores"}
          /\ leaders'[m].seguidores \in [SeguidoresDe(m)' -> Nat]
    <3>1. SUFFICES ASSUME NEW m \in DOMAIN leaders
          PROVE  /\ DOMAIN leaders'[m] = {"terminos", "seguidores"}
                 /\ leaders'[m].seguidores \in [SeguidoresDe(m)' -> Nat]
      BY <1>6
    <3>2. CASE m = l
      <4>1. DOMAIN leaders'[m] = {"terminos", "seguidores"}
        BY <3>2, <1>6
      <4>2. leaders'[m].seguidores \in [SeguidoresDe(m)' -> Nat]
        BY <3>2, <1>5, <1>7
      <4> QED BY <4>1, <4>2
    <3>3. CASE m # l
      BY <3>3, <1>6, <1>7 DEF Inv, TypeOK
    <3> QED BY <3>2, <3>3
  <2>2. followers' \in Seq(Registros(entrada)') /\ withoutLeader' \in Seq(Registros(entrada)')
    BY <1>1, <1>2, <1>3 DEF Inv, TypeOK, Registros
  <2> QED BY <2>1, <2>2, <1>1, <1>6 DEF Inv, TypeOK
<1>11. Fichas'
  BY <1>6 DEF Inv, Fichas
<1>12. UnSoloLugar'
  <2>1. UNION { SeguidoresDe(m)' : m \in DOMAIN leaders' } = (UNION { SeguidoresDe(m) : m \in DOMAIN leaders }) \cup {d.id}
    BY <1>6, <1>7
  <2>2. \A m, n \in DOMAIN leaders' : m # n => SeguidoresDe(m)' \cap SeguidoresDe(n)' = {}
    BY <1>6, <1>7, <1>9 DEF Inv, UnSoloLugar
  <2>3. IdsDe(withoutLeader)' = IdsDe(withoutLeader)
    BY <1>2 DEF IdsDe
  <2> QED BY <2>1, <2>2, <2>3, <1>1, <1>3, <1>6, <1>8 DEF Inv, UnSoloLugar
<1>13. OffsetsResuelven'
  <2> SUFFICES ASSUME NEW m \in DOMAIN leaders, NEW s \in SeguidoresDe(m)'
               PROVE  LET o == leaders'[m].seguidores[s]
                      IN  o \div _tamanio < Len(followers') /\ followers'[o \div _tamanio + 1].id = s
    BY <1>6 DEF OffsetsResuelven, leerOffset
  <2>1. CASE s = d.id
    <3>1. m = l
      BY <2>1, <1>7, <1>9
    <3>2. leaders'[m].seguidores[s] = 16 * Len(followers)
      BY <3>1, <2>1, <1>4, <1>7 DEF ultimaPosicionEscrita, _tamanio
    <3>3. (16 * Len(followers)) \div 16 = Len(followers)
      BY <1>3
    <3> QED BY <3>2, <3>3, <2>1, <1>3 DEF _tamanio
  <2>2. CASE s # d.id
    <3>1. s \in SeguidoresDe(m) /\ leaders'[m].seguidores[s] = leaders[m].seguidores[s]
      BY <2>2, <1>4, <1>6, <1>7
    <3> DEFINE o == leaders[m].seguidores[s]
    <3>2. o \in Nat
      BY <3>1 DEF Inv, TypeOK
    <3>3. o \div 16 < Len(followers) /\ followers[o \div 16 + 1].id = s
      BY <3>1 DEF Inv, OffsetsResuelven, leerOffset, _tamanio
    <3> HIDE DEF o
    <3>4. o \div 16 + 1 \in 1..Len(followers)
      BY <3>2, <3>3, <1>3
    <3>5. followers'[o \div 16 + 1].id = s /\ o \div 16 < Len(followers')
      BY <3>2, <3>3, <3>4, <1>3
    <3> QED BY <3>5, <3>1 DEF o, _tamanio
  <2> QED BY <2>1, <2>2
<1> QED BY <1>1, <1>6, <1>10, <1>11, <1>12, <1>13 DEF Inv

(* A document left without leader.                                         *)
LEMMA SinLiderConserva ==
  ASSUME Inv, SinLider
  PROVE  Inv'
<1>1. /\ leidos' \in 0..docCount /\ entrada' = entrada /\ docCount' = docCount
      /\ data \in Registros(entrada)
      /\ data.id \notin Leidas /\ Leidas' = Leidas \cup {data.id}
  BY LeerUno DEF Inv, TypeOK, SinLider
<1>2. withoutLeader' = Append(withoutLeader, data) /\ leaders' = leaders /\ followers' = followers
  BY DEF SinLider
<1>3. withoutLeader' \in Seq(Registros(entrada)) /\ IdsDe(withoutLeader)' = IdsDe(withoutLeader) \cup {data.id}
  BY <1>1, <1>2, IdsDeAppend DEF Inv, TypeOK, IdsDe
<1>4. IdsDe(followers)' = IdsDe(followers) /\ \A l : SeguidoresDe(l)' = SeguidoresDe(l)
  BY <1>2 DEF IdsDe, SeguidoresDe
<1>5. TypeOK'
  BY <1>1, <1>2, <1>3, <1>4 DEF Inv, TypeOK, Registros
<1>6. UnSoloLugar'
  BY <1>1, <1>2, <1>3, <1>4 DEF Inv, UnSoloLugar
<1>7. OffsetsResuelven'
  BY <1>2, <1>4 DEF Inv, OffsetsResuelven, leerOffset
<1> QED BY <1>1, <1>2, <1>5, <1>6, <1>7 DEF Inv, Fichas

LEMMA NextInv ==
  ASSUME Inv, [Next]_vars
  PROVE  Inv'
<1>1. CASE PrimerLider
  BY <1>1, LiderConserva DEF PrimerLider
<1>2. CASE SeguidorNatural
  <2>1. Leer /\ \E l \in DOMAIN leaders : HacerSeguidor(l)
    BY <1>2 DEF SeguidorNatural, Naturales
  <2> QED BY <2>1, SeguidorConserva
<1>3. CASE NuevoLider
  BY <1>3, LiderConserva DEF NuevoLider
<1>4. CASE SeguidorForzado
  <2>1. Leer /\ \E l \in DOMAIN leaders : HacerSeguidor(l)
    BY <1>4 DEF SeguidorForzado, Mejores, ConLugar
  <2> QED BY <2>1, SeguidorConserva
<1>5. CASE SinLider
  BY <1>5, SinLiderConserva
<1>6. CASE Bajar \/ UNCHANGED vars
  <2>1. UNCHANGED <<entrada, leidos, leaders, followers, withoutLeader>>
    BY <1>6 DEF Bajar, vars
  <2>2. TypeOK'
    BY <2>1 DEF Inv, TypeOK, docCount, SeguidoresDe, Registros
  <2>3. UnSoloLugar'
    <3>1. /\ Leidas' = Leidas /\ IdsDe(followers)' = IdsDe(followers) /\ IdsDe(withoutLeader)' = IdsDe(withoutLeader)
          /\ \A l : SeguidoresDe(l)' = SeguidoresDe(l)
      BY <2>1 DEF IdsDe, Leidas, SeguidoresDe
    <3> QED BY <3>1, <2>1 DEF Inv, UnSoloLugar
  <2>4. OffsetsResuelven'
    BY <2>1 DEF Inv, OffsetsResuelven, leerOffset, SeguidoresDe
  <2> QED BY <2>1, <2>2, <2>3, <2>4 DEF Inv, Fichas
<1> QED BY <1>1, <1>2, <1>3, <1>4, <1>5, <1>6 DEF Next

(* The invariant the others rest on.                                       *)
THEOREM InvSiempre == Spec => []Inv
<1>1. Init => Inv
  BY InitInv
<1>2. Inv /\ [Next]_vars => Inv'
  BY NextInv
<1> QED BY <1>1, <1>2, PTL DEF Spec

(* buildLeaders keeps its types for any documents.                         *)
THEOREM TiposCorrectos == Spec => []TypeOK
<1>1. Inv => TypeOK
  BY DEF Inv
<1> QED BY <1>1, InvSiempre, PTL

(* Every document read is a leader, the follower of one leader, or without *)
(* one, and is written in one file: no search ranks it twice or misses it. *)
THEOREM SiempreUnSoloLugar == Spec => []UnSoloLugar
<1>1. Inv => UnSoloLugar
  BY DEF Inv
<1> QED BY <1>1, InvSiempre, PTL

(* The offset of a follower is that of its record for as long as the files *)
(* are written.                                                            *)
THEOREM SiempreOffsetsResuelven == Spec => []OffsetsResuelven
<1>1. Inv => OffsetsResuelven
  BY DEF Inv
<1> QED BY <1>1, InvSiempre, PTL

-----------------------------------------------------------------------------
(* The documents without leader.                                           *)

LEMMA RaizNatural ==
  ASSUME NEW n \in Nat
  PROVE  RaizHaciaArriba(n) \in Nat
<1> DEFINE T == { k \in 0..n : k * k >= n }
<1>1. n \in T
  <2>1. \A i \in Nat : i * i >= i
    OBVIOUS
  <2> QED
    BY <2>1
<1>2. PICK k \in T : \A j \in T : k <= j
  <2>1. T \subseteq Nat /\ T # {}
    BY <1>1
  <2> HIDE DEF T
  <2> QED
    BY <2>1, MenorNatural
<1>3. k \in 0..n /\ k * k >= n /\ \A j \in 0..n : j * j >= n => k <= j
  BY <1>2
<1>4. RaizHaciaArriba(n) \in 0..n
  BY <1>3 DEF RaizHaciaArriba
<1> QED
  BY <1>4

(* No more documents are read than their count.                            *)
LEMMA CuantasLeidas ==
  ASSUME Inv
  PROVE  IsFiniteSet(Leidas) /\ Cardinality(Leidas) \in Nat /\ Cardinality(Leidas) <= leidos
<1> DEFINE f == [i \in 1..leidos |-> entrada[i].id]
<1>1. leidos \in Nat
  BY EntradasOrdenadas DEF Inv, TypeOK, docCount
<1>2. f \in Surjection(1..leidos, Leidas)
  BY DEF Surjection, Leidas
<1>3. IsFiniteSet(1..leidos) /\ Cardinality(1..leidos) = leidos
  BY <1>1, FS_Interval
<1> HIDE DEF f
<1> QED
  BY <1>2, <1>3, FS_Surjection, FS_CardinalityType

(* When every leader there may be has all its followers, they alone are    *)
(* maxLeaders * (1 + maxFollowers) documents, all different; and one more  *)
(* is being read.                                                          *)
LEMMA CuposLlenos ==
  ASSUME Inv, Leer, Cardinality(DOMAIN leaders) >= maxLeaders, ConLugar = {}
  PROVE  docCount > maxLeaders * (1 + maxFollowers)
<1> DEFINE L == DOMAIN leaders
           f == [l \in L |-> SeguidoresDe(l)]
           U == UNION { f[l] : l \in L }
<1>1. leidos < docCount /\ docCount \in Nat /\ leidos \in Nat
  BY LeerUno, EntradasOrdenadas DEF Inv, TypeOK, docCount
<1>2. maxLeaders \in Nat /\ maxFollowers \in Nat
  <2>1. docCount \div 2 \in Nat
    BY <1>1
  <2> QED
    BY <1>1, <2>1, RaizNatural DEF maxLeaders, maxFollowers
<1>3. IsFiniteSet(Leidas) /\ Cardinality(Leidas) \in Nat /\ Cardinality(Leidas) <= leidos
  BY CuantasLeidas
<1>4. U = IdsDe(followers)
  BY DEF Inv, UnSoloLugar
<1>5. L \cap U = {} /\ L \subseteq Leidas /\ U \subseteq Leidas
  BY <1>4 DEF Inv, UnSoloLugar
<1>6. \A l \in L : f[l] = SeguidoresDe(l) /\ f[l] \subseteq U
  OBVIOUS
<1>7. \A l, m \in L : l # m => f[l] \cap f[m] = {}
  BY <1>6 DEF Inv, UnSoloLugar
<1>8. \A l \in L : Cardinality(f[l]) >= maxFollowers \/ Cardinality(f[l]) < maxFollowers
  <2>1. \A l \in L : Cardinality(f[l]) \in Nat
    <3> HIDE DEF f, U
    <3> QED
      BY <1>3, <1>5, <1>6, FS_Subset, FS_CardinalityType
  <2> QED
    BY <1>2, <2>1
<1>9. \A l \in L : Cardinality(f[l]) >= maxFollowers
  BY <1>6, <1>8 DEF ConLugar, SeguidoresDe
<1> HIDE DEF f, L
<1>10. \A l \in L : IsFiniteSet(f[l])
  BY <1>3, <1>5, <1>6, FS_Subset
<1>11. IsFiniteSet(L) /\ Cardinality(L) \in Nat
  BY <1>3, <1>5, FS_Subset, FS_CardinalityType
<1>12. IsFiniteSet(U) /\ Cardinality(U) >= Cardinality(L) * maxFollowers
  BY <1>2, <1>7, <1>9, <1>10, <1>11, UnionDisjunta
<1> HIDE DEF U
<1>13. /\ Cardinality(U) \in Nat
       /\ Cardinality(L \cup U) = Cardinality(L) + Cardinality(U)
       /\ Cardinality(L \cup U) <= Cardinality(Leidas)
  <2>1. Cardinality(L \cup U) = Cardinality(L) + Cardinality(U) - Cardinality(L \cap U)
    BY <1>11, <1>12, FS_Union
  <2>2. Cardinality(L \cap U) = 0
    BY <1>5, FS_EmptySet
  <2>3. Cardinality(L \cup U) <= Cardinality(Leidas)
    <3>1. L \cup U \in SUBSET Leidas
      BY <1>5
    <3> QED
      BY <1>3, <3>1, FS_Subset
  <2> QED
    BY <1>11, <1>12, <2>1, <2>2, <2>3, FS_CardinalityType
<1>14. Cardinality(L) * maxFollowers >= maxLeaders * maxFollowers
  <2>1. \A i, j, k \in Nat : i >= j => i * k >= j * k
    OBVIOUS
  <2> QED
    BY <1>2, <1>11, <2>1 DEF L
<1>15. /\ maxLeaders * (1 + maxFollowers) = maxLeaders + maxLeaders * maxFollowers
       /\ maxLeaders * maxFollowers \in Nat /\ Cardinality(L) * maxFollowers \in Nat
  BY <1>2, <1>11
<1>16. Cardinality(L) >= maxLeaders
  BY DEF L
<1> HIDE DEF L
<1> QED
  BY <1>1, <1>2, <1>3, <1>11, <1>12, <1>13, <1>14, <1>15, <1>16

(* A document is left without leader only when there are more documents    *)
(* than maxLeaders leaders with maxFollowers followers can take, whatever  *)
(* the ranks and the order in which the places were filled.                *)
THEOREM SiempreSinLiderSoloSiNoCaben == Spec => []SinLiderSoloSiNoCaben
<1>1. Init => SinLiderSoloSiNoCaben
  BY DEF Init, SinLiderSoloSiNoCaben
<1>2. Inv /\ SinLiderSoloSiNoCaben /\ [Next]_vars => SinLiderSoloSiNoCaben'
  <2> SUFFICES ASSUME Inv, SinLiderSoloSiNoCaben, [Next]_vars
               PROVE  SinLiderSoloSiNoCaben'
    OBVIOUS
  <2>1. UNCHANGED entrada
    BY DEF Next, PrimerLider, SeguidorNatural, NuevoLider, SeguidorForzado, SinLider, Leer, Bajar, vars
  <2>2. docCount' = docCount /\ maxLeaders' = maxLeaders /\ maxFollowers' = maxFollowers
    BY <2>1 DEF docCount, maxLeaders, maxFollowers
  <2>3. CASE SinLider
    <3>1. docCount > maxLeaders * (1 + maxFollowers)
      BY <2>3, CuposLlenos DEF SinLider
    <3> QED
      BY <2>2, <3>1 DEF SinLiderSoloSiNoCaben
  <2>4. CASE ~ SinLider
    <3>1. UNCHANGED withoutLeader
      BY <2>4 DEF Next, PrimerLider, SeguidorNatural, NuevoLider, SeguidorForzado, Bajar, vars,
                  HacerLider, HacerSeguidor
    <3> QED
      BY <2>2, <3>1 DEF SinLiderSoloSiNoCaben
  <2> QED
    BY <2>3, <2>4
<1> QED
  BY <1>1, <1>2, InvSiempre, PTL DEF Spec

-----------------------------------------------------------------------------
(* The cosine.                                                             *)

Cuadrados(items) == [t \in DOMAIN items |-> items[t] * items[t]]
Productos(a, b) == [t \in DOMAIN a \cap DOMAIN b |-> a[t] * b[t]]

LEMMA VectorEntero ==
  ASSUME NEW a, EsVector(a), NEW b, EsVector(b)
  PROVE  /\ IsFiniteSet(DOMAIN a) /\ IsFiniteSet(DOMAIN a \cap DOMAIN b)
         /\ \A t \in DOMAIN a : a[t] \in Int /\ a[t] * a[t] \in Nat
         /\ Cuadrados(a) \in [DOMAIN a -> Int] /\ \A t \in DOMAIN a : Cuadrados(a)[t] = a[t] * a[t] /\ Cuadrados(a)[t] >= 0
         /\ Productos(a, b) \in [DOMAIN a \cap DOMAIN b -> Int]
<1>1. IsFiniteSet(DOMAIN a) /\ IsFiniteSet(DOMAIN a \cap DOMAIN b)
  BY FS_Intersection DEF EsVector
<1>2. \A i \in Int : i * i \in Nat
  OBVIOUS
<1>3. \A i, j \in Int : i * j \in Int
  OBVIOUS
<1>4. (\A t \in DOMAIN a : a[t] \in Int) /\ (\A t \in DOMAIN b : b[t] \in Int)
  BY DEF EsVector
<1>5. \A t \in DOMAIN a : a[t] \in Int /\ a[t] * a[t] \in Nat
  BY <1>2, <1>4
<1>6. Cuadrados(a) \in [DOMAIN a -> Int] /\ \A t \in DOMAIN a : Cuadrados(a)[t] = a[t] * a[t] /\ Cuadrados(a)[t] >= 0
  BY <1>5 DEF Cuadrados
<1>7. Productos(a, b) \in [DOMAIN a \cap DOMAIN b -> Int]
  BY <1>3, <1>4 DEF Productos
<1> QED
  BY <1>1, <1>5, <1>6, <1>7

(* norm adds the squares of all the weights.                               *)
LEMMA NormaEsSuma ==
  ASSUME NEW a, EsVector(a)
  PROVE  Norma2(a) = Suma(Cuadrados(a), DOMAIN a)
<1> DEFINE D == DOMAIN a
           F(f, s) == IF s = {} THEN 0
                      ELSE (a[CHOOSE x \in s : TRUE] * a[CHOOSE x \in s : TRUE]) + f[s \ {CHOOSE x \in s : TRUE}]
           g == [s \in SUBSET D |-> Suma(Cuadrados(a), s)]
           iter == CHOOSE f : f = [s \in SUBSET D |-> F(f, s)]
<1>0. Norma2(a) = LET it[s \in SUBSET DOMAIN a] ==
                         IF s = {} THEN 0
                         ELSE LET x == CHOOSE y \in s : TRUE IN (a[x] * a[x]) + it[s \ {x}]
                    IN  it[DOMAIN a]
  BY DEF Norma2, MapThenSumSet, MapThenFoldSet
<1>1. Norma2(a) = iter[D]
  BY <1>0
<1>2. IsFiniteSet(D) /\ Cuadrados(a) \in [D -> Int] /\ \A t \in D : Cuadrados(a)[t] = a[t] * a[t]
  BY VectorEntero
<1>2a. Suma(Cuadrados(a), {}) = 0 /\ \A s \in SUBSET D : \A x \in s : Suma(Cuadrados(a), s) = Cuadrados(a)[x] + Suma(Cuadrados(a), s \ {x})
  <2> HIDE DEF D, F, g, iter
  <2> QED
    BY <1>2, SumaDeUnoMas
<1>3. \A s \in SUBSET D : g[s] = F(g, s)
  <2> SUFFICES ASSUME NEW s \in SUBSET D PROVE g[s] = F(g, s)
    OBVIOUS
  <2>1. CASE s = {}
    BY <1>2a, <2>1
  <2>2. CASE s # {}
    <3>1. PICK x \in s : x = CHOOSE y \in s : TRUE
      BY <2>2
    <3>2. Suma(Cuadrados(a), s) = Cuadrados(a)[x] + Suma(Cuadrados(a), s \ {x})
      BY <1>2a, <3>1
    <3>3. s \ {x} \in SUBSET D
      OBVIOUS
    <3> QED
      BY <1>2, <2>2, <3>1, <3>2, <3>3
  <2> QED
    BY <2>1, <2>2
<1>4. g = [s \in SUBSET D |-> F(g, s)]
  BY <1>3, Zenon
<1>5. iter = [s \in SUBSET D |-> F(iter, s)]
  <2> HIDE DEF g, F, D
  <2> QED
    BY <1>4, Zenon
<1>6. \A s \in SUBSET D : iter[s] = F(iter, s)
  <2> HIDE DEF iter, F, D
  <2> QED
    BY <1>5, Zenon
<1> HIDE DEF iter, g
<1>7. Recursiva(iter, Cuadrados(a), D)
  <2>1. \A s \in SUBSET D : s = {} => iter[s] = 0
    BY <1>6
  <2>2. ASSUME NEW s \in SUBSET D, s # {} PROVE \E x \in s : iter[s] = Cuadrados(a)[x] + iter[s \ {x}]
    <3>1. PICK x \in s : x = CHOOSE y \in s : TRUE
      BY <2>2
    <3>2. iter[s] = a[x] * a[x] + iter[s \ {x}]
      BY <1>6, <2>2, <3>1
    <3> QED
      BY <1>2, <3>2
  <2> HIDE DEF D, F
  <2> QED
    BY <2>1, <2>2 DEF Recursiva
<1>8. iter[D] = Suma(Cuadrados(a), D)
  <2> HIDE DEF D, F
  <2> QED
    BY <1>2, <1>7, SumaPorRecursion
<1> QED
  BY <1>1, <1>8

(* The reference product adds the products over the ids of both.           *)
LEMMA ProductoEsSuma ==
  ASSUME NEW a, EsVector(a), NEW b, EsVector(b)
  PROVE  Producto(a, b) = Suma(Productos(a, b), DOMAIN a \cap DOMAIN b)
<1> DEFINE D == DOMAIN a \cap DOMAIN b
           P == Productos(a, b)
           F(f, s) == IF s = {} THEN 0
                      ELSE (a[CHOOSE x \in s : TRUE] * b[CHOOSE x \in s : TRUE]) + f[s \ {CHOOSE x \in s : TRUE}]
           g == [s \in SUBSET D |-> Suma(P, s)]
           iter == CHOOSE f : f = [s \in SUBSET D |-> F(f, s)]
<1>1. Producto(a, b) = iter[D]
  <2>1. Producto(a, b) = LET it[s \in SUBSET (DOMAIN a \cap DOMAIN b)] ==
                             IF s = {} THEN 0
                             ELSE LET x == CHOOSE y \in s : TRUE IN (a[x] * b[x]) + it[s \ {x}]
                         IN  it[DOMAIN a \cap DOMAIN b]
    BY DEF Producto, MapThenSumSet, MapThenFoldSet
  <2> QED
    BY <2>1
<1>2. IsFiniteSet(D) /\ P \in [D -> Int] /\ \A t \in D : P[t] = a[t] * b[t]
  BY VectorEntero DEF Productos
<1>3. /\ Suma(P, {}) = 0
      /\ \A s \in SUBSET D : \A x \in s : Suma(P, s) = P[x] + Suma(P, s \ {x})
  <2> HIDE DEF D, F, P, g, iter
  <2> QED
    BY <1>2, SumaDeUnoMas
<1>4. \A s \in SUBSET D : g[s] = F(g, s)
  <2> SUFFICES ASSUME NEW s \in SUBSET D PROVE g[s] = F(g, s)
    OBVIOUS
  <2> HIDE DEF P
  <2>1. CASE s = {}
    BY <1>3, <2>1
  <2>2. CASE s # {}
    <3>1. PICK x \in s : x = CHOOSE y \in s : TRUE
      BY <2>2
    <3>2. Suma(P, s) = P[x] + Suma(P, s \ {x}) /\ s \ {x} \in SUBSET D
      BY <1>3, <3>1
    <3> QED
      BY <1>2, <2>2, <3>1, <3>2
  <2> QED
    BY <2>1, <2>2
<1>5. g = [s \in SUBSET D |-> F(g, s)]
  BY <1>4, Zenon
<1>6. iter = [s \in SUBSET D |-> F(iter, s)]
  <2> HIDE DEF g, F, D
  <2> QED
    BY <1>5, Zenon
<1>7. \A s \in SUBSET D : iter[s] = F(iter, s)
  <2> HIDE DEF iter, F, D
  <2> QED
    BY <1>6, Zenon
<1> HIDE DEF iter, g, P
<1>8. Recursiva(iter, P, D)
  <2>1. \A s \in SUBSET D : s = {} => iter[s] = 0
    BY <1>7
  <2>2. ASSUME NEW s \in SUBSET D, s # {} PROVE \E x \in s : iter[s] = P[x] + iter[s \ {x}]
    <3>1. PICK x \in s : x = CHOOSE y \in s : TRUE
      BY <2>2
    <3>2. iter[s] = a[x] * b[x] + iter[s \ {x}]
      BY <1>7, <2>2, <3>1
    <3> QED
      BY <1>2, <3>2
  <2> HIDE DEF D, F
  <2> QED
    BY <2>1, <2>2 DEF Recursiva
<1>9. iter[D] = Suma(P, D)
  <2> HIDE DEF D, F
  <2> QED
    BY <1>2, <1>8, SumaPorRecursion
<1> QED
  BY <1>1, <1>9 DEF P

(* What moving one iterator, or both, leaves of the ids in both maps.      *)
Avance(r, s) ==
  /\ Min(r) \in r /\ Min(s) \in s
  /\ Min(r) = Min(s) => /\ Min(r) \in r \cap s
                        /\ (r \cap s) \ {Min(r)} = (r \ {Min(r)}) \cap (s \ {Min(s)})
  /\ Min(r) < Min(s) => (r \ {Min(r)}) \cap s = r \cap s
  /\ Min(s) < Min(r) => r \cap (s \ {Min(s)}) = r \cap s

(* Of two ids, the loop may drop the lower: what is left of the other map  *)
(* does not have it.                                                       *)
LEMMA PasoDelBucle ==
  ASSUME NEW r, NEW s, r \subseteq Nat, s \subseteq Nat, r # {}, s # {}
  PROVE  Avance(r, s)
<1> DEFINE m == Min(r)
           n == Min(s)
<1>1. m \in r /\ \A y \in r : m <= y
  <2> HIDE DEF m
  <2>1. m = CHOOSE x \in r : \A y \in r : x =< y
    BY DEF m, Min
  <2> QED
    BY <2>1, MinimoDeNaturales
<1>2. n \in s /\ \A y \in s : n <= y
  <2> HIDE DEF n
  <2>1. n = CHOOSE x \in s : \A y \in s : x =< y
    BY DEF n, Min
  <2> QED
    BY <2>1, MinimoDeNaturales
<1> HIDE DEF m, n
<1>3. m \in Nat /\ n \in Nat
  BY <1>1, <1>2
<1>4. m < n => m \notin s
  BY <1>2, <1>3
<1>5. n < m => n \notin r
  BY <1>1, <1>3
<1> QED
  BY <1>1, <1>2, <1>4, <1>5 DEF m, n, Avance

(* The loop of cosineRank over two maps in order adds exactly the terms of *)
(* the ids that both have.                                                 *)
LEMMA NumeradorEsSuma ==
  ASSUME NEW a, EsVector(a), NEW b, EsVector(b)
  PROVE  Numerador(a, b) = Suma(Productos(a, b), DOMAIN a \cap DOMAIN b)
<1> DEFINE A == DOMAIN a
           B == DOMAIN b
           C == A \cap B
           P == Productos(a, b)
           D == (SUBSET A) \X (SUBSET B)
           F(f, r) == IF r[1] = {} \/ r[2] = {} THEN 0
                      ELSE IF Min(r[1]) = Min(r[2])
                      THEN a[Min(r[1])] * b[Min(r[2])] + f[<<r[1] \ {Min(r[1])}, r[2] \ {Min(r[2])}>>]
                      ELSE IF Min(r[1]) < Min(r[2]) THEN f[<<r[1] \ {Min(r[1])}, r[2]>>]
                                                    ELSE f[<<r[1], r[2] \ {Min(r[2])}>>]
           g == [r \in D |-> Suma(P, r[1] \cap r[2])]
           num == CHOOSE f : f = [r \in D |-> F(f, r)]
<1>1. Numerador(a, b) = num[<<A, B>>]
  BY DEF Numerador
<1>2. IsFiniteSet(C) /\ P \in [C -> Int] /\ \A t \in C : P[t] = a[t] * b[t]
  BY VectorEntero DEF Productos
<1>3. A \subseteq Nat /\ B \subseteq Nat /\ IsFiniteSet(A) /\ IsFiniteSet(B)
  BY DEF EsVector
<1>4. /\ Suma(P, {}) = 0
      /\ \A s \in SUBSET C : \A x \in s : Suma(P, s) = P[x] + Suma(P, s \ {x})
  <2> HIDE DEF A, B, C, F, P, g, num
  <2> QED
    BY <1>2, SumaDeUnoMas
<1>5. ASSUME NEW r \in D PROVE g[r] = F(g, r)
  <2> DEFINE u == r[1]
             v == r[2]
             i == Min(u)
             j == Min(v)
  <2>1. u \in SUBSET A /\ v \in SUBSET B /\ r = <<u, v>>
    OBVIOUS
  <2>2. CASE u = {} \/ v = {}
    <3>1. u \cap v = {}
      BY <2>2
    <3> HIDE DEF P
    <3> QED
      BY <1>4, <2>2, <3>1
  <2>3. CASE u # {} /\ v # {}
    <3> HIDE DEF A, B, P, i, j, u, v
    <3>1. u \subseteq Nat /\ v \subseteq Nat
      BY <1>3, <2>1
    <3>2. /\ i \in u /\ j \in v
          /\ i = j => i \in u \cap v /\ (u \cap v) \ {i} = (u \ {i}) \cap (v \ {j})
          /\ i < j => (u \ {i}) \cap v = u \cap v
          /\ j < i => u \cap (v \ {j}) = u \cap v
      <4>1. Avance(u, v)
        BY <2>3, <3>1, PasoDelBucle
      <4> QED
        BY <4>1 DEF i, j, Avance
    <3>3. i \in Nat /\ j \in Nat
      BY <3>1, <3>2
    <3>4. <<u \ {i}, v \ {j}>> \in D /\ <<u \ {i}, v>> \in D /\ <<u, v \ {j}>> \in D
      BY <2>1
    <3>5. /\ g[<<u \ {i}, v \ {j}>>] = Suma(P, (u \ {i}) \cap (v \ {j}))
          /\ g[<<u \ {i}, v>>] = Suma(P, (u \ {i}) \cap v)
          /\ g[<<u, v \ {j}>>] = Suma(P, u \cap (v \ {j}))
          /\ g[r] = Suma(P, u \cap v)
      BY <2>1, <3>4
    <3>6. ASSUME i = j PROVE Suma(P, u \cap v) = a[i] * b[j] + g[<<u \ {i}, v \ {j}>>]
      <4>1. u \cap v \in SUBSET C
        BY <2>1
      <4>2. Suma(P, u \cap v) = P[i] + Suma(P, (u \cap v) \ {i})
        BY <1>4, <3>2, <3>6, <4>1
      <4>3. P[i] = a[i] * b[j]
        BY <1>2, <3>2, <3>6, <4>1
      <4> QED
        BY <3>2, <3>5, <3>6, <4>2, <4>3
    <3>7. F(g, r) = IF i = j THEN a[i] * b[j] + g[<<u \ {i}, v \ {j}>>]
                    ELSE IF i < j THEN g[<<u \ {i}, v>>] ELSE g[<<u, v \ {j}>>]
      <4> HIDE DEF g, D
      <4> QED
        BY <2>3 DEF u, v, i, j
    <3> HIDE DEF g, F, C, D, num
    <3>8. CASE i = j
      BY <3>5, <3>6, <3>7, <3>8
    <3>9. CASE i < j
      <4>1. i # j /\ (u \ {i}) \cap v = u \cap v
        BY <3>2, <3>3, <3>9
      <4> QED
        BY <3>5, <3>7, <3>9, <4>1
    <3>10. CASE j < i
      <4>1. i # j /\ ~ (i < j) /\ u \cap (v \ {j}) = u \cap v
        BY <3>2, <3>3, <3>10
      <4> QED
        BY <3>5, <3>7, <4>1
    <3> QED
      BY <3>3, <3>8, <3>9, <3>10
  <2> QED
    BY <2>2, <2>3
<1>6. g = [r \in D |-> F(g, r)]
  BY <1>5, Zenon
<1>7. num = [r \in D |-> F(num, r)]
  <2> HIDE DEF g, F, D
  <2> QED
    BY <1>6, Zenon
<1>8. \A r \in D : num[r] = F(num, r)
  <2> HIDE DEF num, F, D
  <2> QED
    BY <1>7, Zenon
<1> HIDE DEF num, g
<1>9. ASSUME NEW r \in D, num[r] # g[r] PROVE FALSE
  <2> DEFINE tam(s) == Cardinality(s[1]) + Cardinality(s[2])
             T == { k \in Nat : \E s \in D : num[s] # g[s] /\ tam(s) = k }
  <2>1. \A s \in D : IsFiniteSet(s[1]) /\ IsFiniteSet(s[2]) /\ Cardinality(s[1]) \in Nat /\ Cardinality(s[2]) \in Nat
    BY <1>3, FS_Subset, FS_CardinalityType
  <2>2. \A s \in D : tam(s) \in Nat
    <3> HIDE DEF D
    <3> QED
      BY <2>1
  <2>3. PICK k \in T : \A y \in T : k <= y
    <3>1. T \subseteq Nat /\ T # {}
      <4> HIDE DEF D, tam
      <4> QED
        BY <1>9, <2>2
    <3> HIDE DEF T
    <3> QED
      BY <3>1, MenorNatural
  <2>4. PICK s \in D : num[s] # g[s] /\ tam(s) = k
    OBVIOUS
  <2> DEFINE u == s[1]
             v == s[2]
             i == Min(u)
             j == Min(v)
  <2>5. u \in SUBSET A /\ v \in SUBSET B
    OBVIOUS
  <2>6. u # {} /\ v # {}
    BY <1>5, <1>8, <2>4
  <2>7. i \in u /\ j \in v
    <3> HIDE DEF i, j, u, v
    <3>1. u \subseteq Nat /\ v \subseteq Nat
      BY <1>3, <2>5
    <3> QED
      BY <2>6, <3>1, PasoDelBucle DEF i, j, Avance
  <2>8. /\ IsFiniteSet(u) /\ IsFiniteSet(v) /\ Cardinality(u) \in Nat /\ Cardinality(v) \in Nat
        /\ Cardinality(u) + Cardinality(v) = k
    <3> HIDE DEF D
    <3> QED
      BY <2>1, <2>4
  <2>9. /\ Cardinality(u \ {i}) = Cardinality(u) - 1 /\ Cardinality(u \ {i}) \in Nat
        /\ Cardinality(v \ {j}) = Cardinality(v) - 1 /\ Cardinality(v \ {j}) \in Nat
    <3> HIDE DEF i, j, u, v
    <3> QED
      BY <2>7, <2>8, FS_RemoveElement, FS_CardinalityType
  <2>10. \A w \in D : tam(w) < k => num[w] = g[w]
    <3> HIDE DEF tam, D
    <3> SUFFICES ASSUME NEW w \in D, tam(w) < k, num[w] # g[w] PROVE FALSE
      OBVIOUS
    <3>1. tam(w) \in T
      BY <2>2
    <3> QED
      BY <2>2, <2>3, <3>1
  <2>11. ASSUME NEW x \in SUBSET A, NEW y \in SUBSET B, Cardinality(x) + Cardinality(y) < k
         PROVE  num[<<x, y>>] = g[<<x, y>>]
    <3>1. <<x, y>> \in D
      OBVIOUS
    <3>2. tam(<<x, y>>) = Cardinality(x) + Cardinality(y)
      OBVIOUS
    <3> HIDE DEF tam, D
    <3> QED
      BY <2>10, <2>11, <3>1, <3>2
  <2>12. u \ {i} \in SUBSET A /\ v \ {j} \in SUBSET B
    BY <2>5
  <2> HIDE DEF i, j, u, v
  <2> HIDE DEF tam, T, D, F, C
  <2>13. /\ Cardinality(u \ {i}) + Cardinality(v \ {j}) < k
         /\ Cardinality(u \ {i}) + Cardinality(v) < k
         /\ Cardinality(u) + Cardinality(v \ {j}) < k
    BY <2>8, <2>9
  <2>14. /\ num[<<u \ {i}, v \ {j}>>] = g[<<u \ {i}, v \ {j}>>]
         /\ num[<<u \ {i}, v>>] = g[<<u \ {i}, v>>]
         /\ num[<<u, v \ {j}>>] = g[<<u, v \ {j}>>]
    BY <2>5, <2>11, <2>12, <2>13
  <2>15. F(num, s) = F(g, s)
    BY <2>14 DEF i, j, u, v, F
  <2> QED
    BY <1>5, <1>8, <2>4, <2>15
<1>10. num[<<A, B>>] = g[<<A, B>>] /\ g[<<A, B>>] = Suma(P, A \cap B)
  <2>1. <<A, B>> \in D
    OBVIOUS
  <2>2. g[<<A, B>>] = Suma(P, A \cap B)
    BY <2>1 DEF g
  <2> QED
    BY <1>9, <2>1, <2>2
<1> QED
  BY <1>1, <1>10

(* No rank is above 1: the inequality of Cauchy and Schwarz.               *)
LEMMA RankoHasta1 ==
  ASSUME NEW a, EsVector(a), NEW b, EsVector(b)
  PROVE  /\ Numerador(a, b) \in Int /\ Norma2(a) \in Nat /\ Norma2(b) \in Nat
         /\ Numerador(a, b) * Numerador(a, b) <= Norma2(a) * Norma2(b)
<1> DEFINE A == DOMAIN a
           B == DOMAIN b
           C == A \cap B
           P == Productos(a, b)
           Q == Cuadrados(a)
           R == Cuadrados(b)
           Bien(s) == Suma(P, s) * Suma(P, s) <= Suma(Q, s) * Suma(R, s)
           T == { n \in Nat : \E s \in SUBSET C : Cardinality(s) = n /\ ~ Bien(s) }
<1>1. /\ IsFiniteSet(A) /\ IsFiniteSet(B) /\ IsFiniteSet(C)
      /\ P \in [C -> Int] /\ Q \in [A -> Int] /\ R \in [B -> Int]
      /\ \A t \in A : a[t] \in Int /\ Q[t] = a[t] * a[t] /\ Q[t] >= 0
      /\ \A t \in B : b[t] \in Int /\ R[t] = b[t] * b[t] /\ R[t] >= 0
      /\ \A t \in C : P[t] = a[t] * b[t]
  <2>1. \A t \in C : P[t] = a[t] * b[t]
    BY DEF Productos
  <2> QED
    BY <2>1, VectorEntero
<1>2. C \in SUBSET A /\ C \in SUBSET B
  OBVIOUS
<1> HIDE DEF A, B, C, P, Q, R
<1>3. /\ Suma(P, {}) = 0 /\ Suma(Q, {}) = 0 /\ Suma(R, {}) = 0
      /\ \A s \in SUBSET C : Suma(P, s) \in Int /\ \A x \in s : Suma(P, s) = P[x] + Suma(P, s \ {x})
      /\ \A s \in SUBSET A : \A x \in s : Suma(Q, s) = Q[x] + Suma(Q, s \ {x})
      /\ \A s \in SUBSET B : \A x \in s : Suma(R, s) = R[x] + Suma(R, s \ {x})
  BY <1>1, SumaDeUnoMas
<1>4. /\ \A s \in SUBSET A : Suma(Q, s) \in Nat /\ Suma(Q, s) <= Suma(Q, A)
      /\ \A s \in SUBSET B : Suma(R, s) \in Nat /\ Suma(R, s) <= Suma(R, B)
  BY <1>1, SumaCrece
<1>5. Bien({})
  BY <1>3
<1>6. ASSUME NEW s \in SUBSET C, NEW t \in s, Bien(s \ {t}) PROVE Bien(s)
  <2> DEFINE d == s \ {t}
  <2>1. d \in SUBSET C /\ d \in SUBSET A /\ d \in SUBSET B /\ s \in SUBSET A /\ s \in SUBSET B
        /\ t \in C /\ t \in A /\ t \in B
    BY <1>2
  <2>2. Suma(P, s) = P[t] + Suma(P, d) /\ Suma(Q, s) = Q[t] + Suma(Q, d) /\ Suma(R, s) = R[t] + Suma(R, d)
    BY <1>3, <2>1
  <2>3. P[t] = a[t] * b[t] /\ Q[t] = a[t] * a[t] /\ R[t] = b[t] * b[t] /\ a[t] \in Int /\ b[t] \in Int
    BY <1>1, <2>1
  <2>4. Suma(P, d) \in Int /\ Suma(Q, d) \in Nat /\ Suma(R, d) \in Nat
    BY <1>3, <1>4, <2>1
  <2>5. Suma(P, d) * Suma(P, d) <= Suma(Q, d) * Suma(R, d)
    BY <1>6
  <2> HIDE DEF d
  <2>6. (Suma(P, d) + a[t] * b[t]) * (Suma(P, d) + a[t] * b[t])
          <= (Suma(Q, d) + a[t] * a[t]) * (Suma(R, d) + b[t] * b[t])
    BY <2>3, <2>4, <2>5, PasoDeCauchy
  <2>7. /\ Suma(P, s) = Suma(P, d) + a[t] * b[t]
        /\ Suma(Q, s) = Suma(Q, d) + a[t] * a[t]
        /\ Suma(R, s) = Suma(R, d) + b[t] * b[t]
    <3>1. \A i, j \in Int : i * j \in Int
      OBVIOUS
    <3> QED
      BY <2>2, <2>3, <2>4, <3>1
  <2> QED
    BY <2>6, <2>7
<1>7. Bien(C)
  <2> SUFFICES ASSUME ~ Bien(C) PROVE FALSE
    OBVIOUS
  <2> HIDE DEF Bien
  <2>1. \A s \in SUBSET C : IsFiniteSet(s) /\ Cardinality(s) \in Nat
    BY <1>1, FS_Subset, FS_CardinalityType
  <2>2. T \subseteq Nat /\ T # {}
    BY <2>1
  <2>3. PICK n \in T : \A y \in T : n <= y
    <3> HIDE DEF T
    <3> QED
      BY <2>2, MenorNatural
  <2>4. PICK s \in SUBSET C : Cardinality(s) = n /\ ~ Bien(s)
    OBVIOUS
  <2>5. PICK t \in s : TRUE
    BY <1>5, <2>4
  <2>6. Cardinality(s \ {t}) = n - 1 /\ s \ {t} \in SUBSET C /\ Cardinality(s \ {t}) \in Nat
    BY <2>1, <2>4, FS_RemoveElement
  <2>7. ~ (n - 1 \in T)
    BY <2>3, <2>6
  <2>8. Bien(s \ {t})
    BY <2>6, <2>7
  <2> QED
    BY <1>6, <2>4, <2>8
<1>8. /\ Suma(Q, C) \in Nat /\ Suma(R, C) \in Nat /\ Suma(Q, A) \in Nat /\ Suma(R, B) \in Nat
      /\ Suma(Q, C) <= Suma(Q, A) /\ Suma(R, C) <= Suma(R, B)
  BY <1>2, <1>4
<1>9. Suma(Q, C) * Suma(R, C) <= Suma(Q, A) * Suma(R, B)
  <2>1. \A i, j, m, n \in Nat : i <= m /\ j <= n => i * j <= m * n
    <3>1. \A i, j, k \in Nat : i <= j => i * k <= j * k /\ k * i <= k * j /\ i * k \in Nat
      OBVIOUS
    <3>2. \A i, j, m, n \in Nat : i <= m /\ j <= n => i * j <= m * j /\ m * j <= m * n /\ i * j \in Nat /\ m * j \in Nat /\ m * n \in Nat
      BY <3>1
    <3> QED
      BY <3>2
  <2> QED
    BY <1>8, <2>1
<1>10. Suma(P, C) \in Int /\ Suma(P, C) * Suma(P, C) <= Suma(Q, A) * Suma(R, B)
  <2>1. Suma(P, C) \in Int
    BY <1>3
  <2>2. \A i, j \in Int : i * j \in Int
    OBVIOUS
  <2>3. Suma(P, C) * Suma(P, C) \in Int /\ Suma(Q, C) * Suma(R, C) \in Int /\ Suma(Q, A) * Suma(R, B) \in Int
    BY <1>8, <2>1, <2>2
  <2>4. Suma(P, C) * Suma(P, C) <= Suma(Q, C) * Suma(R, C)
    BY <1>7
  <2> QED
    BY <1>9, <2>1, <2>3, <2>4
<1>11. Norma2(a) = Suma(Q, A) /\ Norma2(b) = Suma(R, B) /\ Numerador(a, b) = Suma(P, C)
  BY NormaEsSuma, NumeradorEsSuma DEF A, B, C, P, Q, R
<1> QED
  BY <1>8, <1>10, <1>11

(* What cosineRank's loop adds up is the product of the two vectors, and   *)
(* no rank is above 1, for any documents.                                  *)
THEOREM SiempreCosenoExacto == Spec => []CosenoExacto
<1>1. Inv => CosenoExacto
  <2> SUFFICES ASSUME Inv, NEW i \in 1..docCount, NEW j \in 1..docCount,
                      NEW a, a = entrada[i].terminos, NEW b, b = entrada[j].terminos
               PROVE  /\ Numerador(a, b) = Producto(a, b)
                      /\ Numerador(a, b) * Numerador(a, b) <= Norma2(a) * Norma2(b)
    BY DEF CosenoExacto
  <2>1. EsVector(a) /\ EsVector(b)
    BY EntradasOrdenadas DEF Inv, docCount
  <2>2. Numerador(a, b) = Producto(a, b)
    <3>1. Numerador(a, b) = Suma(Productos(a, b), DOMAIN a \cap DOMAIN b)
      BY <2>1, NumeradorEsSuma
    <3>2. Producto(a, b) = Suma(Productos(a, b), DOMAIN a \cap DOMAIN b)
      BY <2>1, ProductoEsSuma
    <3> QED
      BY <3>1, <3>2
  <2> QED
    BY <2>1, <2>2, RankoHasta1
<1> QED
  BY <1>1, InvSiempre, PTL
=============================================================================
