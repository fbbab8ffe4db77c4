--------------------------- MODULE BusquedaProofs ---------------------------
(***************************************************************************)
(* For any documents and any text: the answer of a search is in order of   *)
(* relevance, what is looked up is what the text says, and what is         *)
(* answered are the documents that have it.                                *)
(*                                                                         *)
(* The order comes first.  The results are put in their place as their     *)
(* documents are ranked, and what is answered are paths, read later from   *)
(* documents.dat by a binary search.  So it rests on three things: the     *)
(* path answered is the one of the id (BuscarPorIdHalla), the document     *)
(* ranked is the one the leader's offset points at, whose vector is the    *)
(* one its id was given (Archivos, with what LideresProofs says of the     *)
(* offsets), and every result is inserted where its rank belongs           *)
(* (Hallados).  InvBusqueda is the three together; none is inductive       *)
(* alone.                                                                  *)
(*                                                                         *)
(* Then the text.  tokenize cuts it where Trozo says the pieces are        *)
(* (TokenizeDaTrozos), and processToken reads of a piece what Entendida    *)
(* asks for or refuses it (TokenEntendido).  Then the words: as they are   *)
(* looked up, the two filters and the weights hold what the words so far   *)
(* say of each id, the last weight winning (Anotado).  With all of them    *)
(* looked up, a document ranks above 0 exactly when it answers             *)
(* (RankeaSiResponde), and what InvBusqueda says of the documents that     *)
(* were looked at gives the answer.  In a search by leaders the leader     *)
(* kept is one that none of those compared ranks above (Mejor), which      *)
(* needs that ranks, compared by cross multiplication, are ordered.        *)
(***************************************************************************)
EXTENDS Busqueda, LideresProofs

-----------------------------------------------------------------------------
(* The path of an answer.                                                  *)

(* What the binary search over documents.dat is left with: the record of   *)
(* the id, when it is in the stretch; the end it ran to, when it is not.   *)
Dejado(docId, m, M, leido) ==
  IF m > M THEN leido
  ELSE IF docId - 1 \in m..M THEN docId
  ELSE IF docId > M + 1 THEN M + 1 ELSE m + 1

(* One probe leaves the same to be found in the half that is kept.         *)
LEMMA MitadDeDocumentos ==
  ASSUME NEW docId \in Int, NEW m \in Int, NEW M \in Int, m <= M, NEW p, p = (M + m) \div 2, NEW leido
  PROVE  /\ p \in m..M
         /\ p + 1 = docId => Dejado(docId, m, M, leido) = p + 1
         /\ docId > p + 1 => Dejado(docId, m, M, leido) = Dejado(docId, p + 1, M, p + 1)
         /\ docId < p + 1 => Dejado(docId, m, M, leido) = Dejado(docId, m, p - 1, p + 1)
<1>1. p \in m..M
  OBVIOUS
<1>2. docId > p + 1 => Dejado(docId, m, M, leido) = Dejado(docId, p + 1, M, p + 1)
  BY <1>1 DEF Dejado
<1>3. docId < p + 1 => Dejado(docId, m, M, leido) = Dejado(docId, m, p - 1, p + 1)
  BY <1>1 DEF Dejado
<1> QED
  BY <1>1, <1>2, <1>3 DEF Dejado

(* buscarPorId finds the record of every document there is.                *)
LEMMA BuscarPorIdHalla ==
  ASSUME docCount \in Nat, NEW docId \in 1..docCount
  PROVE  buscarPorId(docId) = docId
<1> DEFINE n == docCount
           D == (0..n) \X (-1..n - 1) \X (0..n)
           medio(r) == (r[2] + r[1]) \div 2
           F(f, r) == IF r[1] > r[2] THEN r[3]
                      ELSE IF medio(r) + 1 = docId THEN medio(r) + 1
                      ELSE IF docId > medio(r) + 1 THEN f[<<medio(r) + 1, r[2], medio(r) + 1>>]
                      ELSE f[<<r[1], medio(r) - 1, medio(r) + 1>>]
           g == [r \in D |-> Dejado(docId, r[1], r[2], r[3])]
           impl == CHOOSE f : f = [r \in D |-> F(f, r)]
<1>1. buscarPorId(docId) = impl[<<0, n - 1, 0>>]
  BY DEF buscarPorId
<1>0. n \in Nat /\ docId \in 1..n
  OBVIOUS
<1> HIDE DEF n
<1>2. ASSUME NEW r \in D
      PROVE  r[1] \in 0..n /\ r[2] \in -1..n - 1 /\ r[1] \in Int /\ r[2] \in Int
  BY <1>0
<1>3. ASSUME NEW r \in D, r[1] <= r[2]
      PROVE  /\ medio(r) \in r[1]..r[2]
             /\ <<medio(r) + 1, r[2], medio(r) + 1>> \in D
             /\ <<r[1], medio(r) - 1, medio(r) + 1>> \in D
  BY <1>0, <1>3
<1>4. \A r \in D : g[r] = F(g, r)
  <2> SUFFICES ASSUME NEW r \in D PROVE g[r] = F(g, r)
    OBVIOUS
  <2>1. CASE r[1] > r[2]
    BY <1>2, <2>1 DEF Dejado
  <2>2. CASE r[1] <= r[2]
    <3> DEFINE p == medio(r)
               m == r[1]
               M == r[2]
    <3>1. /\ p \in m..M /\ <<p + 1, M, p + 1>> \in D /\ <<m, p - 1, p + 1>> \in D
          /\ m \in Int /\ M \in Int /\ m <= M /\ p = (M + m) \div 2
      BY <1>2, <1>3, <2>2
    <3>2. /\ g[<<p + 1, M, p + 1>>] = Dejado(docId, p + 1, M, p + 1)
          /\ g[<<m, p - 1, p + 1>>] = Dejado(docId, m, p - 1, p + 1)
          /\ g[r] = Dejado(docId, m, M, r[3])
      BY <3>1
    <3>3. F(g, r) = IF m > M THEN r[3]
                    ELSE IF p + 1 = docId THEN p + 1
                    ELSE IF docId > p + 1 THEN g[<<p + 1, M, p + 1>>] ELSE g[<<m, p - 1, p + 1>>]
      OBVIOUS
    <3> HIDE DEF p, m, M, g, F, D, medio
    <3>4. /\ p + 1 = docId => Dejado(docId, m, M, r[3]) = p + 1
          /\ docId > p + 1 => Dejado(docId, m, M, r[3]) = Dejado(docId, p + 1, M, p + 1)
          /\ docId < p + 1 => Dejado(docId, m, M, r[3]) = Dejado(docId, m, p - 1, p + 1)
      <4>1. docId \in Int /\ m \in Int /\ M \in Int /\ m <= M /\ p = (M + m) \div 2
        BY <1>0, <3>1
      <4> QED
        BY <4>1, MitadDeDocumentos
    <3>5. ~ (m > M) /\ p \in Int /\ docId \in Int
      BY <1>0, <3>1
    <3> QED
      BY <3>2, <3>3, <3>4, <3>5
  <2> QED
    BY <1>2, <2>1, <2>2
<1>5. g = [r \in D |-> F(g, r)]
  BY <1>4, Zenon
<1>6. impl = [r \in D |-> F(impl, r)]
  <2> HIDE DEF g, F, D
  <2> QED
    BY <1>5, Zenon
<1>7. \A r \in D : impl[r] = F(impl, r)
  <2> HIDE DEF impl, F, D
  <2> QED
    BY <1>6, Zenon
<1>8. \A r \in D : impl[r] = g[r]
  <2> SUFFICES ASSUME NEW r \in D, impl[r] # g[r] PROVE FALSE
    OBVIOUS
  <2> DEFINE largo(s) == s[2] - s[1] + 1
             T == { k \in Nat : \E s \in D : impl[s] # g[s] /\ s[1] <= s[2] /\ largo(s) = k }
  <2> HIDE DEF impl, g
  <2>1. \A s \in D : s[1] > s[2] => impl[s] = g[s]
    BY <1>4, <1>7
  <2>2. \A s \in D : s[1] <= s[2] => largo(s) \in Nat
    BY <1>2
  <2>3. T \subseteq Nat /\ T # {}
    <3>1. r[1] <= r[2]
      BY <1>2, <2>1
    <3> QED
      BY <2>2, <3>1
  <2>4. PICK k \in T : \A j \in T : k <= j
    <3> HIDE DEF T
    <3> QED
      BY <2>3, MenorNatural
  <2>5. PICK s \in D : impl[s] # g[s] /\ s[1] <= s[2] /\ largo(s) = k
    OBVIOUS
  <2> DEFINE a == <<medio(s) + 1, s[2], medio(s) + 1>>
             b == <<s[1], medio(s) - 1, medio(s) + 1>>
  <2>6. a \in D /\ b \in D /\ (a[1] <= a[2] => largo(a) < k) /\ (b[1] <= b[2] => largo(b) < k)
    <3>1. s[1] \in Int /\ s[2] \in Int /\ k = s[2] - s[1] + 1
      BY <1>2, <2>5
    <3>2. medio(s) \in s[1]..s[2] /\ a \in D /\ b \in D
      <4> HIDE DEF D, medio
      <4> QED
        BY <1>3, <2>5
    <3>3. a[1] = medio(s) + 1 /\ a[2] = s[2] /\ b[1] = s[1] /\ b[2] = medio(s) - 1
      OBVIOUS
    <3>4. (a[1] <= a[2] => a[2] - a[1] + 1 < k) /\ (b[1] <= b[2] => b[2] - b[1] + 1 < k)
      <4>1. \A i, j \in Int : \A q \in i..j : j - (q + 1) + 1 < j - i + 1 /\ (q - 1) - i + 1 < j - i + 1
        OBVIOUS
      <4> HIDE DEF a, b, medio
      <4>2. s[2] - (medio(s) + 1) + 1 < k /\ (medio(s) - 1) - s[1] + 1 < k
        BY <3>1, <3>2, <4>1
      <4> QED
        BY <3>3, <4>2
    <3> QED
      BY <3>2, <3>4
  <2>7. \A c \in D : (c[1] <= c[2] => largo(c) < k) => impl[c] = g[c]
    <3> SUFFICES ASSUME NEW c \in D, c[1] <= c[2] => largo(c) < k, impl[c] # g[c] PROVE FALSE
      OBVIOUS
    <3>1. c[1] \in Int /\ c[2] \in Int
      BY <1>2
    <3>2. c[1] <= c[2]
      BY <2>1, <3>1
    <3>3. largo(c) \in T
      BY <2>2, <3>2
    <3>4. k <= largo(c)
      <4> HIDE DEF T, largo
      <4> QED
        BY <2>4, <3>3
    <3>5. k \in Int /\ largo(c) \in Int
      BY <3>1
    <3> QED
      BY <3>2, <3>4, <3>5
  <2>8. impl[a] = g[a] /\ impl[b] = g[b]
    BY <2>6, <2>7
  <2>9. F(impl, s) = F(g, s)
    BY <2>8
  <2> QED
    BY <1>4, <1>7, <2>5, <2>9
<1>9. <<0, n - 1, 0>> \in D
  BY <1>0
<1>10. g[<<0, n - 1, 0>>] = docId
  <2>1. g[<<0, n - 1, 0>>] = Dejado(docId, 0, n - 1, 0)
    BY <1>9
  <2> QED
    BY <1>0, <2>1 DEF Dejado
<1> HIDE DEF impl, g
<1> QED
  BY <1>1, <1>8, <1>9, <1>10
-----------------------------------------------------------------------------
(* The index that is searched.                                             *)

(* The ids of a map, in order: each of them, once.                         *)
LEMMA OrdenDeIds ==
  ASSUME NEW S, S \subseteq Nat, IsFiniteSet(S)
  PROVE  /\ Len(EnOrden(S)) = Cardinality(S) /\ Cardinality(S) \in Nat
         /\ \A i \in 1..Cardinality(S) : EnOrden(S)[i] \in S
         /\ \A i, j \in 1..Cardinality(S) : i # j => EnOrden(S)[i] # EnOrden(S)[j]
         /\ \A l \in S : \E i \in 1..Cardinality(S) : EnOrden(S)[i] = l
         /\ \A i \in 1..Cardinality(S) : \A l \in S :
              EnOrden(S)[i] = l <=> Cardinality({ m \in S : m <= l }) = i
<1> DEFINE n == Cardinality(S)
           hasta(l) == { m \in S : m <= l }
           r == [l \in S |-> Cardinality(hasta(l))]
<1>1. n \in Nat
  BY FS_CardinalityType
<1>2. ASSUME NEW l \in S PROVE hasta(l) \in SUBSET S /\ IsFiniteSet(hasta(l)) /\ r[l] \in 1..n
  <2>1. hasta(l) \in SUBSET S /\ l \in hasta(l)
    OBVIOUS
  <2> HIDE DEF hasta
  <2>2. IsFiniteSet(hasta(l)) /\ Cardinality(hasta(l)) <= n
    BY <2>1, FS_Subset
  <2>3. Cardinality(hasta(l)) # 0 /\ Cardinality(hasta(l)) \in Nat
    BY <2>1, <2>2, FS_EmptySet, FS_CardinalityType
  <2>4. r[l] = Cardinality(hasta(l))
    OBVIOUS
  <2> QED
    BY <1>1, <2>1, <2>2, <2>3, <2>4
<1>3. \A l, m \in S : l < m => r[l] < r[m]
  <2> SUFFICES ASSUME NEW l \in S, NEW m \in S, l < m PROVE r[l] < r[m]
    OBVIOUS
  <2>1. hasta(l) \in SUBSET hasta(m) /\ m \in hasta(m) /\ m \notin hasta(l)
    <3>1. l \in Nat /\ m \in Nat /\ \A x \in S : x \in Nat
      OBVIOUS
    <3>2. m <= m /\ ~ (m <= l) /\ \A x \in S : x <= l => x <= m
      BY <3>1
    <3> QED
      BY <3>2
  <2>2. IsFiniteSet(hasta(l)) /\ IsFiniteSet(hasta(m))
    BY <1>2
  <2>3. r[l] = Cardinality(hasta(l)) /\ r[m] = Cardinality(hasta(m))
    OBVIOUS
  <2> HIDE DEF hasta, r
  <2>4. Cardinality(hasta(l)) <= Cardinality(hasta(m)) /\ Cardinality(hasta(l)) # Cardinality(hasta(m))
    BY <2>1, <2>2, FS_Subset
  <2>5. Cardinality(hasta(l)) \in Nat /\ Cardinality(hasta(m)) \in Nat
    BY <2>2, FS_CardinalityType
  <2> QED
    BY <2>3, <2>4, <2>5
<1>4. \A l \in S : r[l] \in 1..n
  BY <1>2
<1>5. r \in [S -> 1..n] /\ \A l, m \in S : l # m => r[l] # r[m]
  <2>1. r \in [S -> 1..n]
    BY <1>4
  <2> HIDE DEF r, n
  <2>2. \A l, m \in S : l # m => r[l] # r[m]
    <3>1. \A l, m \in S : l # m => l < m \/ m < l
      OBVIOUS
    <3>2. \A l \in S : r[l] \in Int
      BY <1>4
    <3> QED
      BY <1>3, <3>1, <3>2
  <2> QED
    BY <2>1, <2>2
<1>6. \A i \in 1..n : \E l \in S : r[l] = i
  <2> HIDE DEF r
  <2>1. r \in Injection(S, 1..n)
    BY <1>5 DEF Injection, IsInjective
  <2>2. IsFiniteSet(1..n) /\ Cardinality(1..n) = n
    BY <1>1, FS_Interval
  <2>3. r \in Surjection(S, 1..n)
    BY <2>1, <2>2, FS_Injection
  <2> QED
    BY <2>3 DEF Surjection
<1>7. EnOrden(S) = [i \in 1..n |-> CHOOSE l \in S : Cardinality({ m \in S : m <= l }) = i]
  BY DEF EnOrden
<1>8. \A i \in 1..n : EnOrden(S)[i] \in S /\ r[EnOrden(S)[i]] = i
  <2> SUFFICES ASSUME NEW i \in 1..n PROVE EnOrden(S)[i] \in S /\ r[EnOrden(S)[i]] = i
    OBVIOUS
  <2>1. \A l \in S : r[l] = Cardinality({ m \in S : m <= l })
    OBVIOUS
  <2> HIDE DEF r
  <2>2. \E l \in S : Cardinality({ m \in S : m <= l }) = i
    BY <1>6, <2>1
  <2>3. EnOrden(S)[i] = CHOOSE l \in S : Cardinality({ m \in S : m <= l }) = i
    BY <1>7
  <2>4. EnOrden(S)[i] \in S /\ Cardinality({ m \in S : m <= EnOrden(S)[i] }) = i
    BY <2>2, <2>3, Zenon
  <2> QED
    BY <2>1, <2>4
<1>12. \A i \in 1..n : \A l \in S : EnOrden(S)[i] = l <=> Cardinality({ m \in S : m <= l }) = i
  <2>1. \A l \in S : r[l] = Cardinality({ m \in S : m <= l })
    OBVIOUS
  <2> HIDE DEF r
  <2>2. \A i \in 1..n : \A l \in S : EnOrden(S)[i] = l <=> r[l] = i
    BY <1>5, <1>8
  <2> QED
    BY <2>1, <2>2
<1> HIDE DEF r
<1>9. \A l \in S : \E i \in 1..n : EnOrden(S)[i] = l
  BY <1>4, <1>5, <1>8
<1>10. \A i, j \in 1..n : i # j => EnOrden(S)[i] # EnOrden(S)[j]
  BY <1>8
<1>11. Len(EnOrden(S)) = n
  BY <1>1, <1>7
<1> QED
  BY <1>1, <1>8, <1>9, <1>10, <1>11, <1>12

(* What the files hold, once written, is the documents read.               *)
IdsDistintos(archivo) == \A i, j \in 1..Len(archivo) : i # j => archivo[i].id # archivo[j].id
Archivos ==
  /\ \A l \in DOMAIN leaders : \E d \in Registros(entrada) : d.id = l /\ d.terminos = leaders[l].terminos
  /\ IdsDistintos(followers)
  /\ IdsDistintos(withoutLeader)
  /\ aLeaders # <<>> => leidos = docCount /\ docCount > 0 /\ aLeaders = Escritos

InvLideres == Inv /\ Archivos

LEMMA EscritosDeLeaders ==
  ASSUME leaders' = leaders
  PROVE  Escritos' = Escritos
BY DEF Escritos

(* A document whose id no record of the file has.                          *)
LEMMA DistintosConUnoMas ==
  ASSUME NEW S, NEW archivo \in Seq(S), NEW d \in S, IdsDistintos(archivo), d.id \notin IdsDe(archivo)
  PROVE  IdsDistintos(Append(archivo, d))
<1>1. /\ Len(Append(archivo, d)) = Len(archivo) + 1 /\ Len(archivo) \in Nat
      /\ \A i \in 1..Len(archivo) : Append(archivo, d)[i] = archivo[i]
      /\ Append(archivo, d)[Len(archivo) + 1] = d
  OBVIOUS
<1>2. \A i \in 1..Len(archivo) : archivo[i].id # d.id
  BY DEF IdsDe
<1>3. \A i \in 1..(Len(archivo) + 1) : i \in 1..Len(archivo) \/ i = Len(archivo) + 1
  BY <1>1
<1> QED
  BY <1>1, <1>2, <1>3 DEF IdsDistintos

LEMMA InitLideres == Init => InvLideres
<1> SUFFICES ASSUME Init PROVE Archivos
  BY InitInv DEF InvLideres
<1> QED
  BY DEF Init, Archivos, IdsDistintos

LEMMA NextLideres ==
  ASSUME InvLideres, [Next]_vars
  PROVE  InvLideres'
<1> USE DEF InvLideres
<1>1. Inv'
  BY NextInv
<1>2. ASSUME Leer
      PROVE  /\ aLeaders = <<>> /\ aLeaders' = <<>> /\ entrada' = entrada
             /\ data \in Registros(entrada) /\ Registros(entrada)' = Registros(entrada)
             /\ data.id \notin DOMAIN leaders /\ data.id \notin IdsDe(followers) /\ data.id \notin IdsDe(withoutLeader)
             /\ followers \in Seq(Registros(entrada)) /\ withoutLeader \in Seq(Registros(entrada))
  <2>1. leidos < docCount /\ data \in Registros(entrada) /\ data.id \notin Leidas /\ entrada' = entrada
    BY <1>2, LeerUno DEF Inv, TypeOK
  <2>2. docCount \in Nat /\ leidos \in Int
    BY <1>2, LeerUno DEF Inv, TypeOK
  <2>3. aLeaders = <<>>
    BY <2>1, <2>2 DEF Archivos
  <2> QED
    BY <1>2, <2>1, <2>3 DEF Leer, Inv, UnSoloLugar, TypeOK, Registros
<1>3. ASSUME Leer, HacerLider PROVE Archivos'
  <2>1. UNCHANGED <<followers, withoutLeader>> /\ aLeaders' = <<>>
    BY <1>2, <1>3 DEF HacerLider
  <2>2. \A l \in DOMAIN leaders' : \E d \in Registros(entrada) : d.id = l /\ d.terminos = leaders'[l].terminos
    <3>0. PICK d : d = data
      OBVIOUS
    <3>1. leaders' = [l \in DOMAIN leaders \cup {d.id} |->
             IF l = d.id THEN [terminos |-> d.terminos, seguidores |-> [s \in {} |-> 0]] ELSE leaders[l]]
      BY <1>3, <3>0 DEF HacerLider
    <3>2. d \in Registros(entrada)
      BY <1>2, <1>3, <3>0
    <3>3. \A l \in DOMAIN leaders : \E e \in Registros(entrada) : e.id = l /\ e.terminos = leaders[l].terminos
      BY DEF Archivos
    <3>4. leaders'[d.id].terminos = d.terminos /\ DOMAIN leaders' = DOMAIN leaders \cup {d.id}
      BY <3>1
    <3>5. \A l \in DOMAIN leaders : l # d.id => leaders'[l] = leaders[l]
      BY <3>1
    <3> QED
      BY <3>2, <3>3, <3>4, <3>5
  <2> QED
    BY <1>2, <1>3, <2>1, <2>2 DEF Archivos, IdsDistintos
<1>4. ASSUME Leer, NEW l \in DOMAIN leaders, HacerSeguidor(l) PROVE Archivos'
  <2>1. followers' = Append(followers, data) /\ UNCHANGED withoutLeader /\ aLeaders' = <<>>
    BY <1>2, <1>4 DEF HacerSeguidor
  <2>2. IdsDistintos(followers')
    BY <1>2, <1>4, <2>1, DistintosConUnoMas DEF Archivos
  <2>3. DOMAIN leaders' = DOMAIN leaders /\ \A m \in DOMAIN leaders : leaders'[m].terminos = leaders[m].terminos
    <3>0. PICK nuevos : leaders' = [leaders EXCEPT ![l].seguidores = nuevos]
      BY <1>4 DEF HacerSeguidor
    <3>1. leaders = [m \in DOMAIN leaders |-> leaders[m]]
      BY DEF Inv
    <3>2. leaders' = [m \in DOMAIN leaders |-> IF m = l THEN [leaders[l] EXCEPT !.seguidores = nuevos] ELSE leaders[m]]
      BY <3>0, <3>1
    <3>3. [leaders[l] EXCEPT !.seguidores = nuevos].terminos = leaders[l].terminos
      <4>1. leaders[l] = [terminos |-> leaders[l].terminos, seguidores |-> leaders[l].seguidores]
        BY DEF Inv, Fichas
      <4> QED
        BY <4>1
    <3> QED
      BY <3>2, <3>3
  <2>4. \A m \in DOMAIN leaders' : \E d \in Registros(entrada) : d.id = m /\ d.terminos = leaders'[m].terminos
    BY <2>3 DEF Archivos
  <2> QED
    BY <1>2, <1>4, <2>1, <2>2, <2>4 DEF Archivos, IdsDistintos
<1>5. CASE PrimerLider
  BY <1>1, <1>3, <1>5 DEF PrimerLider
<1>6. CASE SeguidorNatural
  <2>1. Leer /\ \E l \in DOMAIN leaders : HacerSeguidor(l)
    BY <1>6 DEF SeguidorNatural, Naturales
  <2> QED
    BY <1>1, <1>4, <2>1
<1>7. CASE NuevoLider
  BY <1>1, <1>3, <1>7 DEF NuevoLider
<1>8. CASE SeguidorForzado
  <2>1. Leer /\ \E l \in DOMAIN leaders : HacerSeguidor(l)
    BY <1>8 DEF SeguidorForzado, Mejores, ConLugar
  <2> QED
    BY <1>1, <1>4, <2>1
<1>9. CASE SinLider
  <2>1. Leer /\ withoutLeader' = Append(withoutLeader, data) /\ UNCHANGED <<leaders, followers>>
    BY <1>9 DEF SinLider
  <2>2. IdsDistintos(withoutLeader')
    BY <1>2, <2>1, DistintosConUnoMas DEF Archivos
  <2> QED
    BY <1>1, <1>2, <2>1, <2>2 DEF Archivos, IdsDistintos
<1>10. CASE Bajar
  <2>1. /\ leidos = docCount /\ docCount > 0 /\ aLeaders' = Escritos
        /\ UNCHANGED <<entrada, leidos, leaders, followers, withoutLeader>>
    BY <1>10 DEF Bajar
  <2>2. Escritos' = Escritos /\ docCount' = docCount
    BY <2>1, EscritosDeLeaders DEF docCount
  <2> QED
    BY <1>1, <2>1, <2>2 DEF Archivos, IdsDistintos, Registros
<1>11. CASE UNCHANGED vars
  <2>1. Escritos' = Escritos /\ docCount' = docCount
    BY <1>11, EscritosDeLeaders DEF docCount, vars
  <2> QED
    BY <1>1, <1>11, <2>1 DEF Archivos, IdsDistintos, Registros, vars
<1> QED
  BY <1>5, <1>6, <1>7, <1>8, <1>9, <1>10, <1>11 DEF Next

(* The document of a record is itself.                                     *)
LEMMA DocDe ==
  ASSUME Inv, NEW d \in Registros(entrada)
  PROVE  /\ Doc(d.id) = d /\ d.id \in Nat \ {0} /\ EsVector(d.terminos)
<1>1. PICK i \in 1..Len(entrada) : d = entrada[i]
  BY DEF Registros
<1>2. Len(entrada) \in Nat /\ entrada \in Entradas
  BY EntradasOrdenadas DEF Inv
<1>3. d.id \in Nat \ {0} /\ EsVector(d.terminos)
  BY <1>1, <1>2, EntradasOrdenadas
<1>4. ASSUME NEW e \in Registros(entrada), e.id = d.id PROVE e = d
  <2>1. PICK j \in 1..Len(entrada) : e = entrada[j]
    BY DEF Registros
  <2>2. ~ (i < j) /\ ~ (j < i)
    BY <1>1, <1>2, <1>4, <2>1, EntradasOrdenadas
  <2>3. i = j
    BY <1>2, <2>2
  <2> QED
    BY <1>1, <2>1, <2>3
<1> QED
  BY <1>3, <1>4 DEF Doc

(* leaders.dat, once written, has each leader once, with what the document *)
(* and the leader in memory have.                                          *)
LEMMA LideresEscritos ==
  ASSUME InvLideres, Indexado
  PROVE  /\ Len(aLeaders) \in Nat
         /\ \A i \in 1..Len(aLeaders) :
              /\ aLeaders[i].id \in DOMAIN leaders
              /\ Doc(aLeaders[i].id) \in Registros(entrada) /\ Doc(aLeaders[i].id).id = aLeaders[i].id
              /\ aLeaders[i].terminos = Doc(aLeaders[i].id).terminos
              /\ aLeaders[i].seguidores = leaders[aLeaders[i].id].seguidores
         /\ IdsDistintos(aLeaders)
         /\ IdsDe(aLeaders) = DOMAIN leaders
<1> DEFINE L == DOMAIN leaders
           n == Cardinality(L)
<1>1. L \subseteq Nat /\ IsFiniteSet(L)
  <2>1. L \subseteq Leidas /\ IsFiniteSet(Leidas)
    BY CuantasLeidas DEF InvLideres, Inv, UnSoloLugar
  <2> QED
    BY <2>1, FS_Subset DEF InvLideres, Inv, TypeOK
<1>2. docCount \in Nat
  BY EntradasOrdenadas DEF InvLideres, Inv, docCount
<1>3. CASE docCount = 0
  <2>1. aLeaders = <<>>
    BY <1>3 DEF InvLideres, Archivos
  <2>2. Leidas = {}
    BY <1>3 DEF Indexado, Leidas
  <2>3. L = {}
    BY <2>2 DEF InvLideres, Inv, UnSoloLugar
  <2> QED
    BY <2>1, <2>3 DEF IdsDistintos, IdsDe
<1>4. CASE docCount # 0
  <2>1. aLeaders = Escritos
    BY <1>2, <1>4 DEF Indexado, InvLideres, Archivos
  <2>2. /\ n \in Nat
        /\ \A i \in 1..n : EnOrden(L)[i] \in L
        /\ \A i, j \in 1..n : i # j => EnOrden(L)[i] # EnOrden(L)[j]
        /\ \A l \in L : \E i \in 1..n : EnOrden(L)[i] = l
    <3> HIDE DEF L
    <3> QED
      BY <1>1, OrdenDeIds
  <2>3. /\ Len(aLeaders) = n
        /\ \A i \in 1..n : /\ aLeaders[i].id = EnOrden(L)[i]
                           /\ aLeaders[i].terminos = leaders[EnOrden(L)[i]].terminos
                           /\ aLeaders[i].seguidores = leaders[EnOrden(L)[i]].seguidores
    BY <2>1, <2>2 DEF Escritos
  <2>4. ASSUME NEW l \in L
        PROVE  Doc(l) \in Registros(entrada) /\ Doc(l).id = l /\ Doc(l).terminos = leaders[l].terminos
    <3>1. PICK d \in Registros(entrada) : d.id = l /\ d.terminos = leaders[l].terminos
      BY DEF InvLideres, Archivos
    <3>2. Doc(l) = d
      BY <3>1, DocDe DEF InvLideres
    <3> QED
      BY <3>1, <3>2
  <2> HIDE DEF L, n
  <2>5. IdsDistintos(aLeaders)
    BY <2>2, <2>3 DEF IdsDistintos
  <2>6. IdsDe(aLeaders) = L
    BY <2>2, <2>3 DEF IdsDe
  <2> QED
    BY <2>2, <2>3, <2>4, <2>5, <2>6 DEF L
<1> QED
  BY <1>3, <1>4

-----------------------------------------------------------------------------
(* The answers.                                                            *)

(* The files are opened.                                                   *)
Abierta == DOMAIN queryPair # {} \/ mustExcludeNotInLex

(* Where a search may be, and what it keeps there.                         *)
Estado ==
  /\ useLeader \in BOOLEAN
  /\ paso \in {"espera", "error", "consulta", "lideres", "seguidores", "sinLider", "fin"}
  /\ paso # "espera" => Indexado
  /\ paso \in {"espera", "error", "consulta"} => pos = 0 /\ best = 0 /\ encontrados = <<>>
  /\ paso = "lideres" => /\ pos \in 0..Len(aLeaders) /\ best \in 0..pos
                         /\ ~ useLeader => best = 0
  /\ paso = "seguidores" => /\ pos \in 0..Len(Offsets) /\ best \in 0..Len(aLeaders)
                            /\ useLeader => best \in 1..Len(aLeaders) /\ ~ (bestCos.num < 0)
  /\ paso = "sinLider" => pos \in 0..Len(withoutLeader) /\ best \in 0..Len(aLeaders)
  /\ paso \in {"lideres", "seguidores", "sinLider"} => Abierta
  /\ result = IF paso = "fin" THEN [i \in 1..Len(encontrados) |-> encontrados[i].id] ELSE <<>>

(* The documents of the groups that were gone through before the last file.*)
DelLider(l) == {l} \cup SeguidoresDe(l)
Agrupados ==
  IF ~ useLeader THEN DOMAIN leaders \cup IdsDe(followers)
  ELSE IF bestCos.num < 0 THEN {} ELSE DelLider(aLeaders[best].id)

(* The documents that were looked at to be answered.                       *)
Vistos ==
  CASE paso = "lideres" -> IF useLeader THEN {} ELSE { aLeaders[i].id : i \in 1..pos }
    [] paso = "seguidores" ->
         (IF useLeader THEN {aLeaders[best].id} ELSE DOMAIN leaders) \cup { leerOffset(Offsets[i]).id : i \in 1..pos }
    [] paso = "sinLider" -> Agrupados \cup { withoutLeader[i].id : i \in 1..pos }
    [] paso = "fin" -> IF Abierta THEN Agrupados \cup IdsDe(withoutLeader) ELSE {}
    [] OTHER -> {}

(* Of a set of documents, those that rank above 0 were found: each once,   *)
(* with its rank, and none after one that it ranks above.                  *)
Respuesta == { [id |-> d.id, rank |-> Rank(d)] : d \in Registros(entrada) }
Hallados(ids) ==
  /\ encontrados \in Seq(Respuesta)
  /\ \A i, j \in 1..Len(encontrados) : i < j =>
       encontrados[i].id # encontrados[j].id /\ ~ Supera(encontrados[j].rank, encontrados[i].rank)
  /\ IdsDe(encontrados) = { id \in ids : Rank(Doc(id)).num > 0 }

InvBusqueda == InvLideres /\ Estado /\ Hallados(Vistos)

(* What inserting in the middle of a sequence leaves.                      *)
Intercalado(s, p, e) == SubSeq(s, 1, p) \o <<e>> \o SubSeq(s, p + 1, Len(s))

LEMMA Insertado ==
  ASSUME NEW S, NEW s \in Seq(S), NEW e \in S, NEW p \in 0..Len(s)
  PROVE  /\ Intercalado(s, p, e) \in Seq(S) /\ Len(Intercalado(s, p, e)) = Len(s) + 1
         /\ \A i \in 1..p : Intercalado(s, p, e)[i] = s[i]
         /\ Intercalado(s, p, e)[p + 1] = e
         /\ \A i \in (p + 2)..(Len(s) + 1) : Intercalado(s, p, e)[i] = s[i - 1]
<1> DEFINE a == SubSeq(s, 1, p)
           b == SubSeq(s, p + 1, Len(s))
           c == a \o <<e>>
           t == Intercalado(s, p, e)
<1>0. Len(s) \in Nat
  OBVIOUS
<1>1. t = c \o b
  BY DEF Intercalado
<1>2. a \in Seq(S) /\ Len(a) = p /\ \A i \in 1..p : a[i] = s[i]
  BY <1>0
<1>3. b \in Seq(S) /\ Len(b) = Len(s) - p /\ \A i \in 1..(Len(s) - p) : b[i] = s[p + i]
  BY <1>0
<1> HIDE DEF a, b, t
<1>4. c \in Seq(S) /\ Len(c) = p + 1 /\ c[p + 1] = e /\ \A i \in 1..p : c[i] = s[i]
  BY <1>0, <1>2
<1> HIDE DEF c
<1>5. /\ t \in Seq(S) /\ Len(t) = Len(s) + 1
      /\ \A i \in 1..(p + 1) : t[i] = c[i]
      /\ \A i \in (p + 2)..(Len(s) + 1) : t[i] = b[i - (p + 1)]
  <2>1. c \in Seq(S) /\ b \in Seq(S)
    BY <1>3, <1>4
  <2>2. /\ t \in Seq(S) /\ Len(t) = Len(c) + Len(b)
        /\ \A i \in 1..Len(c) : t[i] = c[i]
        /\ \A i \in (Len(c) + 1)..(Len(c) + Len(b)) : t[i] = b[i - Len(c)]
    BY <1>1, <2>1
  <2>3. Len(c) = p + 1 /\ Len(c) + Len(b) = Len(s) + 1 /\ Len(c) + 1 = p + 2
    BY <1>0, <1>3, <1>4
  <2> QED
    BY <2>2, <2>3
<1>6. \A i \in (p + 2)..(Len(s) + 1) : t[i] = s[i - 1]
  <2> SUFFICES ASSUME NEW i \in (p + 2)..(Len(s) + 1) PROVE t[i] = s[i - 1]
    OBVIOUS
  <2>1. i - (p + 1) \in 1..(Len(s) - p) /\ p + (i - (p + 1)) = i - 1
    BY <1>0
  <2> QED
    BY <1>3, <1>5, <2>1
<1>7. (\A i \in 1..p : t[i] = s[i]) /\ t[p + 1] = e
  BY <1>0, <1>4, <1>5
<1> QED
  BY <1>5, <1>6, <1>7 DEF t

(* if ( rankCos > 0 ) encontrados.insert( ... ) with one document more.    *)
LEMMA AgregarUno ==
  ASSUME InvLideres, NEW ids, Hallados(ids), NEW d, NEW e \in Registros(entrada),
         d.id = e.id, d.terminos = e.terminos, d.id \notin ids, Agregar(d),
         UNCHANGED <<entrada, queryPair, include, exclude>>
  PROVE  Hallados(ids \cup {d.id})'
<1>1. /\ Respuesta' = Respuesta /\ \A id : Rank(Doc(id))' = Rank(Doc(id))
  BY DEF Respuesta, Rank, doCosine, Coseno, Doc
<1>2. Doc(d.id) = e /\ Rank(d) = Rank(e)
  BY DocDe DEF InvLideres, Rank
<1>3. CASE Rank(d).num > 0
  <2>1. PICK p \in Lugares(Rank(d)) : encontrados' = InsertAt(encontrados, p + 1, [id |-> d.id, rank |-> Rank(d)])
    BY <1>3 DEF Agregar
  <2> DEFINE r == [id |-> d.id, rank |-> Rank(d)]
             n == Len(encontrados)
  <2>2. /\ p \in 0..n
        /\ \A i \in 1..p : ~ Supera(r.rank, encontrados[i].rank)
        /\ \A i \in (p + 1)..n : ~ Supera(encontrados[i].rank, r.rank)
    BY DEF Lugares, PuedeSuperar
  <2>3. r \in Respuesta /\ r.id = d.id
    BY <1>2 DEF Respuesta
  <2>4. encontrados \in Seq(Respuesta) /\ n \in Nat
    BY DEF Hallados
  <2>5. encontrados' = InsertAt(encontrados, p + 1, r)
    BY <2>1
  <2> HIDE DEF r
  <2>6. /\ encontrados' \in Seq(Respuesta) /\ Len(encontrados') = n + 1
        /\ \A i \in 1..p : encontrados'[i] = encontrados[i]
        /\ encontrados'[p + 1] = r
        /\ \A i \in (p + 2)..(n + 1) : encontrados'[i] = encontrados[i - 1]
    <3>1. encontrados \in Seq(Respuesta) /\ r \in Respuesta /\ p \in 0..Len(encontrados)
      BY <2>2, <2>3, <2>4
    <3>2. encontrados' = Intercalado(encontrados, p, r)
      <4>1. (p + 1) - 1 = p
        BY <3>1
      <4> QED
        BY <2>5, <4>1 DEF InsertAt, Intercalado
    <3> HIDE DEF n
    <3>3. Intercalado(encontrados, p, r) \in Seq(Respuesta)
      BY <3>1, Insertado
    <3>4. Len(Intercalado(encontrados, p, r)) = Len(encontrados) + 1
      BY <3>1, Insertado
    <3>5. /\ \A i \in 1..p : Intercalado(encontrados, p, r)[i] = encontrados[i]
          /\ Intercalado(encontrados, p, r)[p + 1] = r
      BY <3>1, Insertado
    <3>6. \A i \in (p + 2)..(Len(encontrados) + 1) : Intercalado(encontrados, p, r)[i] = encontrados[i - 1]
      <4> SUFFICES ASSUME NEW i \in (p + 2)..(Len(encontrados) + 1)
                   PROVE  Intercalado(encontrados, p, r)[i] = encontrados[i - 1]
        OBVIOUS
      <4>1. PICK t : t = Intercalado(encontrados, p, r)
        OBVIOUS
      <4>2. \A h \in (p + 2)..(Len(encontrados) + 1) : t[h] = encontrados[h - 1]
        BY <3>1, <4>1, Insertado
      <4> QED
        BY <4>1, <4>2
    <3> QED
      BY <3>2, <3>3, <3>4, <3>5, <3>6 DEF n
  <2> DEFINE viejo(i) == IF i <= p THEN i ELSE i - 1
  <2>7. ASSUME NEW i \in 1..(n + 1), i # p + 1
        PROVE  viejo(i) \in 1..n /\ encontrados'[i] = encontrados[viejo(i)] /\ (i <= p \/ i >= p + 2)
    BY <2>2, <2>4, <2>6, <2>7
  <2>8. d.id \notin IdsDe(encontrados)
    BY DEF Hallados
  <2>9. \A i \in 1..n : encontrados[i].id # r.id
    BY <2>3, <2>8 DEF IdsDe
  <2>10. ASSUME NEW i \in 1..(n + 1), NEW j \in 1..(n + 1), i < j
         PROVE  encontrados'[i].id # encontrados'[j].id /\ ~ Supera(encontrados'[j].rank, encontrados'[i].rank)
    <3>1. CASE i = p + 1
      <4>1. viejo(j) \in (p + 1)..n /\ encontrados'[j] = encontrados[viejo(j)]
        BY <2>2, <2>4, <2>7, <2>10, <3>1
      <4> HIDE DEF n, viejo
      <4>2. viejo(j) \in 1..n
        BY <2>2, <2>4, <4>1
      <4> QED
        BY <2>2, <2>6, <2>9, <3>1, <4>1, <4>2
    <3>2. CASE j = p + 1
      <4>1. viejo(i) \in 1..p /\ encontrados'[i] = encontrados[viejo(i)] /\ viejo(i) \in 1..n
        BY <2>2, <2>4, <2>7, <2>10, <3>2
      <4> HIDE DEF n, viejo
      <4> QED
        BY <2>2, <2>6, <2>9, <3>2, <4>1
    <3>3. CASE i # p + 1 /\ j # p + 1
      <4>1. viejo(i) \in 1..n /\ viejo(j) \in 1..n /\ viejo(i) < viejo(j)
        BY <2>2, <2>4, <2>7, <2>10, <3>3
      <4>2. encontrados'[i] = encontrados[viejo(i)] /\ encontrados'[j] = encontrados[viejo(j)]
        BY <2>7, <3>3
      <4> HIDE DEF viejo
      <4> QED
        BY <4>1, <4>2 DEF Hallados
    <3> QED
      BY <3>1, <3>2, <3>3
  <2>11. IdsDe(encontrados)' = IdsDe(encontrados) \cup {d.id}
    <3>1. \A i \in 1..n : \E j \in 1..(n + 1) : encontrados'[j] = encontrados[i]
      <4> SUFFICES ASSUME NEW i \in 1..n PROVE \E j \in 1..(n + 1) : encontrados'[j] = encontrados[i]
        OBVIOUS
      <4>1. CASE i <= p
        BY <2>2, <2>4, <2>6, <4>1
      <4>2. CASE i > p
        <5>1. i + 1 \in (p + 2)..(n + 1) /\ i + 1 \in 1..(n + 1) /\ (i + 1) - 1 = i
          BY <2>2, <2>4, <4>2
        <5> HIDE DEF n
        <5> QED
          BY <2>6, <5>1
      <4> QED
        BY <2>2, <2>4, <4>1, <4>2
    <3>2. \A j \in 1..(n + 1) : encontrados'[j] = r \/ \E i \in 1..n : encontrados'[j] = encontrados[i]
      <4> HIDE DEF n, viejo
      <4> QED
        BY <2>6, <2>7
    <3>3. p + 1 \in 1..(n + 1)
      BY <2>2, <2>4
    <3>4. IdsDe(encontrados)' = { encontrados'[j].id : j \in 1..(n + 1) }
      BY <2>6 DEF IdsDe
    <3>5. IdsDe(encontrados) = { encontrados[i].id : i \in 1..n }
      BY DEF IdsDe
    <3> HIDE DEF n
    <3> QED
      BY <2>3, <2>6, <3>1, <3>2, <3>3, <3>4, <3>5
  <2>12. IdsDe(encontrados)' = { id \in ids \cup {d.id} : Rank(Doc(id)).num > 0 }
    BY <1>2, <1>3, <2>11 DEF Hallados
  <2>13. IdsDe(encontrados)' = { id \in (ids \cup {d.id})' : Rank(Doc(id))'.num > 0 }
    BY <1>1, <2>12
  <2> HIDE DEF n, viejo
  <2>14. \A i, j \in 1..Len(encontrados') : i < j =>
           encontrados'[i].id # encontrados'[j].id /\ ~ Supera(encontrados'[j].rank, encontrados'[i].rank)
    BY <2>6, <2>10
  <2> QED
    BY <1>1, <2>6, <2>13, <2>14 DEF Hallados, Supera, ConSigno2
<1>4. CASE ~ (Rank(d).num > 0)
  <2>1. encontrados' = encontrados
    BY <1>4 DEF Agregar
  <2>2. { id \in ids \cup {d.id} : Rank(Doc(id)).num > 0 } = { id \in ids : Rank(Doc(id)).num > 0 }
    BY <1>2, <1>4
  <2>3. IdsDe(encontrados)' = { id \in (ids \cup {d.id})' : Rank(Doc(id))'.num > 0 }
    BY <1>1, <2>1, <2>2 DEF IdsDe, Hallados
  <2> QED
    BY <1>1, <2>1, <2>3 DEF Hallados, Supera, ConSigno2
<1> QED
  BY <1>3, <1>4

(* The offsets that are read are those of the followers looked for, each   *)
(* of which is read once.                                                  *)
LEMMA OffsetsBuenos ==
  ASSUME InvLideres, Indexado, useLeader \in BOOLEAN, useLeader => best \in 1..Len(aLeaders)
  PROVE  /\ Len(Offsets) \in Nat
         /\ \A i \in 1..Len(Offsets) : leerOffset(Offsets[i]) \in Registros(entrada)
         /\ \A i, j \in 1..Len(Offsets) : i # j => leerOffset(Offsets[i]).id # leerOffset(Offsets[j]).id
         /\ { leerOffset(Offsets[i]).id : i \in 1..Len(Offsets) }
              = IF useLeader THEN SeguidoresDe(aLeaders[best].id) ELSE IdsDe(followers)
<1>1. followers \in Seq(Registros(entrada)) /\ Len(followers) \in Nat
  BY DEF InvLideres, Inv, TypeOK
<1>2. CASE ~ useLeader
  <2>1. Len(Offsets) = Len(followers) /\ \A i \in 1..Len(followers) : Offsets[i] = 16 * (i - 1)
    BY <1>1, <1>2 DEF Offsets, _tamanio
  <2>2. \A i \in 1..Len(followers) : leerOffset(Offsets[i]) = followers[i]
    <3> SUFFICES ASSUME NEW i \in 1..Len(followers) PROVE leerOffset(Offsets[i]) = followers[i]
      OBVIOUS
    <3>1. (16 * (i - 1)) \div 16 + 1 = i
      BY <1>1
    <3> QED
      BY <2>1, <3>1 DEF leerOffset, _tamanio
  <2>3. \A i \in 1..Len(followers) : followers[i] \in Registros(entrada)
    BY <1>1
  <2>4. IdsDistintos(followers)
    BY DEF InvLideres, Archivos
  <2> QED
    BY <1>1, <1>2, <2>1, <2>2, <2>3, <2>4 DEF IdsDistintos, IdsDe
<1>3. CASE useLeader
  <2> DEFINE l == aLeaders[best].id
             suyos == leaders[l].seguidores
             S == SeguidoresDe(l)
             n == Cardinality(S)
  <2>1. l \in DOMAIN leaders /\ aLeaders[best].seguidores = suyos
    BY <1>3, LideresEscritos
  <2>2. S \subseteq Nat /\ IsFiniteSet(S)
    <3>1. S \subseteq Leidas /\ IsFiniteSet(Leidas)
      BY <2>1, CuantasLeidas DEF InvLideres, Inv, UnSoloLugar
    <3>2. Leidas \subseteq Nat
      BY EntradasOrdenadas DEF InvLideres, Inv, TypeOK, Leidas, docCount
    <3> QED
      BY <3>1, <3>2, FS_Subset
  <2> HIDE DEF l
  <2>3. DOMAIN suyos = S
    BY DEF SeguidoresDe
  <2>4. suyos \in [S -> Nat]
    BY <2>1 DEF InvLideres, Inv, TypeOK
  <2> HIDE DEF S
  <2>5. /\ Len(EnOrden(S)) = n /\ n \in Nat
        /\ \A i \in 1..n : EnOrden(S)[i] \in S
        /\ \A i, j \in 1..n : i # j => EnOrden(S)[i] # EnOrden(S)[j]
        /\ \A m \in S : \E i \in 1..n : EnOrden(S)[i] = m
    BY <2>2, OrdenDeIds
  <2> HIDE DEF n, suyos
  <2>6. Offsets = [i \in 1..n |-> suyos[EnOrden(S)[i]]]
    BY <1>3, <2>1, <2>3, <2>5 DEF Offsets
  <2>7. Len(Offsets) = n /\ \A i \in 1..n : Offsets[i] = suyos[EnOrden(S)[i]]
    BY <2>5, <2>6
  <2>8. ASSUME NEW m \in S PROVE leerOffset(suyos[m]) \in Registros(entrada) /\ leerOffset(suyos[m]).id = m
    <3>1. suyos[m] \div 16 < Len(followers) /\ leerOffset(suyos[m]).id = m
      BY <2>1 DEF suyos, S, InvLideres, Inv, OffsetsResuelven, _tamanio
    <3>2. suyos[m] \in Nat
      BY <2>4
    <3>3. suyos[m] \div 16 + 1 \in 1..Len(followers)
      BY <1>1, <3>1, <3>2
    <3> QED
      BY <1>1, <3>1, <3>3 DEF leerOffset, _tamanio
  <2>9. \A i \in 1..n : leerOffset(Offsets[i]) \in Registros(entrada) /\ leerOffset(Offsets[i]).id = EnOrden(S)[i]
    BY <2>5, <2>7, <2>8
  <2>10. { leerOffset(Offsets[i]).id : i \in 1..n } = S
    BY <2>5, <2>9
  <2>11. \A i, j \in 1..n : i # j => leerOffset(Offsets[i]).id # leerOffset(Offsets[j]).id
    BY <2>5, <2>9
  <2>12. SeguidoresDe(aLeaders[best].id) = S
    BY DEF S, l
  <2>13. Len(Offsets) = n /\ n \in Nat /\ \A i \in 1..n : leerOffset(Offsets[i]) \in Registros(entrada)
    BY <2>5, <2>7, <2>9
  <2> HIDE DEF S, l
  <2> QED
    BY <1>3, <2>10, <2>11, <2>12, <2>13
<1> QED
  BY <1>2, <1>3

(* A step of the search leaves the index as it is.                         *)
LEMMA IndiceIgual ==
  ASSUME InvLideres, Indexado, UNCHANGED vars
  PROVE  InvLideres' /\ Indexado'
<1>1. InvLideres'
  BY NextLideres
<1>2. Indexado'
  BY DEF Indexado, vars, docCount
<1> QED
  BY <1>1, <1>2

LEMMA HalladosIgual ==
  ASSUME NEW ids, Hallados(ids), UNCHANGED <<entrada, queryPair, include, exclude, encontrados>>
  PROVE  Hallados(ids)'
<1>1. Respuesta' = Respuesta /\ \A id : Rank(Doc(id))' = Rank(Doc(id))
  BY DEF Respuesta, Rank, doCosine, Coseno, Doc
<1> QED
  BY <1>1 DEF Hallados, Supera, ConSigno2, IdsDe

LEMMA NadaHallado ==
  ASSUME encontrados' = <<>>
  PROVE  Hallados({})'
BY DEF Hallados, IdsDe

LEMMA HalladosEn ==
  ASSUME NEW ids, Hallados(ids)', Vistos' = ids
  PROVE  Hallados(Vistos)'
BY DEF Hallados

LEMMA InitInvBusqueda == InitBusqueda => InvBusqueda
<1> SUFFICES ASSUME InitBusqueda PROVE InvBusqueda
  OBVIOUS
<1>1. InvLideres
  BY InitLideres DEF InitBusqueda
<1>2. Estado
  BY DEF InitBusqueda, Estado
<1>3. Vistos = {}
  BY DEF InitBusqueda, Vistos
<1>4. Hallados({})
  BY DEF InitBusqueda, Hallados, IdsDe
<1> QED
  BY <1>1, <1>2, <1>3, <1>4 DEF InvBusqueda

(* The steps before a file is opened.                                      *)
LEMMA PasosDeLaConsulta ==
  ASSUME InvBusqueda, Preguntar \/ BuscarPalabra \/ Abrir
  PROVE  InvBusqueda'
<1>1. paso \in {"espera", "consulta"} /\ UNCHANGED vars /\ Indexado
  BY DEF Preguntar, BuscarPalabra, Abrir, InvBusqueda, Estado
<1>2. InvLideres' /\ Indexado'
  BY <1>1, IndiceIgual DEF InvBusqueda
<1>3. /\ pos = 0 /\ best = 0 /\ encontrados = <<>> /\ result = <<>>
      /\ UNCHANGED <<pos, best, encontrados, result>>
  BY <1>1 DEF Preguntar, BuscarPalabra, Abrir, InvBusqueda, Estado
<1>4. Len(aLeaders) \in Nat
  BY <1>1, LideresEscritos DEF InvBusqueda
<1>5. CASE Preguntar \/ BuscarPalabra
  <2>1. paso' \in {"error", "consulta"} /\ useLeader' \in BOOLEAN
    BY <1>5 DEF Preguntar, BuscarPalabra, InvBusqueda, Estado
  <2>2. Estado'
    BY <1>2, <1>3, <2>1 DEF Estado
  <2>3. Vistos' = {}
    BY <2>1 DEF Vistos
  <2> QED
    BY <1>2, <1>3, <2>2, <2>3, NadaHallado, HalladosEn DEF InvBusqueda
<1>6. CASE Abrir
  <2>1. /\ paso' = IF Abierta THEN "lideres" ELSE "fin"
        /\ useLeader' = useLeader /\ queryPair' = queryPair /\ mustExcludeNotInLex' = mustExcludeNotInLex
        /\ aLeaders' = aLeaders /\ useLeader \in BOOLEAN
    BY <1>1, <1>6 DEF Abrir, Abierta, palabras, vars, InvBusqueda, Estado
  <2>2. Abierta' = Abierta
    BY <2>1 DEF Abierta
  <2>3. Estado'
    BY <1>2, <1>3, <1>4, <2>1, <2>2 DEF Estado
  <2>4. Vistos' = {}
    BY <1>3, <2>1, <2>2 DEF Vistos
  <2> QED
    BY <1>2, <1>3, <2>3, <2>4, NadaHallado, HalladosEn DEF InvBusqueda
<1> QED
  BY <1>5, <1>6

(* A document ranked in the files.                                         *)
LEMMA UnDocumentoMas ==
  ASSUME InvLideres, NEW ids, Hallados(ids), NEW d, NEW e \in Registros(entrada),
         d.id = e.id, d.terminos = e.terminos, d.id \notin ids, Agregar(d),
         UNCHANGED <<entrada, queryPair, include, exclude>>, Vistos' = ids \cup {d.id}
  PROVE  Hallados(Vistos)'
<1>1. PICK todos : todos = ids \cup {d.id}
  OBVIOUS
<1>2. Hallados(todos)'
  <2>1. Hallados(ids \cup {d.id})'
    BY AgregarUno
  <2> QED
    BY <1>1, <2>1 DEF Hallados
<1> QED
  BY <1>1, <1>2, HalladosEn

LEMMA PasosDeLideres ==
  ASSUME InvBusqueda, RankearLider \/ FinLideres
  PROVE  InvBusqueda'
<1>1. /\ paso = "lideres" /\ UNCHANGED <<vars, palabras, result>> /\ Indexado /\ useLeader \in BOOLEAN
      /\ pos \in 0..Len(aLeaders) /\ best \in 0..pos /\ (~ useLeader => best = 0) /\ Abierta /\ result = <<>>
  BY DEF RankearLider, FinLideres, InvBusqueda, Estado
<1>2. InvLideres' /\ Indexado' /\ InvLideres
  BY <1>1, IndiceIgual DEF InvBusqueda
<1>3. UNCHANGED <<entrada, leaders, followers, withoutLeader, aLeaders, useLeader, queryPair, include, exclude, mustExcludeNotInLex>>
  BY <1>1 DEF vars, palabras
<1>4. Abierta'
  BY <1>1, <1>3 DEF Abierta
<1>5. PICK ids : ids = Vistos
  OBVIOUS
<1>6. Hallados(ids)
  BY <1>5 DEF InvBusqueda
<1>7. Len(aLeaders) \in Nat /\ IdsDistintos(aLeaders) /\ IdsDe(aLeaders) = DOMAIN leaders
  BY <1>1, <1>2, LideresEscritos
<1>8. ASSUME NEW i \in 1..Len(aLeaders)
      PROVE  \E e \in Registros(entrada) : aLeaders[i].id = e.id /\ aLeaders[i].terminos = e.terminos
  BY <1>1, <1>2, LideresEscritos
<1>9. CASE RankearLider
  <2>1. /\ paso' = "lideres" /\ pos < Len(aLeaders) /\ pos' = pos + 1
    BY <1>1, <1>9 DEF RankearLider
  <2>2. CASE useLeader
    <3>1. ids = {} /\ Vistos' = {}
      BY <1>1, <1>3, <1>5, <2>1, <2>2 DEF Vistos
    <3>2. encontrados' = encontrados /\ best' \in {best, pos + 1}
      BY <1>9, <2>2 DEF RankearLider, ElegirLider
    <3>3. Estado'
      BY <1>1, <1>2, <1>3, <1>4, <1>7, <2>1, <2>2, <3>2 DEF Estado
    <3>4. Hallados(ids)'
      BY <1>3, <1>6, <3>2, HalladosIgual
    <3> QED
      BY <1>2, <3>1, <3>3, <3>4, HalladosEn DEF InvBusqueda
  <2>3. CASE ~ useLeader
    <3>1. PICK d : d = aLeaders[pos + 1]
      OBVIOUS
    <3>2. pos + 1 \in 1..Len(aLeaders) /\ 1..(pos + 1) = 1..pos \cup {pos + 1}
      BY <1>1, <1>7, <2>1
    <3>3. PICK e \in Registros(entrada) : d.id = e.id /\ d.terminos = e.terminos
      BY <1>8, <3>1, <3>2
    <3>4. ids = { aLeaders[i].id : i \in 1..pos }
      BY <1>1, <1>5, <2>3 DEF Vistos
    <3>5. d.id \notin ids
      <4>1. \A i \in 1..pos : i \in 1..Len(aLeaders) /\ i # pos + 1
        BY <1>1, <1>7
      <4> QED
        BY <1>7, <3>1, <3>2, <3>4, <4>1 DEF IdsDistintos
    <3>6. Vistos' = ids \cup {d.id}
      <4>1. Vistos' = { aLeaders[i].id : i \in 1..(pos + 1) }
        BY <1>3, <2>1, <2>3 DEF Vistos
      <4> QED
        BY <3>1, <3>2, <3>4, <4>1
    <3>7. Agregar(d) /\ best' = best
      BY <1>9, <2>3, <3>1 DEF RankearLider, Agregar
    <3>8. Hallados(Vistos)'
      BY <1>2, <1>3, <1>6, <3>3, <3>5, <3>6, <3>7, UnDocumentoMas
    <3>9. Estado'
      BY <1>1, <1>2, <1>3, <1>4, <1>7, <2>1, <2>3, <3>7 DEF Estado
    <3> QED
      BY <1>2, <3>8, <3>9 DEF InvBusqueda
  <2> QED
    BY <2>2, <2>3
<1>10. CASE FinLideres
  <2>1. pos = Len(aLeaders) /\ pos' = 0 /\ best' = best
    BY <1>10 DEF FinLideres
  <2>2. bestCos' = bestCos
    BY <1>3, <2>1 DEF bestCos, Rank, doCosine, Coseno
  <2>3. Len(withoutLeader) \in Nat
    BY <1>2 DEF InvLideres, Inv, TypeOK
  <2>4. CASE useLeader /\ bestCos.num < 0
    <3>1. paso' = "sinLider" /\ encontrados' = encontrados
      BY <1>10, <2>4 DEF FinLideres
    <3>2. ids = {} /\ Vistos' = {}
      BY <1>1, <1>3, <1>5, <2>1, <2>2, <2>4, <3>1 DEF Vistos, Agrupados
    <3>3. Estado'
      BY <1>1, <1>2, <1>3, <1>4, <2>1, <2>3, <3>1 DEF Estado
    <3>4. Hallados(ids)'
      BY <1>3, <1>6, <3>1, HalladosIgual
    <3> QED
      BY <1>2, <3>2, <3>3, <3>4, HalladosEn DEF InvBusqueda
  <2>5. CASE useLeader /\ ~ (bestCos.num < 0)
    <3>1. paso' = "seguidores" /\ Agregar(aLeaders[best])
      BY <1>10, <2>5 DEF FinLideres
    <3>2. best \in 1..Len(aLeaders)
      <4>1. best # 0
        BY <2>5 DEF bestCos, Fijo
      <4> QED
        BY <1>1, <1>7, <4>1
    <3>3. PICK d : d = aLeaders[best]
      OBVIOUS
    <3>4. PICK e \in Registros(entrada) : d.id = e.id /\ d.terminos = e.terminos
      BY <1>8, <3>2, <3>3
    <3>5. ids = {}
      BY <1>1, <1>5, <2>5 DEF Vistos
    <3>6. Vistos' = ids \cup {d.id}
      BY <1>3, <2>1, <2>5, <3>1, <3>3, <3>5 DEF Vistos
    <3>7. Agregar(d)
      BY <3>1, <3>3 DEF Agregar
    <3>8. Hallados(Vistos)'
      BY <1>2, <1>3, <1>6, <3>4, <3>5, <3>6, <3>7, UnDocumentoMas
    <3>9. Len(Offsets)' \in Nat
      BY <1>2, <1>3, <2>1, <2>5, <3>2, OffsetsBuenos DEF Offsets
    <3>10. Estado'
      BY <1>1, <1>2, <1>3, <1>4, <2>1, <2>2, <2>5, <3>1, <3>2, <3>9 DEF Estado
    <3> QED
      BY <1>2, <3>8, <3>10 DEF InvBusqueda
  <2>6. CASE ~ useLeader
    <3>1. paso' = "seguidores" /\ encontrados' = encontrados
      BY <1>10, <2>6 DEF FinLideres
    <3>2. ids = IdsDe(aLeaders)
      BY <1>1, <1>5, <2>1, <2>6 DEF Vistos, IdsDe
    <3>3. Vistos' = ids
      <4>1. Vistos' = (DOMAIN leaders \cup { leerOffset(Offsets[i]).id : i \in 1..pos })'
        BY <1>3, <2>6, <3>1 DEF Vistos
      <4>2. { leerOffset(Offsets[i]).id : i \in 1..pos }' = {}
        BY <2>1
      <4> QED
        BY <1>3, <1>7, <3>2, <4>1, <4>2
    <3>4. Len(Offsets)' \in Nat
      <4>1. Len(Offsets) \in Nat
        BY <1>1, <1>2, <2>6, OffsetsBuenos
      <4> QED
        BY <1>3, <2>1, <4>1 DEF Offsets
    <3>5. Estado'
      BY <1>1, <1>2, <1>3, <1>4, <2>1, <2>6, <3>1, <3>4 DEF Estado
    <3>6. Hallados(ids)'
      BY <1>3, <1>6, <3>1, HalladosIgual
    <3> QED
      BY <1>2, <3>3, <3>5, <3>6, HalladosEn DEF InvBusqueda
  <2> QED
    BY <2>4, <2>5, <2>6
<1> QED
  BY <1>9, <1>10

LEMMA PasosDeSeguidores ==
  ASSUME InvBusqueda, RankearSeguidor \/ FinSeguidores
  PROVE  InvBusqueda'
<1>1. /\ paso = "seguidores" /\ UNCHANGED <<vars, palabras, best, result>> /\ Indexado /\ useLeader \in BOOLEAN
      /\ pos \in 0..Len(Offsets) /\ best \in 0..Len(aLeaders) /\ Abierta /\ result = <<>>
      /\ useLeader => best \in 1..Len(aLeaders) /\ ~ (bestCos.num < 0)
  BY DEF RankearSeguidor, FinSeguidores, InvBusqueda, Estado
<1>2. InvLideres' /\ Indexado' /\ InvLideres
  BY <1>1, IndiceIgual DEF InvBusqueda
<1>3. UNCHANGED <<entrada, leaders, followers, withoutLeader, aLeaders, useLeader, queryPair, include, exclude, mustExcludeNotInLex, best>>
  BY <1>1 DEF vars, palabras
<1>4. Abierta' /\ bestCos' = bestCos /\ Offsets' = Offsets /\ \A o : leerOffset(o)' = leerOffset(o)
  BY <1>1, <1>3 DEF Abierta, bestCos, Rank, doCosine, Coseno, Offsets, leerOffset
<1>5. PICK ids : ids = Vistos
  OBVIOUS
<1>6. Hallados(ids)
  BY <1>5 DEF InvBusqueda
<1>7. /\ Len(Offsets) \in Nat
      /\ \A i \in 1..Len(Offsets) : leerOffset(Offsets[i]) \in Registros(entrada)
      /\ \A i, j \in 1..Len(Offsets) : i # j => leerOffset(Offsets[i]).id # leerOffset(Offsets[j]).id
      /\ { leerOffset(Offsets[i]).id : i \in 1..Len(Offsets) }
           = IF useLeader THEN SeguidoresDe(aLeaders[best].id) ELSE IdsDe(followers)
  BY <1>1, <1>2, OffsetsBuenos
<1>8. PICK grupo : grupo = IF useLeader THEN {aLeaders[best].id} ELSE DOMAIN leaders
  OBVIOUS
<1>9. ids = grupo \cup { leerOffset(Offsets[i]).id : i \in 1..pos }
  BY <1>1, <1>5, <1>8 DEF Vistos
<1>10. CASE RankearSeguidor
  <2>1. paso' = "seguidores" /\ pos < Len(Offsets) /\ pos' = pos + 1 /\ Agregar(leerOffset(Offsets[pos + 1]))
    BY <1>1, <1>10 DEF RankearSeguidor
  <2>2. pos + 1 \in 1..Len(Offsets) /\ 1..(pos + 1) = 1..pos \cup {pos + 1}
    BY <1>1, <1>7, <2>1
  <2>3. PICK d \in Registros(entrada) : d = leerOffset(Offsets[pos + 1])
    BY <1>7, <2>2
  <2>4. d.id \notin grupo
    <3>1. d.id \in IF useLeader THEN SeguidoresDe(aLeaders[best].id) ELSE IdsDe(followers)
      BY <1>7, <2>2, <2>3
    <3>2. useLeader => aLeaders[best].id \in DOMAIN leaders
      BY <1>1, <1>2, LideresEscritos
    <3>3. d.id \in IdsDe(followers)
      BY <3>1, <3>2, <1>2 DEF InvLideres, Inv, UnSoloLugar
    <3>4. grupo \subseteq DOMAIN leaders
      BY <1>8, <3>2
    <3> QED
      BY <1>2, <3>3, <3>4 DEF InvLideres, Inv, UnSoloLugar
  <2>5. d.id \notin ids
    <3>1. \A i \in 1..pos : i \in 1..Len(Offsets) /\ i # pos + 1
      BY <1>1, <1>7
    <3> QED
      BY <1>7, <1>9, <2>2, <2>3, <2>4, <3>1
  <2>6. Vistos' = ids \cup {d.id}
    <3>1. Vistos' = grupo \cup { leerOffset(Offsets[i]).id : i \in 1..(pos + 1) }
      BY <1>3, <1>4, <1>8, <2>1 DEF Vistos
    <3> QED
      BY <1>9, <2>2, <2>3, <3>1
  <2>7. Agregar(d)
    BY <2>1, <2>3 DEF Agregar
  <2>8. Hallados(Vistos)'
    BY <1>2, <1>3, <1>6, <2>5, <2>6, <2>7, UnDocumentoMas
  <2>9. Estado'
    BY <1>1, <1>2, <1>3, <1>4, <1>7, <2>1 DEF Estado
  <2> QED
    BY <1>2, <2>8, <2>9 DEF InvBusqueda
<1>11. CASE FinSeguidores
  <2>1. pos = Len(Offsets) /\ pos' = 0 /\ paso' = "sinLider" /\ encontrados' = encontrados
    BY <1>11 DEF FinSeguidores
  <2>2. ids = grupo \cup (IF useLeader THEN SeguidoresDe(aLeaders[best].id) ELSE IdsDe(followers))
    BY <1>7, <1>9, <2>1
  <2>3. Agrupados' = Agrupados
    BY <1>3, <1>4 DEF Agrupados, IdsDe, DelLider, SeguidoresDe
  <2>4. Agrupados = ids
    BY <1>1, <1>8, <2>2 DEF Agrupados, DelLider
  <2>5. Vistos' = ids
    BY <1>3, <2>1, <2>3, <2>4 DEF Vistos
  <2>6. Len(withoutLeader) \in Nat /\ Len(aLeaders) \in Nat
    BY <1>1, <1>2, LideresEscritos DEF InvLideres, Inv, TypeOK
  <2>8. Estado'
    BY <1>1, <1>2, <1>3, <1>4, <2>1, <2>6 DEF Estado
  <2>9. Hallados(ids)'
    BY <1>3, <1>6, <2>1, HalladosIgual
  <2> QED
    BY <1>2, <2>5, <2>8, <2>9, HalladosEn DEF InvBusqueda
<1> QED
  BY <1>10, <1>11

LEMMA PasosSinLider ==
  ASSUME InvBusqueda, RankearSinLider \/ Responder
  PROVE  InvBusqueda'
<1>1. /\ paso = "sinLider" /\ UNCHANGED <<vars, palabras, best>> /\ Indexado /\ useLeader \in BOOLEAN
      /\ pos \in 0..Len(withoutLeader) /\ best \in 0..Len(aLeaders) /\ Abierta /\ result = <<>>
  BY DEF RankearSinLider, Responder, InvBusqueda, Estado
<1>2. InvLideres' /\ Indexado' /\ InvLideres
  BY <1>1, IndiceIgual DEF InvBusqueda
<1>3. UNCHANGED <<entrada, leaders, followers, withoutLeader, aLeaders, useLeader, queryPair, include, exclude, mustExcludeNotInLex, best>>
  BY <1>1 DEF vars, palabras
<1>4. Abierta' /\ bestCos' = bestCos /\ Agrupados' = Agrupados
  BY <1>1, <1>3 DEF Abierta, bestCos, Rank, doCosine, Coseno, Agrupados, IdsDe, DelLider, SeguidoresDe
<1>5. PICK ids : ids = Vistos
  OBVIOUS
<1>6. Hallados(ids)
  BY <1>5 DEF InvBusqueda
<1>7. withoutLeader \in Seq(Registros(entrada)) /\ Len(withoutLeader) \in Nat /\ IdsDistintos(withoutLeader)
  BY <1>2 DEF InvLideres, Inv, TypeOK, Archivos
<1>8. ids = Agrupados \cup { withoutLeader[i].id : i \in 1..pos }
  BY <1>1, <1>5 DEF Vistos
<1>9. CASE RankearSinLider
  <2>1. paso' = "sinLider" /\ pos < Len(withoutLeader) /\ pos' = pos + 1 /\ Agregar(withoutLeader[pos + 1]) /\ result' = result
    BY <1>1, <1>9 DEF RankearSinLider
  <2>2. pos + 1 \in 1..Len(withoutLeader) /\ 1..(pos + 1) = 1..pos \cup {pos + 1}
    BY <1>1, <1>7, <2>1
  <2>3. PICK d \in Registros(entrada) : d = withoutLeader[pos + 1]
    BY <1>7, <2>2
  <2>4. d.id \notin Agrupados
    <3>1. Agrupados \subseteq DOMAIN leaders \cup IdsDe(followers)
      <4>1. CASE useLeader /\ ~ (bestCos.num < 0)
        <5>1. best \in 1..Len(aLeaders)
          <6>1. best # 0
            BY <4>1 DEF bestCos, Fijo
          <6>2. Len(aLeaders) \in Nat
            BY <1>1, <1>2, LideresEscritos
          <6> QED
            BY <1>1, <6>1, <6>2
        <5>2. aLeaders[best].id \in DOMAIN leaders
          BY <1>1, <1>2, <5>1, LideresEscritos
        <5>3. SeguidoresDe(aLeaders[best].id) \subseteq IdsDe(followers)
          BY <1>2, <5>2 DEF InvLideres, Inv, UnSoloLugar
        <5> QED
          BY <4>1, <5>2, <5>3 DEF Agrupados, DelLider
      <4>2. CASE ~ (useLeader /\ ~ (bestCos.num < 0))
        BY <4>2 DEF Agrupados
      <4> QED
        BY <4>1, <4>2
    <3>2. d.id \in IdsDe(withoutLeader)
      BY <2>2, <2>3 DEF IdsDe
    <3> QED
      BY <1>2, <3>1, <3>2 DEF InvLideres, Inv, UnSoloLugar
  <2>5. d.id \notin ids
    <3>1. \A i \in 1..pos : i \in 1..Len(withoutLeader) /\ i # pos + 1
      BY <1>1, <1>7
    <3> QED
      BY <1>7, <1>8, <2>2, <2>3, <2>4, <3>1 DEF IdsDistintos
  <2>6. Vistos' = ids \cup {d.id}
    <3>1. Vistos' = Agrupados \cup { withoutLeader[i].id : i \in 1..(pos + 1) }
      BY <1>3, <1>4, <2>1 DEF Vistos
    <3> QED
      BY <1>8, <2>2, <2>3, <3>1
  <2>7. Agregar(d)
    BY <2>1, <2>3 DEF Agregar
  <2>8. Hallados(Vistos)'
    BY <1>2, <1>3, <1>6, <2>5, <2>6, <2>7, UnDocumentoMas
  <2>9. Estado'
    BY <1>1, <1>2, <1>3, <1>4, <1>7, <2>1 DEF Estado
  <2> QED
    BY <1>2, <2>8, <2>9 DEF InvBusqueda
<1>10. CASE Responder
  <2>1. /\ pos = Len(withoutLeader) /\ paso' = "fin" /\ encontrados' = encontrados
        /\ result' = [i \in 1..Len(encontrados) |-> buscarPorId(encontrados[i].id)]
    BY <1>10 DEF Responder
  <2>2. ids = Agrupados \cup IdsDe(withoutLeader)
    BY <1>8, <2>1 DEF IdsDe
  <2>3. Vistos' = ids
    BY <1>3, <1>4, <2>1, <2>2 DEF Vistos, IdsDe
  <2>4. \A i \in 1..Len(encontrados) : buscarPorId(encontrados[i].id) = encontrados[i].id
    <3> SUFFICES ASSUME NEW i \in 1..Len(encontrados) PROVE buscarPorId(encontrados[i].id) = encontrados[i].id
      OBVIOUS
    <3>1. encontrados[i] \in Respuesta
      BY <1>6 DEF Hallados
    <3>2. PICK d \in Registros(entrada) : encontrados[i].id = d.id
      BY <3>1 DEF Respuesta
    <3>3. d.id \in 1..docCount /\ docCount \in Nat
      <4>1. \E j \in 1..Len(entrada) : d = entrada[j]
        BY DEF Registros
      <4> QED
        BY <1>2, <4>1, DocumentosEnOrden, EntradasOrdenadas DEF InvLideres, Inv, docCount
    <3> QED
      BY <3>2, <3>3, BuscarPorIdHalla
  <2>5. result' = [i \in 1..Len(encontrados) |-> encontrados[i].id]
    BY <2>1, <2>4, Zenon
  <2>6. Estado'
    BY <1>1, <1>2, <1>3, <2>1, <2>5 DEF Estado
  <2>7. Hallados(ids)'
    BY <1>3, <1>6, <2>1, HalladosIgual
  <2> QED
    BY <1>2, <2>3, <2>6, <2>7, HalladosEn DEF InvBusqueda
<1> QED
  BY <1>9, <1>10

(* Nothing is indexed once a search began.                                 *)
LEMMA IndiceCerrado ==
  ASSUME InvLideres, Indexado, [Next]_vars
  PROVE  UNCHANGED vars
<1>1. docCount \in Nat
  BY EntradasOrdenadas DEF InvLideres, Inv, docCount
<1>2. ~ Leer
  BY <1>1 DEF Indexado, Leer
<1>3. ~ Bajar
  BY DEF Indexado, Bajar
<1> QED
  BY <1>2, <1>3 DEF Next, PrimerLider, SeguidorNatural, NuevoLider, SeguidorForzado, SinLider

LEMMA PasosDelIndice ==
  ASSUME InvBusqueda, (Next /\ UNCHANGED busca) \/ UNCHANGED todo
  PROVE  InvBusqueda'
<1>1. [Next]_vars /\ UNCHANGED busca
  BY DEF todo
<1>2. InvLideres'
  BY <1>1, NextLideres DEF InvBusqueda
<1>3. UNCHANGED <<paso, useLeader, queryPair, include, exclude, mustExcludeNotInLex, pos, best, encontrados, result>>
  BY <1>1 DEF busca, palabras
<1>4. CASE paso = "espera"
  <2>1. Estado' /\ encontrados' = <<>>
    BY <1>3, <1>4 DEF InvBusqueda, Estado
  <2>2. Vistos' = {}
    BY <1>3, <1>4 DEF Vistos
  <2> QED
    BY <1>2, <2>1, <2>2, NadaHallado, HalladosEn DEF InvBusqueda
<1>5. CASE paso # "espera"
  <2>1. Indexado
    BY <1>5 DEF InvBusqueda, Estado
  <2>2. UNCHANGED vars
    BY <1>1, <2>1, IndiceCerrado DEF InvBusqueda
  <2>3. Indexado'
    BY <2>1, <2>2, IndiceIgual DEF InvBusqueda
  <2>4. UNCHANGED <<entrada, leaders, followers, withoutLeader, aLeaders>>
    BY <2>2 DEF vars
  <2>5. /\ Abierta' = Abierta /\ bestCos' = bestCos /\ Offsets' = Offsets /\ \A o : leerOffset(o)' = leerOffset(o)
        /\ Agrupados' = Agrupados /\ IdsDe(withoutLeader)' = IdsDe(withoutLeader)
    BY <1>3, <2>4 DEF Abierta, bestCos, Rank, doCosine, Coseno, Offsets, leerOffset, Agrupados, IdsDe, DelLider, SeguidoresDe
  <2>6. Estado'
    BY <1>3, <2>3, <2>4, <2>5 DEF InvBusqueda, Estado
  <2>7. PICK ids : ids = Vistos
    OBVIOUS
  <2>8. Vistos' = ids
    BY <1>3, <2>4, <2>5, <2>7 DEF Vistos
  <2>9. Hallados(ids)'
    BY <1>3, <2>4, <2>7, HalladosIgual DEF InvBusqueda
  <2> QED
    BY <1>2, <2>6, <2>8, <2>9, HalladosEn DEF InvBusqueda
<1> QED
  BY <1>4, <1>5

(* What every search keeps, over any documents and any query.              *)
THEOREM InvBusquedaSiempre == SpecBusqueda => []InvBusqueda
<1>1. InitBusqueda => InvBusqueda
  BY InitInvBusqueda
<1>2. InvBusqueda /\ [NextBusqueda]_todo => InvBusqueda'
  BY PasosDeLaConsulta, PasosDeLideres, PasosDeSeguidores, PasosSinLider, PasosDelIndice DEF NextBusqueda, Buscar
<1> QED
  BY <1>1, <1>2, PTL DEF SpecBusqueda

(* The answers come with the most relevant first and each document once,   *)
(* for any index and any query, though three files were read and a rank    *)
(* that equals another may be put on either side of it.                    *)
THEOREM SiemprePorRelevancia == SpecBusqueda => []PorRelevancia
<1>1. InvBusqueda => PorRelevancia
  <2> SUFFICES ASSUME InvBusqueda, paso = "fin"
               PROVE  /\ Cardinality(Respondidos) = Len(result)
                      /\ \A i, j \in 1..Len(result) : i < j =>
                           ~ Supera(Rank(Doc(result[j])), Rank(Doc(result[i])))
    BY DEF PorRelevancia
  <2> DEFINE n == Len(encontrados)
  <2>1. encontrados \in Seq(Respuesta) /\ n \in Nat
    BY DEF InvBusqueda, Hallados
  <2>2. result = [i \in 1..n |-> encontrados[i].id]
    BY DEF InvBusqueda, Estado
  <2>3. Len(result) = n
    BY <2>1, <2>2
  <2>4. ASSUME NEW i \in 1..n PROVE Rank(Doc(result[i])) = encontrados[i].rank
    <3>1. encontrados[i] \in Respuesta
      BY <2>1
    <3>2. PICK d \in Registros(entrada) : encontrados[i] = [id |-> d.id, rank |-> Rank(d)]
      BY <3>1 DEF Respuesta
    <3>3. result[i] = d.id /\ Doc(d.id) = d
      BY <2>2, <3>2, DocDe DEF InvBusqueda, InvLideres
    <3> QED
      BY <3>2, <3>3
  <2>5. \A i, j \in 1..n : i < j =>
          encontrados[i].id # encontrados[j].id /\ ~ Supera(encontrados[j].rank, encontrados[i].rank)
    BY DEF InvBusqueda, Hallados
  <2>6. Cardinality(Respondidos) = n
    <3>1. Respondidos = { result[i] : i \in 1..n }
      BY <2>3 DEF Respondidos
    <3>2. \A i, j \in 1..n : i # j => result[i] # result[j]
      <4>1. \A i, j \in 1..n : i # j => i < j \/ j < i
        BY <2>1
      <4> QED
        BY <2>2, <2>5, <4>1
    <3>3. result \in Bijection(1..n, Respondidos)
      <4> HIDE DEF n
      <4> QED
        BY <2>2, <3>1, <3>2 DEF Bijection, Injection, Surjection, IsInjective
    <3>4. ExistsBijection(1..n, Respondidos)
      BY <3>3 DEF ExistsBijection
    <3> QED
      BY <2>1, <3>4, FS_CountingElements, FS_NatBijection
  <2> HIDE DEF n
  <2>7. \A i, j \in 1..n : i < j => ~ Supera(Rank(Doc(result[j])), Rank(Doc(result[i])))
    BY <2>4, <2>5
  <2> QED
    BY <2>3, <2>6, <2>7
<1> QED
  BY <1>1, InvBusquedaSiempre, PTL

-----------------------------------------------------------------------------
(* The pieces of a text.                                                   *)

(* The first of some places of a text, or its end.                         *)
LEMMA PrimeraDe ==
  ASSUME NEW X, NEW str \in Seq(X), NEW desde \in 1..(Len(str) + 1),
         NEW L, L \subseteq desde..Len(str), NEW m, m = Primera(str, L)
  PROVE  m \in desde..(Len(str) + 1) /\ (m <= Len(str) => m \in L) /\ \A h \in desde..(m - 1) : h \notin L
<1>0. Len(str) \in Nat
  OBVIOUS
<1> DEFINE T == L \cup {Len(str) + 1}
<1>1. T \subseteq Nat /\ T # {}
  <2>1. desde..Len(str) \subseteq Nat /\ Len(str) + 1 \in Nat
    BY <1>0
  <2> HIDE DEF T
  <2>2. T = L \cup {Len(str) + 1}
    BY DEF T
  <2> QED
    BY <2>1, <2>2, Zenon
<1>2. m = CHOOSE x \in T : \A y \in T : x =< y
  BY DEF Primera, npos, Min
<1>3. m \in T /\ \A y \in T : m <= y
  <2> HIDE DEF T
  <2> QED
    BY <1>1, <1>2, MinimoDeNaturales
<1>4. \A y \in L : m <= y
  BY <1>3
<1>5. m \in desde..(Len(str) + 1) /\ (m <= Len(str) => m \in L)
  BY <1>0, <1>3
<1> QED
  BY <1>0, <1>4, <1>5

LEMMA Primero ==
  ASSUME NEW X, NEW str \in Seq(X), NEW d, NEW desde \in 1..(Len(str) + 1)
  PROVE  /\ find_first_of(str, d, desde) \in desde..(Len(str) + 1)
         /\ find_first_of(str, d, desde) <= Len(str) => str[find_first_of(str, d, desde)] = d
         /\ \A h \in desde..(find_first_of(str, d, desde) - 1) : str[h] # d
         /\ find_first_not_of(str, d, desde) \in desde..(Len(str) + 1)
         /\ find_first_not_of(str, d, desde) <= Len(str) => str[find_first_not_of(str, d, desde)] # d
         /\ \A h \in desde..(find_first_not_of(str, d, desde) - 1) : str[h] = d
<1>0. Len(str) \in Nat
  OBVIOUS
<1> DEFINE U == { i \in desde..Len(str) : str[i] = d }
           V == { i \in desde..Len(str) : str[i] # d }
           m == find_first_of(str, d, desde)
           n == find_first_not_of(str, d, desde)
<1>2. m \in desde..(Len(str) + 1) /\ (m <= Len(str) => m \in U) /\ \A h \in desde..(m - 1) : h \notin U
  <2>1. m = Primera(str, U) /\ U \subseteq desde..Len(str)
    BY DEF find_first_of
  <2> HIDE DEF m, U
  <2> QED
    BY <2>1, PrimeraDe
<1>3. n \in desde..(Len(str) + 1) /\ (n <= Len(str) => n \in V) /\ \A h \in desde..(n - 1) : h \notin V
  <2>1. n = Primera(str, V) /\ V \subseteq desde..Len(str)
    BY DEF find_first_not_of
  <2> HIDE DEF n, V
  <2> QED
    BY <2>1, PrimeraDe
<1>4. \A h \in desde..(m - 1) : h \in desde..Len(str)
  <2> HIDE DEF m
  <2> QED
    BY <1>0, <1>2
<1>5. \A h \in desde..(n - 1) : h \in desde..Len(str)
  <2> HIDE DEF n
  <2> QED
    BY <1>0, <1>3
<1> QED
  BY <1>2, <1>3, <1>4, <1>5

(* Where the pieces begin, from desde on; a delimiter, or the beginning,   *)
(* is before desde.                                                        *)
Cortes(str, d, desde) ==
  { i \in desde..Len(str) : str[i] # d /\ (i = desde \/ str[i - 1] = d) }
Pieza(str, d, i) == SubSeq(str, i, find_first_of(str, d, i) - 1)

(* One turn of the loop of tokenize takes the first of them.               *)
LEMMA UnaPieza ==
  ASSUME NEW X, NEW str \in Seq(X), NEW d, NEW desde \in 1..(Len(str) + 1),
         NEW lastPos, lastPos = find_first_not_of(str, d, desde),
         NEW p, p = find_first_of(str, d, lastPos)
  PROVE  /\ lastPos = Len(str) + 1 => Cortes(str, d, desde) = {}
         /\ lastPos # Len(str) + 1 =>
              /\ p \in (desde + 1)..(Len(str) + 1)
              /\ lastPos \in desde..(p - 1)
              /\ Cortes(str, d, desde) = {lastPos} \cup Cortes(str, d, p)
              /\ \A i \in Cortes(str, d, p) : lastPos < i
<1>0. Len(str) \in Nat
  OBVIOUS
<1>1. /\ lastPos \in desde..(Len(str) + 1)
      /\ lastPos <= Len(str) => str[lastPos] # d
      /\ \A h \in desde..(lastPos - 1) : str[h] = d
  BY Primero
<1>2. lastPos \in 1..(Len(str) + 1)
  BY <1>0, <1>1
<1>3. /\ p \in lastPos..(Len(str) + 1)
      /\ p <= Len(str) => str[p] = d
      /\ \A h \in lastPos..(p - 1) : str[h] # d
  BY <1>2, Primero
<1>4. ASSUME lastPos = Len(str) + 1 PROVE Cortes(str, d, desde) = {}
  BY <1>0, <1>1, <1>4 DEF Cortes
<1>5. ASSUME lastPos # Len(str) + 1
      PROVE  /\ p \in (desde + 1)..(Len(str) + 1)
             /\ lastPos \in desde..(p - 1)
             /\ Cortes(str, d, desde) = {lastPos} \cup Cortes(str, d, p)
             /\ \A i \in Cortes(str, d, p) : lastPos < i
  <2>1. lastPos \in desde..Len(str) /\ str[lastPos] # d
    BY <1>0, <1>1, <1>5
  <2>2. p # lastPos
    BY <1>0, <1>3, <2>1
  <2>3. p \in (lastPos + 1)..(Len(str) + 1) /\ p \in (desde + 1)..(Len(str) + 1) /\ lastPos \in desde..(p - 1)
    BY <1>0, <1>3, <2>1, <2>2
  <2>4. lastPos \in Cortes(str, d, desde)
    <3>1. lastPos = desde \/ lastPos - 1 \in desde..(lastPos - 1)
      BY <1>0, <2>1
    <3> QED
      BY <1>1, <2>1, <3>1 DEF Cortes
  <2>5. \A i \in Cortes(str, d, p) : i \in (p + 1)..Len(str) /\ str[i] # d /\ str[i - 1] = d
    <3> SUFFICES ASSUME NEW i \in Cortes(str, d, p)
                 PROVE  i \in (p + 1)..Len(str) /\ str[i] # d /\ str[i - 1] = d
      OBVIOUS
    <3>1. i \in p..Len(str) /\ str[i] # d /\ (i = p \/ str[i - 1] = d)
      BY DEF Cortes
    <3>2. p <= Len(str)
      BY <1>0, <2>3, <3>1
    <3>3. i # p
      BY <1>3, <3>1, <3>2
    <3> QED
      BY <1>0, <2>3, <3>1, <3>3
  <2>6. \A i \in Cortes(str, d, p) : lastPos < i /\ i \in Cortes(str, d, desde)
    <3> SUFFICES ASSUME NEW i \in Cortes(str, d, p) PROVE lastPos < i /\ i \in Cortes(str, d, desde)
      OBVIOUS
    <3>1. i \in (p + 1)..Len(str) /\ str[i] # d /\ str[i - 1] = d
      BY <2>5
    <3>2. lastPos < i /\ i \in desde..Len(str)
      BY <1>0, <2>3, <3>1
    <3> QED
      BY <3>1, <3>2 DEF Cortes
  <2>7. ASSUME NEW i \in Cortes(str, d, desde), i # lastPos PROVE i \in Cortes(str, d, p)
    <3>1. i \in desde..Len(str) /\ str[i] # d /\ (i = desde \/ str[i - 1] = d)
      BY DEF Cortes
    <3>2. i > lastPos
      <4>1. i \notin desde..(lastPos - 1)
        BY <1>1, <3>1
      <4> QED
        BY <1>0, <2>1, <2>7, <3>1, <4>1
    <3>3. str[i - 1] = d
      BY <1>0, <2>1, <3>1, <3>2
    <3>4. i - 1 \notin lastPos..(p - 1)
      BY <1>3, <3>3
    <3>5. i \in p..Len(str)
      BY <1>0, <2>3, <3>1, <3>2, <3>4
    <3> QED
      BY <3>1, <3>3, <3>5 DEF Cortes
  <2> QED
    BY <2>3, <2>4, <2>6, <2>7
<1> QED
  BY <1>4, <1>5

(* The place of an element is the number of those up to it.                *)
LEMMA LugarEnOrden ==
  ASSUME NEW S, S \subseteq Nat, IsFiniteSet(S), NEW i \in 1..Cardinality(S), NEW l \in S,
         NEW U, U \subseteq S, \A m \in S : m \in U <=> m <= l
  PROVE  EnOrden(S)[i] = l <=> Cardinality(U) = i
<1>1. \A k \in 1..Cardinality(S) : \A x \in S : EnOrden(S)[k] = x <=> Cardinality({ m \in S : m <= x }) = k
  BY OrdenDeIds
<1>2. EnOrden(S)[i] = l <=> Cardinality({ m \in S : m <= l }) = i
  BY <1>1, Zenon
<1>3. U = { m \in S : m <= l }
  OBVIOUS
<1> QED
  BY <1>2, <1>3

(* With one more before all of them, each comes one place later.           *)
Delante(x, S) == [k \in 1..(Cardinality(S) + 1) |-> IF k = 1 THEN x ELSE EnOrden(S)[k - 1]]
LEMMA OrdenConPrimero ==
  ASSUME NEW S, S \subseteq Nat, IsFiniteSet(S), NEW x \in Nat, \A y \in S : x < y,
         NEW T, x \in T, S \subseteq T, \A y \in T : y = x \/ y \in S
  PROVE  /\ T \subseteq Nat /\ IsFiniteSet(T) /\ Cardinality(T) = Cardinality(S) + 1
         /\ EnOrden(T) = Delante(x, S)
<1> DEFINE n == Cardinality(S)
<1>1. T \subseteq Nat /\ IsFiniteSet(T) /\ Cardinality(T) = n + 1 /\ n \in Nat
  <2>1. x \notin S
    OBVIOUS
  <2>2. T = S \cup {x} /\ T \subseteq Nat
    OBVIOUS
  <2>3. IsFiniteSet(S \cup {x}) /\ Cardinality(S \cup {x}) = n + 1
    BY <2>1, FS_AddElement
  <2> QED
    BY <2>2, <2>3, FS_CardinalityType
<1>2. EnOrden(T)[1] = x
  <2>1. PICK U : U = {x}
    OBVIOUS
  <2>2. PICK y : y = x
    OBVIOUS
  <2>3. U \subseteq T /\ \A m \in T : m \in U <=> m <= y
    <3>1. x <= x /\ \A z \in S : ~ (z <= x)
      OBVIOUS
    <3> QED
      BY <2>1, <2>2, <3>1
  <2>4. Cardinality(U) = 1
    BY <2>1, FS_Singleton
  <2>5. PICK h : h = 1
    OBVIOUS
  <2>6. h \in 1..Cardinality(T) /\ y \in T
    BY <1>1, <2>2, <2>5
  <2>7. EnOrden(T)[h] = y <=> Cardinality(U) = h
    <3>1. T \subseteq Nat /\ IsFiniteSet(T)
      BY <1>1
    <3>2. U \subseteq T
      BY <2>3
    <3>3. \A m \in T : m \in U <=> m <= y
      BY <2>3
    <3>4. h \in 1..Cardinality(T) /\ y \in T
      BY <2>6
    <3> QED
      BY <3>1, <3>2, <3>3, <3>4, LugarEnOrden
  <2> QED
    BY <2>2, <2>4, <2>5, <2>7
<1>3. ASSUME NEW k \in 1..n PROVE EnOrden(T)[k + 1] = EnOrden(S)[k]
  <2>1. PICK y : y = EnOrden(S)[k]
    OBVIOUS
  <2>2. y \in S
    BY <2>1, OrdenDeIds
  <2>3. PICK U : U = { m \in S : m <= y }
    OBVIOUS
  <2>4. Cardinality(U) = k
    <3>1. U \subseteq S /\ \A m \in S : m \in U <=> m <= y
      BY <2>3
    <3> QED
      BY <2>1, <2>2, <3>1, LugarEnOrden
  <2>5. { m \in T : m <= y } = U \cup {x} /\ x \notin U /\ U \subseteq S
    <3>1. x <= y /\ x \notin S
      BY <2>2
    <3> QED
      BY <2>3, <3>1
  <2>6. Cardinality(U \cup {x}) = k + 1
    <3>1. IsFiniteSet(U)
      BY <2>5, FS_Subset
    <3> QED
      BY <2>4, <2>5, <3>1, FS_AddElement
  <2>7. PICK V : V = U \cup {x}
    OBVIOUS
  <2>8. k + 1 \in 1..Cardinality(T) /\ y \in T
    BY <1>1, <2>2
  <2>9. V \subseteq T /\ (\A m \in T : m \in V <=> m <= y) /\ Cardinality(V) = k + 1
    BY <2>5, <2>6, <2>7
  <2>10. PICK h : h = k + 1
    OBVIOUS
  <2>11. h \in 1..Cardinality(T)
    BY <2>8, <2>10
  <2>12. EnOrden(T)[h] = y <=> Cardinality(V) = h
    BY <1>1, <2>8, <2>9, <2>11, LugarEnOrden
  <2> QED
    BY <2>1, <2>9, <2>10, <2>12
<1>4. EnOrden(T) = [k \in 1..(n + 1) |-> EnOrden(T)[k]]
  BY <1>1 DEF EnOrden
<1>5. ASSUME NEW k \in 1..(n + 1) PROVE EnOrden(T)[k] = IF k = 1 THEN x ELSE EnOrden(S)[k - 1]
  <2>1. CASE k = 1
    BY <1>2, <2>1
  <2>2. CASE k # 1
    <3>1. k - 1 \in 1..n /\ (k - 1) + 1 = k
      BY <1>1, <2>2
    <3> QED
      BY <1>3, <2>2, <3>1
  <2> QED
    BY <2>1, <2>2
<1> HIDE DEF n
<1>6. EnOrden(T) = [k \in 1..(n + 1) |-> IF k = 1 THEN x ELSE EnOrden(S)[k - 1]]
  BY <1>4, <1>5, Zenon
<1> QED
  BY <1>1, <1>6 DEF Delante, n

(* What tokenize returns for the text from desde on.                       *)
Piezas(str, d, desde) ==
  [k \in 1..Cardinality(Cortes(str, d, desde)) |-> Pieza(str, d, EnOrden(Cortes(str, d, desde))[k])]

(* The places where pieces begin are finitely many.                        *)
LEMMA CortesFinitos ==
  ASSUME NEW X, NEW str \in Seq(X), NEW d, NEW desde \in 1..(Len(str) + 1)
  PROVE  /\ Cortes(str, d, desde) \subseteq Nat /\ Cortes(str, d, desde) \subseteq 1..Len(str)
         /\ IsFiniteSet(Cortes(str, d, desde))
         /\ Cardinality(Cortes(str, d, desde)) \in Nat
         /\ \A k \in 1..Cardinality(Cortes(str, d, desde)) :
              EnOrden(Cortes(str, d, desde))[k] \in Cortes(str, d, desde)
<1>1. PICK S : S = Cortes(str, d, desde)
  OBVIOUS
<1>2. S \subseteq 1..Len(str) /\ S \subseteq Nat /\ Len(str) \in Nat
  BY <1>1 DEF Cortes
<1>3. IsFiniteSet(S) /\ Cardinality(S) \in Nat
  <2>1. IsFiniteSet(1..Len(str))
    BY <1>2, FS_Interval
  <2>2. IsFiniteSet(S)
    BY <1>2, <2>1, FS_Subset
  <2> QED
    BY <2>2, FS_CardinalityType
<1>4. \A k \in 1..Cardinality(S) : EnOrden(S)[k] \in S
  BY <1>2, <1>3, OrdenDeIds
<1> QED
  BY <1>1, <1>2, <1>3, <1>4

(* A piece is a text with a character at least.                            *)
LEMMA UnaPiezaEsTexto ==
  ASSUME NEW X, NEW str \in Seq(X), NEW d, NEW desde \in 1..(Len(str) + 1), NEW i \in Cortes(str, d, desde)
  PROVE  Pieza(str, d, i) \in Seq(X) /\ Pieza(str, d, i) # <<>> /\ Pieza(str, d, i)[1] = str[i]
<1>1. Len(str) \in Nat /\ i \in 1..Len(str) /\ i \in 1..(Len(str) + 1) /\ str[i] # d
  BY DEF Cortes
<1>2. PICK p : p = find_first_of(str, d, i)
  OBVIOUS
<1>3. p \in i..(Len(str) + 1) /\ (p <= Len(str) => str[p] = d)
  BY <1>1, <1>2, Primero
<1>4. p \in (i + 1)..(Len(str) + 1)
  <2>1. p # i
    BY <1>1, <1>3
  <2> QED
    BY <1>1, <1>3, <2>1
<1>5. PICK q : q = p - 1
  OBVIOUS
<1>6. q \in i..Len(str)
  BY <1>1, <1>4, <1>5
<1>7. SubSeq(str, i, q) \in Seq(X) /\ Len(SubSeq(str, i, q)) = q - i + 1 /\ SubSeq(str, i, q)[1] = str[i]
  BY <1>1, <1>6
<1>8. SubSeq(str, i, q) # <<>>
  BY <1>1, <1>6, <1>7
<1> QED
  BY <1>2, <1>5, <1>7, <1>8 DEF Pieza

(* The pieces from a place on are the first one and those after it.        *)
LEMMA PiezasDesde ==
  ASSUME NEW X, NEW str \in Seq(X), NEW d, NEW desde \in 1..(Len(str) + 1),
         NEW lastPos, lastPos = find_first_not_of(str, d, desde),
         NEW p, p = find_first_of(str, d, lastPos)
  PROVE  /\ lastPos = Len(str) + 1 => Piezas(str, d, desde) = <<>>
         /\ lastPos # Len(str) + 1 =>
              /\ p \in (desde + 1)..(Len(str) + 1)
              /\ Piezas(str, d, desde) = <<SubSeq(str, lastPos, p - 1)>> \o Piezas(str, d, p)
<1>1. ASSUME lastPos = Len(str) + 1 PROVE Piezas(str, d, desde) = <<>>
  <2>1. Cortes(str, d, desde) = {}
    BY <1>1, UnaPieza
  <2>2. Cardinality(Cortes(str, d, desde)) = 0
    BY <2>1, FS_EmptySet
  <2> QED
    BY <2>2 DEF Piezas
<1>2. ASSUME lastPos # Len(str) + 1
      PROVE  /\ p \in (desde + 1)..(Len(str) + 1)
             /\ Piezas(str, d, desde) = <<SubSeq(str, lastPos, p - 1)>> \o Piezas(str, d, p)
  <2>0. Len(str) \in Nat
    OBVIOUS
  <2>1. p \in (desde + 1)..(Len(str) + 1) /\ lastPos \in desde..(p - 1)
    BY <1>2, UnaPieza
  <2>2. p \in 1..(Len(str) + 1) /\ lastPos \in Nat
    BY <2>0, <2>1
  <2>3. PICK S : S = Cortes(str, d, p)
    OBVIOUS
  <2>4. PICK T : T = Cortes(str, d, desde)
    OBVIOUS
  <2>5. lastPos \in T /\ S \subseteq T /\ (\A y \in T : y = lastPos \/ y \in S) /\ \A y \in S : lastPos < y
    BY <1>2, <2>3, <2>4, UnaPieza
  <2>6. S \subseteq Nat /\ IsFiniteSet(S) /\ Cardinality(S) \in Nat /\ \A k \in 1..Cardinality(S) : EnOrden(S)[k] \in S
    BY <2>2, <2>3, CortesFinitos
  <2> DEFINE n == Cardinality(S)
             a == SubSeq(str, lastPos, p - 1)
  <2>a. Cardinality(T) = Cardinality(S) + 1 /\ EnOrden(T) = Delante(lastPos, S)
    <3>1. S \subseteq Nat /\ IsFiniteSet(S)
      BY <2>6
    <3>2. lastPos \in Nat /\ lastPos \in T /\ S \subseteq T
      BY <2>2, <2>5
    <3>3. (\A y \in S : lastPos < y) /\ \A y \in T : y = lastPos \/ y \in S
      BY <2>5
    <3> QED
      BY <3>1, <3>2, <3>3, OrdenConPrimero
  <2>7. Cardinality(T) = n + 1
    BY <2>a
  <2>b. EnOrden(T) = [k \in 1..(n + 1) |-> IF k = 1 THEN lastPos ELSE EnOrden(S)[k - 1]]
    BY <2>a DEF Delante
  <2>8. EnOrden(T)[1] = lastPos
    <3> HIDE DEF n
    <3>1. 1 \in 1..(n + 1)
      BY <2>6 DEF n
    <3> QED
      BY <2>b, <3>1
  <2>9. \A k \in 1..n : EnOrden(T)[k + 1] = EnOrden(S)[k]
    <3>1. \A k \in 1..n : k + 1 \in 1..(n + 1) /\ k + 1 # 1 /\ (k + 1) - 1 = k
      BY <2>6
    <3> HIDE DEF n
    <3> QED
      BY <2>b, <3>1
  <2>10. Piezas(str, d, p) = [k \in 1..n |-> Pieza(str, d, EnOrden(S)[k])]
    BY <2>3 DEF Piezas
  <2>11. Piezas(str, d, desde) = [k \in 1..(n + 1) |-> Pieza(str, d, EnOrden(T)[k])]
    BY <2>4, <2>7 DEF Piezas
  <2>12. Pieza(str, d, lastPos) = a
    BY DEF Pieza
  <2>13. a \in Seq(X)
    BY <2>4, <2>5, <2>12, UnaPiezaEsTexto
  <2>14. \A k \in 1..n : Pieza(str, d, EnOrden(S)[k]) \in Seq(X)
    BY <2>2, <2>3, <2>6, UnaPiezaEsTexto
  <2> HIDE DEF a
  <2>15. PICK P : P = Piezas(str, d, p)
    OBVIOUS
  <2>16. PICK Q : Q = Piezas(str, d, desde)
    OBVIOUS
  <2>17. n \in Nat /\ P \in Seq(Seq(X)) /\ Len(P) = n
    BY <2>6, <2>10, <2>14, <2>15
  <2>18. \A k \in 1..n : P[k] = Pieza(str, d, EnOrden(S)[k])
    BY <2>10, <2>15
  <2> HIDE DEF n
  <2>19. DOMAIN Q = 1..(n + 1) /\ Q[1] = a
    <3>1. 1 \in 1..(n + 1)
      BY <2>17
    <3> QED
      BY <2>8, <2>11, <2>12, <2>16, <3>1
  <2>20. \A k \in 2..(n + 1) : Q[k] = P[k - 1]
    <3> SUFFICES ASSUME NEW k \in 2..(n + 1) PROVE Q[k] = P[k - 1]
      OBVIOUS
    <3>1. PICK h : h = k - 1
      OBVIOUS
    <3>2. h \in 1..n /\ k = h + 1 /\ k \in 1..(n + 1)
      BY <2>17, <3>1
    <3>3. EnOrden(T)[k] = EnOrden(S)[h]
      BY <2>9, <3>2
    <3>4. Q[k] = Pieza(str, d, EnOrden(T)[k])
      BY <2>11, <2>16, <3>2
    <3> QED
      BY <2>18, <3>1, <3>2, <3>3, <3>4
  <2>21. PICK R : R = <<a>> \o P
    OBVIOUS
  <2>22. DOMAIN R = 1..(n + 1) /\ R[1] = a /\ \A k \in 2..(n + 1) : R[k] = P[k - 1]
    BY <2>13, <2>17, <2>21
  <2>23. Q = R
    <3>1. Q = [k \in 1..(n + 1) |-> Q[k]]
      BY <2>11, <2>16
    <3>2. R = [k \in 1..(n + 1) |-> R[k]]
      <4>1. R \in Seq(Seq(X))
        BY <2>13, <2>17, <2>21
      <4> QED
        BY <2>22, <4>1
    <3>3. \A k \in 1..(n + 1) : k = 1 \/ k \in 2..(n + 1)
      BY <2>17
    <3>4. \A k \in 1..(n + 1) : Q[k] = R[k]
      BY <2>19, <2>20, <2>22, <3>3
    <3> QED
      BY <3>1, <3>2, <3>4
  <2> QED
    BY <2>1, <2>15, <2>16, <2>21, <2>23 DEF a
<1> QED
  BY <1>1, <1>2

(* tokenize cuts the text where its pieces begin.                          *)
LEMMA TokenizeCorta ==
  ASSUME NEW X, NEW str \in Seq(X), NEW d
  PROVE  tokenize(str, d) = Piezas(str, d, 1)
<1> DEFINE D == 1..(Len(str) + 1)
           uno(p) == find_first_not_of(str, d, p)
           dos(p) == find_first_of(str, d, uno(p))
           F(f, p) == IF uno(p) = Len(str) + 1 THEN <<>>
                      ELSE <<SubSeq(str, uno(p), dos(p) - 1)>> \o f[dos(p)]
           g == [p \in D |-> Piezas(str, d, p)]
           resto == CHOOSE f : f = [p \in D |-> F(f, p)]
<1>0. Len(str) \in Nat
  OBVIOUS
<1>1. tokenize(str, d) = resto[1]
  BY DEF tokenize, npos
<1>2. ASSUME NEW p \in D, uno(p) # Len(str) + 1 PROVE dos(p) \in D /\ dos(p) > p
  <2>1. dos(p) \in (p + 1)..(Len(str) + 1)
    <3> PICK a, b : a = uno(p) /\ b = dos(p)
      OBVIOUS
    <3> QED
      BY <1>2, PiezasDesde
  <2> QED
    BY <1>0, <2>1
<1>3. \A p \in D : g[p] = F(g, p)
  <2> SUFFICES ASSUME NEW p \in D PROVE g[p] = F(g, p)
    OBVIOUS
  <2>1. PICK a : a = uno(p)
    OBVIOUS
  <2>2. PICK b : b = dos(p)
    OBVIOUS
  <2>3. g[p] = Piezas(str, d, p)
    OBVIOUS
  <2>4. CASE a = Len(str) + 1
    <3>1. Piezas(str, d, p) = <<>>
      BY <2>1, <2>2, <2>4, PiezasDesde
    <3> QED
      BY <2>1, <2>3, <2>4, <3>1
  <2>5. CASE a # Len(str) + 1
    <3>a. PICK q \in 1..(Len(str) + 1) : q = p
      OBVIOUS
    <3>0. a = find_first_not_of(str, d, q) /\ b = find_first_of(str, d, a)
      BY <2>1, <2>2, <3>a
    <3>b. a # Len(str) + 1 => /\ b \in (q + 1)..(Len(str) + 1)
                               /\ Piezas(str, d, q) = <<SubSeq(str, a, b - 1)>> \o Piezas(str, d, b)
      <4> HIDE DEF uno, dos, F, g, D
      <4> QED
        BY <3>0, PiezasDesde
    <3>1. Piezas(str, d, q) = <<SubSeq(str, a, b - 1)>> \o Piezas(str, d, b)
      BY <2>5, <3>b
    <3>2. b \in D
      BY <1>2, <2>1, <2>2, <2>5
    <3>3. g[b] = Piezas(str, d, b)
      BY <3>2
    <3> HIDE DEF g
    <3> QED
      BY <2>1, <2>2, <2>3, <2>5, <3>a, <3>1, <3>3
  <2> QED
    BY <2>4, <2>5
<1>4. g = [p \in D |-> F(g, p)]
  BY <1>3, Zenon
<1>5. resto = [p \in D |-> F(resto, p)]
  <2> HIDE DEF g, F, D
  <2> QED
    BY <1>4, Zenon
<1>6. \A p \in D : resto[p] = F(resto, p)
  <2> HIDE DEF F, D, resto
  <2> QED
    BY <1>5, Zenon
<1>7. \A p \in D : resto[p] = g[p]
  <2> SUFFICES ASSUME NEW q \in D, resto[q] # g[q] PROVE FALSE
    OBVIOUS
  <2> DEFINE T == { Len(str) + 1 - p : p \in { x \in D : resto[x] # g[x] } }
  <2> HIDE DEF resto, g
  <2>1. T \subseteq Nat /\ T # {}
    BY <1>0
  <2>2. PICK k \in T : \A j \in T : k <= j
    <3> HIDE DEF T
    <3> QED
      BY <2>1, MenorNatural
  <2>3. PICK p \in D : resto[p] # g[p] /\ k = Len(str) + 1 - p
    OBVIOUS
  <2>4. ASSUME NEW r \in D, r > p PROVE resto[r] = g[r]
    <3>1. resto[r] # g[r] => Len(str) + 1 - r \in T
      OBVIOUS
    <3>2. Len(str) + 1 - r < k
      BY <1>0, <2>3, <2>4
    <3>3. k \in Int /\ Len(str) + 1 - r \in Int
      BY <1>0, <2>3
    <3> HIDE DEF T
    <3> QED
      BY <2>2, <3>1, <3>2, <3>3
  <2>5. F(resto, p) = F(g, p)
    BY <1>2, <2>4
  <2> QED
    BY <1>3, <1>6, <2>3, <2>5
<1>8. 1 \in D
  BY <1>0
<1> HIDE DEF resto
<1> QED
  BY <1>1, <1>7, <1>8

(* The pieces are those that Trozo takes from the text.                    *)
LEMMA TrozoEsPieza ==
  ASSUME NEW X, NEW str \in Seq(X), NEW d, NEW k \in 1..Cardinality(Inicios(str, d))
  PROVE  Trozo(str, d, k) = Pieza(str, d, EnOrden(Inicios(str, d))[k])
<1>0. Len(str) \in Nat
  OBVIOUS
<1>1. PICK S : S = Inicios(str, d)
  OBVIOUS
<1>2. S = Cortes(str, d, 1)
  BY <1>1 DEF Inicios, Cortes
<1>3. PICK i : i = EnOrden(S)[k]
  OBVIOUS
<1>4. i = CHOOSE l \in S : Cardinality({ m \in S : m <= l }) = k
  BY <1>1, <1>3 DEF EnOrden
<1>5. i \in S /\ i \in 1..Len(str) /\ str[i] # d
  <2>1. 1 \in 1..(Len(str) + 1)
    BY <1>0
  <2>2. i \in S
    BY <1>1, <1>2, <1>3, <2>1, CortesFinitos
  <2> QED
    BY <1>1, <2>2 DEF Inicios
<1>6. PICK p : p = find_first_of(str, d, i)
  OBVIOUS
<1>7. /\ p \in i..(Len(str) + 1) /\ (p <= Len(str) => str[p] = d)
      /\ \A h \in i..(p - 1) : str[h] # d
  <2>1. i \in 1..(Len(str) + 1)
    BY <1>0, <1>5
  <2> QED
    BY <1>6, <2>1, Primero
<1>8. p # i
  BY <1>0, <1>5, <1>7
<1> DEFINE C == { j \in i..Len(str) : \A h \in i..j : str[h] # d }
<1>9. p - 1 \in C
  <2>1. p - 1 \in i..Len(str)
    BY <1>0, <1>5, <1>7, <1>8
  <2> QED
    BY <1>7, <2>1
<1>10. \A j \in C : p - 1 >= j /\ j \in Int
  <2> SUFFICES ASSUME NEW j \in i..Len(str), \A h \in i..j : str[h] # d, ~ (p - 1 >= j) PROVE FALSE
    BY <1>0, <1>5
  <2>1. p \in i..j /\ p <= Len(str)
    BY <1>0, <1>5, <1>7
  <2> QED
    BY <1>7, <2>1
<1>11. Max(C) = p - 1
  <2>1. p - 1 \in Int
    BY <1>5, <1>7
  <2> HIDE DEF C
  <2>2. Max(C) \in C /\ \A j \in C : Max(C) >= j
    BY <1>9, <1>10 DEF Max
  <2> QED
    BY <1>9, <1>10, <2>1, <2>2
<1>12. Trozo(str, d, k) = SubSeq(str, i, Max(C))
  BY <1>1, <1>4 DEF Trozo
<1> QED
  BY <1>1, <1>3, <1>6, <1>11, <1>12 DEF Pieza

(* tokenize gives the pieces of a text, none of them empty.                *)
LEMMA TokenizeDaTrozos ==
  ASSUME NEW X, NEW str \in Seq(X), NEW d
  PROVE  /\ Cardinality(Inicios(str, d)) \in Nat
         /\ tokenize(str, d) = [k \in 1..Cardinality(Inicios(str, d)) |-> Trozo(str, d, k)]
         /\ Len(tokenize(str, d)) = Cardinality(Inicios(str, d))
         /\ \A k \in 1..Cardinality(Inicios(str, d)) : Trozo(str, d, k) \in Seq(X) /\ Trozo(str, d, k) # <<>>
<1>1. PICK S : S = Inicios(str, d)
  OBVIOUS
<1>2. S = Cortes(str, d, 1)
  BY <1>1 DEF Inicios, Cortes
<1>3. 1 \in 1..(Len(str) + 1)
  OBVIOUS
<1>4. Cardinality(S) \in Nat /\ \A k \in 1..Cardinality(S) : EnOrden(S)[k] \in S
  BY <1>2, <1>3, CortesFinitos
<1>5. \A k \in 1..Cardinality(S) : Trozo(str, d, k) = Pieza(str, d, EnOrden(S)[k])
  BY <1>1, TrozoEsPieza
<1>6. tokenize(str, d) = [k \in 1..Cardinality(S) |-> Pieza(str, d, EnOrden(S)[k])]
  <2>1. tokenize(str, d) = Piezas(str, d, 1)
    BY TokenizeCorta
  <2> QED
    BY <1>2, <2>1 DEF Piezas
<1>7. tokenize(str, d) = [k \in 1..Cardinality(S) |-> Trozo(str, d, k)]
  BY <1>5, <1>6
<1>8. \A i \in S : Pieza(str, d, i) \in Seq(X) /\ Pieza(str, d, i) # <<>>
  BY <1>2, <1>3, UnaPiezaEsTexto
<1>9. \A k \in 1..Cardinality(S) : Trozo(str, d, k) \in Seq(X) /\ Trozo(str, d, k) # <<>>
  BY <1>4, <1>5, <1>8
<1>10. Len(tokenize(str, d)) = Cardinality(S)
  BY <1>4, <1>7
<1> QED
  BY <1>1, <1>4, <1>7, <1>9, <1>10

(* tokenize, piece by piece.                                               *)
LEMMA CadaTrozo ==
  ASSUME NEW X, NEW str \in Seq(X), NEW d, NEW n, n = Cardinality(Inicios(str, d)), NEW ws, ws = tokenize(str, d)
  PROVE  /\ n \in Nat /\ Len(ws) = n
         /\ \A k \in 1..n : ws[k] = Trozo(str, d, k) /\ ws[k] \in Seq(X) /\ ws[k] # <<>>
<1>1. n \in Nat /\ Len(ws) = n
  BY TokenizeDaTrozos
<1>2. \A k \in 1..n : Trozo(str, d, k) \in Seq(X) /\ Trozo(str, d, k) # <<>>
  BY TokenizeDaTrozos
<1>3. tokenize(str, d) = [k \in 1..Cardinality(Inicios(str, d)) |-> Trozo(str, d, k)]
  BY TokenizeDaTrozos
<1>4. \A k \in 1..n : ws[k] = Trozo(str, d, k)
  BY <1>3
<1> QED
  BY <1>1, <1>2, <1>4

(* Max, of a set of places.                                                *)
LEMMA MaximoDe ==
  ASSUME NEW n \in Nat, NEW s \in SUBSET (1..n), s # {}
  PROVE  Max(s) \in s /\ \A i \in s : i <= Max(s)
<1> DEFINE T == { n - i : i \in s }
<1>0. \A i \in s : i \in Int /\ n - i \in Nat
  OBVIOUS
<1>1. T \subseteq Nat /\ T # {}
  BY <1>0
<1>2. PICK k \in T : \A j \in T : k <= j
  <2> HIDE DEF T
  <2> QED
    BY <1>1, MenorNatural
<1>3. PICK i \in s : k = n - i
  OBVIOUS
<1>4. \A j \in s : n - i <= n - j
  BY <1>2, <1>3
<1>5. \A j \in s : i >= j
  BY <1>0, <1>4
<1>6. Max(s) \in s /\ \A j \in s : Max(s) >= j
  BY <1>5 DEF Max
<1> QED
  BY <1>6

-----------------------------------------------------------------------------
(* The weight of a word.                                                   *)

(* The recursion of ValorDe has a solution: there is one for the sets of    *)
(* no element and, given one for the sets of n, one for those of n + 1.    *)
LEMMA HayCuenta ==
  ASSUME NEW n \in Nat, NEW ds
  PROVE  \E f : f = [s \in SUBSET (1..n) |->
                       IF s = {} THEN 0 ELSE 10 * f[s \ {Max(s)}] + Lugar(Digitos, ds[Max(s)]) - 1]
<1> DEFINE F(f, s) == IF s = {} THEN 0 ELSE 10 * f[s \ {Max(s)}] + Lugar(Digitos, ds[Max(s)]) - 1
           D(k) == { s \in SUBSET (1..n) : Cardinality(s) <= k }
           T == { k \in Nat : \A f : f # [s \in D(k) |-> F(f, s)] }
<1>1. \A s \in SUBSET (1..n) : IsFiniteSet(s) /\ Cardinality(s) \in Nat /\ Cardinality(s) <= n
  <2>1. IsFiniteSet(1..n) /\ Cardinality(1..n) = n
    BY FS_Interval
  <2> QED
    BY <2>1, FS_Subset, FS_CardinalityType
<1>2. ASSUME NEW s \in SUBSET (1..n), s # {}
      PROVE  Max(s) \in s /\ s \ {Max(s)} \in SUBSET (1..n) /\ Cardinality(s \ {Max(s)}) = Cardinality(s) - 1
  <2>1. Max(s) \in s
    BY <1>1, <1>2, MaximoDe
  <2>2. IsFiniteSet(s)
    BY <1>1
  <2>3. Cardinality(s \ {Max(s)}) = Cardinality(s) - 1
    BY <2>1, <2>2, FS_RemoveElement
  <2> QED
    BY <2>1, <2>3
<1>3. ASSUME NEW k \in Nat, NEW f, f = [s \in D(k) |-> F(f, s)]
      PROVE  \E h : h = [s \in D(k + 1) |-> F(h, s)]
  <2> DEFINE h == [s \in D(k + 1) |-> F(f, s)]
  <2>0. \A s \in D(k) : f[s] = F(f, s)
    <3> HIDE DEF D, F
    <3> QED
      BY <1>3, Zenon
  <2>1. ASSUME NEW s \in D(k + 1) PROVE F(h, s) = F(f, s)
    <3>1. CASE s = {}
      BY <3>1
    <3>2. CASE s # {}
      <4>1. PICK t : t = s \ {Max(s)}
        OBVIOUS
      <4>2. t \in SUBSET (1..n) /\ Cardinality(t) = Cardinality(s) - 1
        BY <1>2, <3>2, <4>1
      <4>3. Cardinality(s) \in Nat /\ Cardinality(s) <= k + 1
        BY <1>1
      <4>4. t \in D(k) /\ t \in D(k + 1)
        BY <4>2, <4>3
      <4>5. h[t] = F(f, t)
        <5> HIDE DEF D, F
        <5> QED
          BY <4>4
      <4>6. h[t] = f[t]
        BY <2>0, <4>4, <4>5
      <4> HIDE DEF h, D
      <4> QED
        BY <3>2, <4>1, <4>6
    <3> QED
      BY <3>1, <3>2
  <2>2. h = [s \in D(k + 1) |-> F(h, s)]
    <3>1. \A s \in D(k + 1) : F(f, s) = F(h, s)
      BY <2>1
    <3> HIDE DEF D, F
    <3> QED
      BY <3>1, Zenon
  <2> HIDE DEF h
  <2> QED
    BY <2>2
<1>4. 0 \notin T
  <2> DEFINE h == [s \in D(0) |-> 0]
  <2>1. \A s \in D(0) : s = {}
    BY <1>1, FS_EmptySet
  <2>2. \A s \in D(0) : F(h, s) = 0
    BY <2>1
  <2>3. h = [s \in D(0) |-> F(h, s)]
    <3> HIDE DEF D, F
    <3> QED
      BY <2>2
  <2> HIDE DEF h, D, F
  <2> QED
    BY <2>3
<1>5. \A k \in Nat : k \notin T => k + 1 \notin T
  <2> HIDE DEF D, F
  <2> QED
    BY <1>3
<1>6. n \notin T
  <2> SUFFICES ASSUME T # {} PROVE FALSE
    OBVIOUS
  <2>1. PICK k \in T : \A j \in T : k <= j
    <3>1. T \subseteq Nat
      OBVIOUS
    <3> HIDE DEF T
    <3> QED
      BY <3>1, MenorNatural
  <2>2. k \in Nat
    OBVIOUS
  <2> HIDE DEF T
  <2>3. k # 0
    BY <1>4
  <2>4. k - 1 \in Nat /\ ~ (k <= k - 1) /\ (k - 1) + 1 = k
    BY <2>2, <2>3
  <2>5. k - 1 \notin T
    BY <2>1, <2>4
  <2> QED
    BY <1>5, <2>4, <2>5
<1>7. PICK f : f = [s \in D(n) |-> F(f, s)]
  <2> HIDE DEF D, F
  <2> QED
    BY <1>6
<1>8. D(n) = SUBSET (1..n)
  BY <1>1
<1>9. f = [s \in SUBSET (1..n) |-> F(f, s)]
  <2> HIDE DEF D, F
  <2> QED
    BY <1>7, <1>8
<1> QED
  BY <1>9

(* A number that begins with 1 or 2 is not zero.                           *)
LEMMA NumeroPositivo ==
  ASSUME NEW n \in Nat \ {0}, NEW ds, DOMAIN ds = 1..n, \A i \in 1..n : ds[i] \in ToSet(Digitos),
         ds[1] \in {"1", "2"}
  PROVE  ValorDe(ds) \in Nat \ {0}
<1> DEFINE w(i) == Lugar(Digitos, ds[i])
           F(f, s) == IF s = {} THEN 0 ELSE 10 * f[s \ {Max(s)}] + w(Max(s)) - 1
           iter == CHOOSE f : f = [s \in SUBSET (1..n) |-> F(f, s)]
<1>1. ValorDe(ds) = iter[1..n]
  BY DEF ValorDe, FoldLeft, MapThenFoldSet
<1>2. iter = [s \in SUBSET (1..n) |-> F(iter, s)]
  <2>1. \E f : f = [s \in SUBSET (1..n) |-> F(f, s)]
    BY HayCuenta
  <2> HIDE DEF F
  <2> QED
    BY <2>1, Zenon
<1>3. \A s \in SUBSET (1..n) : iter[s] = F(iter, s)
  <2> HIDE DEF F, iter
  <2> QED
    BY <1>2, Zenon
<1>4. \A i \in 1..n : w(i) \in 1..10
  <2> SUFFICES ASSUME NEW i \in 1..n PROVE w(i) \in 1..10
    OBVIOUS
  <2>1. ToSet(Digitos) = { Digitos[j] : j \in 1..10 } /\ Len(Digitos) = 10
    BY DEF ToSet, Digitos
  <2>2. \E j \in 1..Len(Digitos) : Digitos[j] = ds[i]
    BY <2>1
  <2> QED
    BY <2>1, <2>2 DEF Lugar
<1>5. w(1) \in 2..3
  <2>1. Lugar(Digitos, "1") = 2 /\ Lugar(Digitos, "2") = 3
    BY DEF Lugar, Digitos
  <2> QED
    BY <2>1
<1> HIDE DEF iter, w
<1>6. iter[{}] = 0
  BY <1>3
<1>7. ASSUME NEW k \in 1..n PROVE iter[1..k] = 10 * iter[1..(k - 1)] + w(k) - 1
  <2>1. Max(1..k) \in 1..k /\ \A i \in 1..k : i <= Max(1..k)
    <3>1. 1..k \in SUBSET (1..n) /\ 1..k # {}
      <4>1. k \in 1..k /\ \A i \in 1..k : i \in 1..n
        OBVIOUS
      <4> QED
        BY <4>1
    <3> QED
      BY <3>1, MaximoDe
  <2>2. Max(1..k) = k
    BY <2>1
  <2>3. (1..k) \ {k} = 1..(k - 1) /\ 1..k # {} /\ 1..k \in SUBSET (1..n)
    OBVIOUS
  <2>4. iter[1..k] = F(iter, 1..k)
    BY <1>3, <2>3
  <2> QED
    BY <2>2, <2>3, <2>4
<1>8. \A k \in 1..n : iter[1..k] \in Nat \ {0}
  <2> DEFINE T == { k \in 1..n : iter[1..k] \notin Nat \ {0} }
  <2> SUFFICES ASSUME T # {} PROVE FALSE
    OBVIOUS
  <2>1. PICK k \in T : \A j \in T : k <= j
    <3>1. T \subseteq Nat
      OBVIOUS
    <3> HIDE DEF T
    <3> QED
      BY <3>1, MenorNatural
  <2>2. k \in 1..n /\ iter[1..k] \notin Nat \ {0}
    OBVIOUS
  <2>3. PICK a : a = iter[1..k]
    OBVIOUS
  <2>4. PICK b : b = iter[1..(k - 1)]
    OBVIOUS
  <2>5. a = 10 * b + w(k) - 1
    BY <1>7, <2>2, <2>3, <2>4
  <2>6. CASE k = 1
    <3>1. 1..(k - 1) = {}
      BY <2>6
    <3>2. b = 0
      BY <1>6, <2>4, <3>1
    <3> QED
      BY <1>5, <2>2, <2>3, <2>5, <2>6, <3>2
  <2>7. CASE k # 1
    <3>1. k - 1 \in 1..n /\ ~ (k <= k - 1)
      BY <2>2, <2>7
    <3>2. k - 1 \notin T
      BY <2>1, <3>1
    <3>3. b \in Nat \ {0}
      BY <2>4, <3>1, <3>2
    <3>4. w(k) \in 1..10
      BY <1>4, <2>2
    <3>5. PICK c \in 1..10 : c = w(k)
      BY <3>4
    <3>6. a = 10 * b + c - 1
      BY <2>5, <3>5
    <3>7. a \in Nat \ {0}
      BY <3>3, <3>6
    <3> QED
      BY <2>2, <2>3, <3>7
  <2> QED
    BY <2>6, <2>7
<1>9. n \in 1..n
  OBVIOUS
<1> QED
  BY <1>1, <1>8, <1>9

(* A weight is an integer; read from 1 or 2, it is not 0.                  *)
LEMMA PesoLeido ==
  ASSUME NEW X, NEW str \in Seq(X), str # <<>>, NEW cxx11 \in BOOLEAN
  PROVE  /\ LeerPeso(str, cxx11) \in Int
         /\ str[1] \in {"1", "2"} => LeerPeso(str, cxx11) # 0
<1> DEFINE signo == str[1] \in {"+", "-"}
           ini == IF signo THEN 2 ELSE 1
           L == { i \in ini..Len(str) : str[i] \notin ToSet(Digitos) }
           fin == Primera(str, L)
           valor == ValorDe(SubSeq(str, ini, fin - 1))
           leido == IF str[1] = "-" THEN -valor ELSE valor
<1>1. LeerPeso(str, cxx11) = IF ini = fin THEN (IF cxx11 THEN 0 ELSE 1)
                             ELSE IF leido \in (-INT_MAX - 1)..INT_MAX THEN leido
                             ELSE IF ~cxx11 THEN 1
                             ELSE IF leido > 0 THEN INT_MAX ELSE -INT_MAX - 1
  BY DEF LeerPeso
<1>2. INT_MAX \in Nat \ {0}
  BY EnterosDelCompilador
<1>3. LeerPeso(str, cxx11) \in Int
  <2> HIDE DEF leido, ini, fin
  <2> QED
    BY <1>1, <1>2
<1>4. ASSUME str[1] \in {"1", "2"} PROVE LeerPeso(str, cxx11) # 0
  <2>0. Len(str) \in Nat \ {0}
    OBVIOUS
  <2>1. ini = 1 /\ ~ signo /\ str[1] # "-"
    BY <1>4
  <2>2. PICK p : p = fin
    OBVIOUS
  <2>3. p \in 1..(Len(str) + 1) /\ (p <= Len(str) => p \in L) /\ \A h \in 1..(p - 1) : h \notin L
    <3>1. L \subseteq 1..Len(str)
      BY <2>1
    <3> HIDE DEF L
    <3>2. 1 \in 1..(Len(str) + 1)
      BY <2>0
    <3> QED
      BY <2>2, <3>1, <3>2, PrimeraDe
  <2>4. str[1] \in ToSet(Digitos)
    <3>1. "1" = Digitos[2] /\ "2" = Digitos[3] /\ 2 \in DOMAIN Digitos /\ 3 \in DOMAIN Digitos
      BY DEF Digitos
    <3> QED
      BY <1>4, <3>1 DEF ToSet
  <2>5. p # 1
    BY <2>0, <2>3, <2>4
  <2>6. PICK n : n = p - 1
    OBVIOUS
  <2>7. n \in Nat \ {0} /\ n \in 1..Len(str)
    BY <2>0, <2>3, <2>5, <2>6
  <2>8. PICK ds : ds = SubSeq(str, 1, n)
    OBVIOUS
  <2>9. DOMAIN ds = 1..n /\ \A i \in 1..n : ds[i] = str[i]
    BY <2>7, <2>8
  <2>10. \A i \in 1..n : str[i] \in ToSet(Digitos)
    BY <2>0, <2>1, <2>3, <2>6, <2>7
  <2>11. ds[1] \in {"1", "2"}
    BY <1>4, <2>7, <2>9
  <2>12. ValorDe(ds) \in Nat \ {0}
    BY <2>7, <2>9, <2>10, <2>11, NumeroPositivo
  <2>13. leido = ValorDe(ds)
    BY <2>1, <2>2, <2>6, <2>8
  <2>14. ini # fin
    BY <2>1, <2>2, <2>5
  <2> HIDE DEF leido, ini, fin
  <2> QED
    BY <1>1, <1>2, <2>12, <2>13, <2>14
<1> QED
  BY <1>3, <1>4

-----------------------------------------------------------------------------
(* The query.                                                              *)

(* A token is understood, or it is one of those that are refused.          *)
LEMMA TokenEntendido ==
  ASSUME NEW X, NEW t \in Seq(X), t # <<>>, NEW cxx11 \in BOOLEAN, NEW q, q = processToken(t, cxx11)
  PROVE  /\ q # InvalidToken => /\ Entendida(q, t) /\ q.weight \in Int
                                /\ q.included \in BOOLEAN /\ q.excluded \in BOOLEAN
         /\ q = InvalidToken => ~ Legible(t) \/ Peso0(t)
<1>1. PICK c : c = Cuerpo(t)
  OBVIOUS
<1>2. c \in Seq(X) /\ c = IF t[1] \in {"+", "-"} THEN Tail(t) ELSE t
  BY <1>1 DEF Cuerpo
<1>3. PICK n : n = Cardinality(Inicios(c, "^"))
  OBVIOUS
<1>4. PICK ws : ws = tokenize(c, "^")
  OBVIOUS
<1>5. n \in Nat /\ Len(ws) = n /\ \A k \in 1..n : ws[k] = Trozo(c, "^", k) /\ ws[k] \in Seq(X) /\ ws[k] # <<>>
  <2>1. PICK d : d = "^"
    OBVIOUS
  <2>2. n = Cardinality(Inicios(c, d)) /\ ws = tokenize(c, d)
    BY <1>3, <1>4, <2>1
  <2>5. c \in Seq(X)
    BY <1>2
  <2>3. n \in Nat /\ Len(ws) = n
    BY <2>2, <2>5, CadaTrozo
  <2>4. \A k \in 1..n : ws[k] = Trozo(c, d, k) /\ ws[k] \in Seq(X) /\ ws[k] # <<>>
    BY <2>2, <2>5, CadaTrozo
  <2> QED
    BY <2>1, <2>3, <2>4
<1>6. PICK weight : weight = IF n = 2 THEN LeerPeso(ws[2], cxx11) ELSE 1
  OBVIOUS
<1>7. PICK word : word = IF n = 2 THEN ws[1] ELSE c
  OBVIOUS
<1>8. PICK mas, menos : mas = (t[1] = "+") /\ menos = (t[1] = "-")
  OBVIOUS
<1>9. q = IF c = <<>> \/ n \notin {1, 2} \/ weight = 0 THEN InvalidToken ELSE Query(word, mas, menos, weight)
  <2>1. q = IF c = <<>> \/ Len(ws) \notin {1, 2} \/ (IF Len(ws) = 2 THEN LeerPeso(ws[2], cxx11) ELSE 1) = 0
            THEN InvalidToken
            ELSE Query(IF Len(ws) = 2 THEN ws[1] ELSE c, t[1] = "+", t[1] = "-",
                       IF Len(ws) = 2 THEN LeerPeso(ws[2], cxx11) ELSE 1)
    BY <1>2, <1>4 DEF processToken
  <2> QED
    BY <1>5, <1>6, <1>7, <1>8, <2>1
<1>10. weight \in Int
  <2>1. CASE n = 2
    <3>1. PICK p : p = ws[2]
      OBVIOUS
    <3>2. p \in Seq(X) /\ p # <<>>
      BY <1>5, <2>1, <3>1
    <3>3. LeerPeso(p, cxx11) \in Int
      BY <3>2, PesoLeido
    <3> QED
      BY <1>6, <2>1, <3>1, <3>3
  <2> QED
    BY <1>6, <2>1
<1>11. CASE c = <<>> \/ n \notin {1, 2} \/ weight = 0
  <2>1. q = InvalidToken
    BY <1>9, <1>11
  <2>2. CASE c = <<>>
    <3>1. Inicios(c, "^") = {}
      BY <2>2 DEF Inicios
    <3>2. n = 0
      BY <1>3, <3>1, FS_EmptySet
    <3>3. ~ Legible(t)
      BY <1>1, <1>3, <3>2 DEF Legible
    <3> QED
      BY <2>1, <3>3
  <2>3. CASE n \notin {1, 2}
    BY <1>1, <1>3, <2>1, <2>3 DEF Legible
  <2>4. CASE weight = 0
    <3>1. n = 2
      BY <1>6, <2>4
    <3>2. PICK p : p = ws[2]
      OBVIOUS
    <3>3. p \in Seq(X) /\ p # <<>> /\ p = Trozo(c, "^", 2)
      BY <1>5, <3>1, <3>2
    <3>4. LeerPeso(p, cxx11) = 0
      BY <1>6, <2>4, <3>1, <3>2
    <3>5. p[1] \notin {"1", "2"}
      BY <3>3, <3>4, PesoLeido
    <3>6. Peso0(t)
      BY <1>1, <1>3, <3>1, <3>3, <3>5 DEF Peso0
    <3> QED
      BY <2>1, <3>6
  <2> QED
    BY <1>11, <2>2, <2>3, <2>4
<1>12. CASE ~ (c = <<>> \/ n \notin {1, 2} \/ weight = 0)
  <2>1. q = [word |-> EnMinusculas(word), included |-> mas, excluded |-> menos, weight |-> weight]
    BY <1>9, <1>12 DEF Query
  <2>2. /\ q.word = EnMinusculas(word) /\ q.included = mas /\ q.excluded = menos /\ q.weight = weight
    BY <2>1
  <2>3. q # InvalidToken
    <3>1. "word" \in DOMAIN q /\ "word" \notin DOMAIN InvalidToken
      BY <2>1 DEF InvalidToken
    <3> QED
      BY <3>1
  <2>4. Legible(t)
    BY <1>1, <1>3, <1>12 DEF Legible
  <2>5. n = 1 => weight = 1 /\ word = c
    BY <1>6, <1>7
  <2>6. n # 1 => word = Trozo(c, "^", 1)
    <3>1. n # 1 => n = 2 /\ 1 \in 1..n
      BY <1>12
    <3> QED
      BY <1>5, <1>7, <3>1
  <2>7. Entendida(q, t)
    <3>1. /\ Legible(t) /\ q.weight # 0
          /\ q.included = (t[1] = "+") /\ q.excluded = (t[1] = "-")
      BY <1>8, <1>12, <2>2, <2>4
    <3>2. IF n = 1 THEN q.weight = 1 /\ q.word = EnMinusculas(c)
          ELSE q.word = EnMinusculas(Trozo(c, "^", 1))
      BY <2>2, <2>5, <2>6
    <3> QED
      BY <1>1, <1>3, <3>1, <3>2 DEF Entendida
  <2>8. q.weight \in Int /\ q.included \in BOOLEAN /\ q.excluded \in BOOLEAN
    <3>1. mas \in BOOLEAN /\ menos \in BOOLEAN
      BY <1>8
    <3> QED
      BY <1>10, <2>2, <3>1
  <2> QED
    BY <2>3, <2>7, <2>8
<1> QED
  BY <1>11, <1>12

(* A query cut at a delimiter, and what each piece of it says.             *)
Troceada(qs, n, text, cxx11, d) ==
  /\ n = Cardinality(Inicios(text, d))
  /\ qs = [k \in 1..Len(tokenize(text, d)) |-> processToken(tokenize(text, d)[k], cxx11)]
Leida(qs, n, text, d) ==
  /\ n \in Nat /\ Len(qs) = n
  /\ EsInvalida(qs) => \E k \in 1..n : ~ Legible(Trozo(text, d, k)) \/ Peso0(Trozo(text, d, k))
  /\ ~ EsInvalida(qs) =>
       \A k \in 1..n : /\ Entendida(qs[k], Trozo(text, d, k)) /\ qs[k].weight \in Int
                       /\ qs[k].included \in BOOLEAN /\ qs[k].excluded \in BOOLEAN

(* Each piece is read as a word, or it refuses the text.                   *)
LEMMA PalabraPorTrozo ==
  ASSUME NEW X, NEW text \in Seq(X), NEW cxx11 \in BOOLEAN, NEW d, NEW n, NEW qs,
         Troceada(qs, n, text, cxx11, d)
  PROVE  Leida(qs, n, text, d)
<1>0. /\ n = Cardinality(Inicios(text, d))
      /\ qs = [k \in 1..Len(tokenize(text, d)) |-> processToken(tokenize(text, d)[k], cxx11)]
  BY DEF Troceada
<1>1. PICK ws : ws = tokenize(text, d)
  OBVIOUS
<1>2. n \in Nat /\ Len(ws) = n
  BY <1>0, <1>1, CadaTrozo
<1>3. \A k \in 1..n : ws[k] = Trozo(text, d, k) /\ ws[k] \in Seq(X) /\ ws[k] # <<>>
  BY <1>0, <1>1, CadaTrozo
<1>4. qs = [k \in 1..n |-> processToken(ws[k], cxx11)]
  BY <1>0, <1>1, <1>2
<1>5. Len(qs) = n
  BY <1>2, <1>4
<1>6. ASSUME NEW k \in 1..n
      PROVE  /\ qs[k] # InvalidToken =>
                  /\ Entendida(qs[k], Trozo(text, d, k)) /\ qs[k].weight \in Int
                  /\ qs[k].included \in BOOLEAN /\ qs[k].excluded \in BOOLEAN
             /\ qs[k] = InvalidToken => ~ Legible(Trozo(text, d, k)) \/ Peso0(Trozo(text, d, k))
  <2>1. PICK t : t = ws[k]
    OBVIOUS
  <2>2. t \in Seq(X) /\ t # <<>> /\ t = Trozo(text, d, k)
    BY <1>3, <2>1
  <2>3. PICK q : q = qs[k]
    OBVIOUS
  <2>4. q = processToken(t, cxx11)
    BY <1>4, <2>1, <2>3
  <2>5. /\ q # InvalidToken => /\ Entendida(q, t) /\ q.weight \in Int
                               /\ q.included \in BOOLEAN /\ q.excluded \in BOOLEAN
        /\ q = InvalidToken => ~ Legible(t) \/ Peso0(t)
    BY <2>2, <2>4, TokenEntendido
  <2> QED
    BY <2>2, <2>3, <2>5
<1>7. EsInvalida(qs) <=> \E k \in 1..n : qs[k] = InvalidToken
  <2>1. DOMAIN qs = 1..n
    BY <1>4
  <2> QED
    BY <2>1 DEF EsInvalida, ToSet
<1> QED
  BY <1>2, <1>5, <1>6, <1>7 DEF Leida

(* What is asked, from the text.                                           *)
LEMMA ConsultaLeida ==
  ASSUME NEW X, NEW text \in Seq(X), NEW cxx11 \in BOOLEAN, NEW n, n = Cardinality(Inicios(text, " ")),
         NEW qs, qs = Parse(text, cxx11)
  PROVE  Leida(qs, n, text, " ")
<1>1. Troceada(qs, n, text, cxx11, " ")
  BY DEF Troceada, Parse
<1> QED
  BY <1>1, PalabraPorTrozo

-----------------------------------------------------------------------------
(* The words of the query in the lexicon.                                  *)


(* The words of the query that were looked up and count.                   *)
Buscadas == { i \in 1..queryIt : query[i].word \notin StopWords }

(* What is kept of the words looked up.                                    *)
Anotado ==
  /\ include = { Id(query[i].word) : i \in { j \in Buscadas : query[j].included } }
  /\ exclude = { Id(query[i].word) : i \in { j \in Buscadas : query[j].excluded } }
  /\ mustExcludeNotInLex <=> \E i \in Buscadas : query[i].excluded
  /\ EsVector(queryPair)
  /\ DOMAIN queryPair = { Id(query[i].word) : i \in { j \in Buscadas : ~query[j].excluded } } \ {-1}
  /\ \A i \in Buscadas :
       /\ ~query[i].excluded /\ Id(query[i].word) # -1
       /\ \A j \in Buscadas : ~query[j].excluded /\ Id(query[j].word) = Id(query[i].word) => j <= i
       => queryPair[Id(query[i].word)] = query[i].weight

(* What was asked, and how far it was looked up.                           *)
Pedido ==
  /\ paso = "espera" => query = <<>> /\ queryIt = 0
  /\ paso # "espera" => Leida(query, Cardinality(Inicios(texto, " ")), texto, " ")
  /\ paso \notin {"espera", "error"} => ~ EsInvalida(query)
  /\ paso = "error" => EsInvalida(query) /\ queryIt = 0
  /\ queryIt \in 0..Len(query)
  /\ paso \in {"lideres", "seguidores", "sinLider", "fin"} => queryIt = Len(query)
  /\ paso = "fin" /\ ~ Abierta => encontrados = <<>>

InvPedido == Anotado /\ Pedido

(* The ids of the lexicon are positive: -1 is the id of no word of it.     *)
LEMMA IdDePalabra ==
  ASSUME NEW w
  PROVE  /\ w \in DOMAIN Terminos => Id(w) \in Nat \ {0}
         /\ w \notin DOMAIN Terminos => Id(w) = -1
BY PalabrasDelLexico DEF Id

(* The words of a query that was taken.                                    *)
LEMMA PalabrasAsk ==
  ASSUME Pedido, paso \notin {"espera", "error"}
  PROVE  /\ Len(query) \in Nat
         /\ \A k \in 1..Len(query) :
              query[k].weight \in Int /\ query[k].included \in BOOLEAN /\ query[k].excluded \in BOOLEAN
<1>1. PICK n : n = Cardinality(Inicios(texto, " "))
  OBVIOUS
<1>2. Leida(query, n, texto, " ") /\ ~ EsInvalida(query)
  BY <1>1 DEF Pedido
<1> QED
  BY <1>2 DEF Leida

(* A step after the words are looked up leaves what was noted of them.     *)
LEMMA PedidoIgual ==
  ASSUME InvPedido, UNCHANGED <<texto, query, queryIt, queryPair, include, exclude, mustExcludeNotInLex>>,
         \/ paso' = paso /\ encontrados' = encontrados
         \/ paso = "consulta" /\ queryIt = Len(query) /\ encontrados = <<>> /\ encontrados' = <<>>
              /\ paso' \in {"lideres", "fin"}
         \/ /\ paso \in {"lideres", "seguidores", "sinLider"} /\ paso' \in {"lideres", "seguidores", "sinLider", "fin"}
            /\ Abierta
  PROVE  InvPedido'
<1>1. Buscadas' = Buscadas
  BY DEF Buscadas
<1>2. Anotado'
  BY <1>1 DEF InvPedido, Anotado
<1>3. Abierta' = Abierta
  BY DEF Abierta
<1>4. Pedido'
  BY <1>3 DEF InvPedido, Pedido
<1> QED
  BY <1>2, <1>4 DEF InvPedido

(* The text asked is of characters.                                        *)
LEMMA TextoAsk ==
  ASSUME InvLideres, NEW t \in Textos(docCount)
  PROVE  t \in Seq(STRING)
<1>1. entrada \in Entradas
  BY DEF InvLideres, Inv
<1> QED
  BY <1>1, TextosDeCaracteres DEF docCount

(* procesar: the text is parsed, and nothing is looked up yet.             *)
LEMMA PreguntarPide ==
  ASSUME InvLideres, InvPedido, Preguntar
  PROVE  InvPedido'
<1>1. PICK t : t = texto'
  OBVIOUS
<1>2. t \in Seq(STRING)
  BY <1>1, TextoAsk DEF Preguntar
<1>3. PICK cxx11 \in BOOLEAN : query' = Parse(texto', cxx11)
  BY DEF Preguntar
<1>4. PICK qs : qs = query'
  OBVIOUS
<1>5. PICK n : n = Cardinality(Inicios(t, " "))
  OBVIOUS
<1>6. Leida(qs, n, t, " ")
  BY <1>1, <1>2, <1>3, <1>4, <1>5, ConsultaLeida
<1>7. Len(qs) \in Nat
  BY <1>6 DEF Leida
<1>8. /\ paso = "espera" /\ paso' = IF EsInvalida(qs) THEN "error" ELSE "consulta"
      /\ UNCHANGED <<queryIt, queryPair, include, exclude, mustExcludeNotInLex, encontrados>>
  BY <1>4 DEF Preguntar
<1>9. queryIt = 0 /\ queryIt' = 0
  BY <1>8 DEF InvPedido, Pedido
<1>10. Buscadas = {} /\ Buscadas' = {}
  BY <1>9 DEF Buscadas
<1>11. Anotado'
  BY <1>8, <1>10 DEF InvPedido, Anotado
<1>12. Pedido'
  <2>1. Leida(query', Cardinality(Inicios(texto', " ")), texto', " ")
    BY <1>1, <1>4, <1>5, <1>6
  <2>2. (paso # "espera" => Leida(query, Cardinality(Inicios(texto, " ")), texto, " "))'
    BY <2>1
  <2>3. (paso \notin {"espera", "error"} => ~ EsInvalida(query))'
    BY <1>4, <1>8
  <2>4. (paso = "error" => EsInvalida(query) /\ queryIt = 0)'
    BY <1>4, <1>8, <1>9
  <2>5. (queryIt \in 0..Len(query))'
    BY <1>4, <1>7, <1>9
  <2>6. paso' \in {"error", "consulta"}
    BY <1>8
  <2> QED
    BY <2>2, <2>3, <2>4, <2>5, <2>6 DEF Pedido
<1> QED
  BY <1>11, <1>12 DEF InvPedido

(* One word more is looked up.                                             *)
LEMMA BuscarAnota ==
  ASSUME InvPedido, BuscarPalabra
  PROVE  InvPedido'
<1>1. PICK k : k = queryIt + 1
  OBVIOUS
<1>2. PICK q : q = query[k]
  OBVIOUS
<1>3. PICK id : id = Id(q.word)
  OBVIOUS
<1>4. PICK B : B = Buscadas
  OBVIOUS
<1>5. PICK C : C = Buscadas'
  OBVIOUS
<1>6. PICK util \in BOOLEAN : util <=> q.word \notin StopWords
  OBVIOUS
<1>7. /\ paso = "consulta" /\ queryIt < Len(query) /\ queryIt' = k
      /\ UNCHANGED <<paso, texto, query, encontrados>>
  BY <1>1 DEF BuscarPalabra
<1>8. /\ Len(query) \in Nat
      /\ \A j \in 1..Len(query) :
           query[j].weight \in Int /\ query[j].included \in BOOLEAN /\ query[j].excluded \in BOOLEAN
  BY <1>7, PalabrasAsk DEF InvPedido
<1>9. queryIt \in Nat /\ k \in 1..Len(query) /\ k \in Nat
  <2>1. queryIt \in 0..Len(query)
    BY DEF InvPedido, Pedido
  <2> QED
    BY <1>1, <1>7, <1>8, <2>1
<1>10. q.weight \in Int /\ q.included \in BOOLEAN /\ q.excluded \in BOOLEAN
  BY <1>2, <1>8, <1>9
<1>11. C = B \cup (IF util THEN {k} ELSE {}) /\ \A j \in B : j \in Nat /\ j < k
  <2>1. B = { i \in 1..queryIt : query[i].word \notin StopWords }
    BY <1>4 DEF Buscadas
  <2>2. C = { i \in 1..k : query[i].word \notin StopWords }
    BY <1>5, <1>7 DEF Buscadas
  <2>3. 1..k = 1..queryIt \cup {k} /\ \A i \in 1..queryIt : i \in Nat /\ i < k
    BY <1>1, <1>9
  <2> QED
    BY <1>2, <1>6, <2>1, <2>2, <2>3
<1>12. (q.word \in DOMAIN Terminos <=> id # -1) /\ (id # -1 => id \in Nat)
  BY <1>3, IdDePalabra
<1>13. /\ exclude' = exclude \cup (IF util /\ q.excluded THEN {id} ELSE {})
       /\ mustExcludeNotInLex' = (mustExcludeNotInLex \/ (util /\ q.excluded))
       /\ include' = include \cup (IF util /\ q.included THEN {id} ELSE {})
       /\ queryPair' = IF util /\ ~q.excluded /\ id # -1
                       THEN [t \in DOMAIN queryPair \cup {id} |-> IF t = id THEN q.weight ELSE queryPair[t]]
                       ELSE queryPair
  BY <1>1, <1>2, <1>3, <1>6, <1>12 DEF BuscarPalabra
<1>14. /\ include = { Id(query[i].word) : i \in { j \in B : query[j].included } }
       /\ exclude = { Id(query[i].word) : i \in { j \in B : query[j].excluded } }
       /\ mustExcludeNotInLex <=> \E i \in B : query[i].excluded
       /\ EsVector(queryPair)
       /\ DOMAIN queryPair = { Id(query[i].word) : i \in { j \in B : ~query[j].excluded } } \ {-1}
       /\ \A i \in B :
            /\ ~query[i].excluded /\ Id(query[i].word) # -1
            /\ \A j \in B : ~query[j].excluded /\ Id(query[j].word) = Id(query[i].word) => j <= i
            => queryPair[Id(query[i].word)] = query[i].weight
  BY <1>4 DEF InvPedido, Anotado
<1>15. include' = { Id(query[i].word) : i \in { j \in C : query[j].included } }
  BY <1>2, <1>3, <1>11, <1>13, <1>14
<1>16. exclude' = { Id(query[i].word) : i \in { j \in C : query[j].excluded } }
  BY <1>2, <1>3, <1>11, <1>13, <1>14
<1>17. mustExcludeNotInLex' <=> \E i \in C : query[i].excluded
  BY <1>2, <1>11, <1>13, <1>14
<1>18. DOMAIN queryPair' = { Id(query[i].word) : i \in { j \in C : ~query[j].excluded } } \ {-1}
  BY <1>2, <1>3, <1>11, <1>13, <1>14
<1>19. EsVector(queryPair')
  <2>1. IsFiniteSet(DOMAIN queryPair')
    <3>1. IsFiniteSet(DOMAIN queryPair) /\ IsFiniteSet(DOMAIN queryPair \cup {id})
      BY <1>14, FS_AddElement DEF EsVector
    <3> QED
      BY <1>13, <3>1
  <2>2. DOMAIN queryPair' \subseteq Nat
    BY <1>12, <1>13, <1>14 DEF EsVector
  <2>3. queryPair' \in [DOMAIN queryPair' -> Int]
    BY <1>10, <1>13, <1>14 DEF EsVector
  <2> QED
    BY <2>1, <2>2, <2>3 DEF EsVector
<1>20. ASSUME NEW i \in C, ~query[i].excluded, Id(query[i].word) # -1,
              \A j \in C : ~query[j].excluded /\ Id(query[j].word) = Id(query[i].word) => j <= i
       PROVE  queryPair'[Id(query[i].word)] = query[i].weight
  <2>1. PICK w : w = Id(query[i].word)
    OBVIOUS
  <2>2. CASE i = k /\ util
    BY <1>2, <1>3, <1>13, <1>20, <2>2
  <2>3. CASE i \in B
    <3>1. queryPair[w] = query[i].weight
      BY <1>11, <1>14, <1>20, <2>1, <2>3
    <3>2. w \in DOMAIN queryPair
      BY <1>14, <1>20, <2>1, <2>3
    <3>3. CASE util /\ ~q.excluded /\ id # -1
      <4>1. w # id
        <5>1. k \in C /\ i \in Nat /\ i < k
          BY <1>11, <2>3, <3>3
        <5>2. ~ query[k].excluded /\ Id(query[k].word) = id
          BY <1>2, <1>3, <3>3
        <5>3. ~ (k <= i)
          BY <1>9, <5>1
        <5> QED
          BY <1>20, <2>1, <5>1, <5>2, <5>3
      <4> QED
        BY <1>13, <2>1, <3>1, <3>2, <3>3, <4>1
    <3>4. CASE ~ (util /\ ~q.excluded /\ id # -1)
      BY <1>13, <2>1, <3>1, <3>4
    <3> QED
      BY <3>3, <3>4
  <2> QED
    BY <1>11, <2>2, <2>3
<1>21. Anotado'
  <2>1. query' = query
    BY <1>7
  <2> QED
    BY <1>5, <1>15, <1>16, <1>17, <1>18, <1>19, <1>20, <2>1 DEF Anotado
<1>22. Pedido'
  <2>1. (paso # "espera" => Leida(query, Cardinality(Inicios(texto, " ")), texto, " "))'
    BY <1>7 DEF InvPedido, Pedido
  <2>2. (paso \notin {"espera", "error"} => ~ EsInvalida(query))'
    BY <1>7 DEF InvPedido, Pedido
  <2>3. (queryIt \in 0..Len(query))'
    BY <1>7, <1>8, <1>9
  <2>4. paso' = "consulta"
    BY <1>7
  <2> QED
    BY <2>1, <2>2, <2>3, <2>4 DEF Pedido
<1> QED
  BY <1>21, <1>22 DEF InvPedido

(* Nothing is asked at the start.                                          *)
LEMMA InitPedido == InitBusqueda => InvPedido
<1> SUFFICES ASSUME InitBusqueda PROVE InvPedido
  OBVIOUS
<1>1. /\ paso = "espera" /\ query = <<>> /\ queryIt = 0 /\ queryPair = [t \in {} |-> 0]
      /\ include = {} /\ exclude = {} /\ mustExcludeNotInLex = FALSE
  BY DEF InitBusqueda
<1>2. Buscadas = {}
  BY <1>1 DEF Buscadas
<1>3. EsVector(queryPair)
  BY <1>1, FS_EmptySet DEF EsVector
<1>4. Anotado
  BY <1>1, <1>2, <1>3 DEF Anotado
<1>5. Pedido
  BY <1>1 DEF Pedido
<1> QED
  BY <1>4, <1>5 DEF InvPedido

(* Every step keeps what was asked and what was noted of it.               *)
LEMMA NextPedido ==
  ASSUME InvBusqueda, InvPedido, [NextBusqueda]_todo
  PROVE  InvPedido'
<1>1. CASE Preguntar
  BY <1>1, PreguntarPide DEF InvBusqueda
<1>2. CASE BuscarPalabra
  BY <1>2, BuscarAnota
<1>3. CASE Abrir
  <2>1. /\ paso = "consulta" /\ queryIt = Len(query) /\ encontrados' = encontrados /\ paso' \in {"lideres", "fin"}
        /\ UNCHANGED <<texto, query, queryIt, queryPair, include, exclude, mustExcludeNotInLex>>
    BY <1>3 DEF Abrir, palabras
  <2>2. encontrados = <<>>
    BY <2>1 DEF InvBusqueda, Estado
  <2> QED
    BY <2>1, <2>2, PedidoIgual
<1>4. CASE RankearLider \/ FinLideres \/ RankearSeguidor \/ FinSeguidores \/ RankearSinLider \/ Responder
  <2>1. /\ UNCHANGED <<texto, query, queryIt, queryPair, include, exclude, mustExcludeNotInLex>>
        /\ paso \in {"lideres", "seguidores", "sinLider"} /\ paso' \in {"lideres", "seguidores", "sinLider", "fin"}
    BY <1>4 DEF RankearLider, FinLideres, RankearSeguidor, FinSeguidores, RankearSinLider, Responder, palabras
  <2>2. Abierta
    BY <2>1 DEF InvBusqueda, Estado
  <2> QED
    BY <2>1, <2>2, PedidoIgual
<1>5. CASE (Next /\ UNCHANGED busca) \/ UNCHANGED todo
  <2>1. UNCHANGED <<paso, encontrados, texto, query, queryIt, queryPair, include, exclude, mustExcludeNotInLex>>
    BY <1>5 DEF todo, busca, palabras
  <2> QED
    BY <2>1, PedidoIgual
<1> QED
  BY <1>1, <1>2, <1>3, <1>4, <1>5 DEF NextBusqueda, Buscar

LEMMA PedidoSiempre == SpecBusqueda => [](InvBusqueda /\ InvPedido)
<1>1. InitBusqueda => InvPedido
  BY InitPedido
<1>2. InvBusqueda /\ InvPedido /\ [NextBusqueda]_todo => InvPedido'
  BY NextPedido
<1> QED
  BY <1>1, <1>2, InvBusquedaSiempre, PTL DEF SpecBusqueda

(* Whatever is asked, the words looked up are the runs of characters       *)
(* between spaces, each with its sign and its weight, and a text is        *)
(* refused only when one of its runs cannot be read or weighs nothing.     *)
THEOREM SiempreConsultaExacta == SpecBusqueda => []ConsultaExacta
<1>1. InvPedido => ConsultaExacta
  <2> SUFFICES ASSUME InvPedido PROVE ConsultaExacta
    OBVIOUS
  <2>1. PICK n : n = Cardinality(Inicios(texto, " "))
    OBVIOUS
  <2>2. paso # "espera" => Leida(query, n, texto, " ")
    BY <2>1 DEF InvPedido, Pedido
  <2>3. paso = "consulta" => ~ EsInvalida(query)
    BY DEF InvPedido, Pedido
  <2>4. paso = "error" => EsInvalida(query)
    BY DEF InvPedido, Pedido
  <2>5. paso = "consulta" => Len(query) = n /\ \A k \in 1..n : Entendida(query[k], Trozo(texto, " ", k))
    BY <2>2, <2>3 DEF Leida
  <2>6. paso = "error" => \E k \in 1..n : ~ Legible(Trozo(texto, " ", k)) \/ Peso0(Trozo(texto, " ", k))
    BY <2>2, <2>4 DEF Leida
  <2> QED
    BY <2>1, <2>5, <2>6 DEF ConsultaExacta
<1> QED
  BY <1>1, PedidoSiempre, PTL

-----------------------------------------------------------------------------
(* The documents that answer.                                              *)

(* All the words looked up, each weighs what the last one of its id does.  *)
LEMMA PesosDeTodas ==
  ASSUME InvPedido, queryIt = Len(query)
  PROVE  /\ include = Incluidas /\ exclude = Excluidas /\ EsVector(queryPair)
         /\ mustExcludeNotInLex <=> Excluidas # {}
         /\ queryPair = [w \in Pesadas |-> Peso(w)]
<1>1. Buscadas = Utiles
  BY DEF Buscadas, Utiles
<1>2. PICK U : U = Utiles
  OBVIOUS
<1>3. /\ include = { Id(query[i].word) : i \in { j \in U : query[j].included } }
      /\ exclude = { Id(query[i].word) : i \in { j \in U : query[j].excluded } }
      /\ mustExcludeNotInLex <=> \E i \in U : query[i].excluded
      /\ EsVector(queryPair)
      /\ DOMAIN queryPair = { Id(query[i].word) : i \in { j \in U : ~query[j].excluded } } \ {-1}
      /\ \A i \in U :
           /\ ~query[i].excluded /\ Id(query[i].word) # -1
           /\ \A j \in U : ~query[j].excluded /\ Id(query[j].word) = Id(query[i].word) => j <= i
           => queryPair[Id(query[i].word)] = query[i].weight
  BY <1>1, <1>2 DEF InvPedido, Anotado
<1>4. include = Incluidas /\ exclude = Excluidas
  BY <1>2, <1>3 DEF Incluidas, Excluidas
<1>5. DOMAIN queryPair = Pesadas
  BY <1>2, <1>3 DEF Pesadas
<1>6. mustExcludeNotInLex <=> Excluidas # {}
  BY <1>2, <1>3 DEF Excluidas
<1>7. Len(query) \in Nat
  <2>1. queryIt \in 0..Len(query)
    BY DEF InvPedido, Pedido
  <2>2. queryIt \in Int
    BY <2>1
  <2>3. queryIt \in Nat
    BY <2>1, <2>2
  <2> QED
    BY <2>3
<1>8. ASSUME NEW w \in Pesadas PROVE queryPair[w] = Peso(w)
  <2>1. PICK T : T = { i \in Utiles : Id(query[i].word) = w /\ ~query[i].excluded }
    OBVIOUS
  <2>2. T \subseteq 1..Len(query) /\ T # {}
    <3>1. T \subseteq 1..Len(query)
      BY <2>1 DEF Utiles
    <3>2. \E i \in Utiles : ~query[i].excluded /\ Id(query[i].word) = w
      BY <1>8 DEF Pesadas
    <3> QED
      BY <2>1, <3>1, <3>2
  <2>3. PICK m : m = Max(T)
    OBVIOUS
  <2>4. m \in T /\ \A i \in T : i <= m
    BY <1>7, <2>2, <2>3, MaximoDe
  <2>5. w # -1
    BY <1>8 DEF Pesadas
  <2>6. m \in U /\ ~query[m].excluded /\ Id(query[m].word) = w
    BY <1>2, <2>1, <2>4
  <2>7. \A j \in U : ~query[j].excluded /\ Id(query[j].word) = Id(query[m].word) => j <= m
    BY <1>2, <2>1, <2>4, <2>6
  <2>8. queryPair[w] = query[m].weight
    BY <1>3, <2>5, <2>6, <2>7
  <2> QED
    BY <2>1, <2>3, <2>8 DEF Peso
<1>9. queryPair = [w \in Pesadas |-> Peso(w)]
  <2>1. queryPair = [w \in DOMAIN queryPair |-> queryPair[w]]
    BY <1>3 DEF EsVector
  <2> QED
    BY <1>5, <1>8, <2>1
<1> QED
  BY <1>3, <1>4, <1>6, <1>9

(* A document ranks above 0 when it answers the query.                     *)
LEMMA RankeaSiResponde ==
  ASSUME InvPedido, queryIt = Len(query), Abierta, NEW d, EsVector(d.terminos)
  PROVE  Rank(d).num > 0 <=> Responde(d)
<1>1. PICK v : v = d.terminos
  OBVIOUS
<1>2. PICK p : p = queryPair
  OBVIOUS
<1>3. EsVector(v) /\ EsVector(p)
  BY <1>1, <1>2, PesosDeTodas
<1>4. DOMAIN p = Pesadas
  <2>1. p = [w \in Pesadas |-> Peso(w)]
    BY <1>2, PesosDeTodas
  <2> QED
    BY <2>1
<1>5. include = Incluidas /\ exclude = Excluidas /\ (mustExcludeNotInLex <=> Excluidas # {})
  BY PesosDeTodas
<1>6. Numerador(v, p) = Producto(v, p) /\ Numerador(v, p) \in Int
  <2>1. Numerador(v, p) = Suma(Productos(v, p), DOMAIN v \cap DOMAIN p)
    BY <1>3, NumeradorEsSuma
  <2>2. Producto(v, p) = Suma(Productos(v, p), DOMAIN v \cap DOMAIN p)
    BY <1>3, ProductoEsSuma
  <2>3. Numerador(v, p) \in Int
    BY <1>3, RankoHasta1
  <2> QED
    BY <2>1, <2>2, <2>3
<1>7. Responde(d) <=> /\ Excluidas \cap DOMAIN v = {}
                      /\ Incluidas = {} \/ Incluidas \cap DOMAIN v # {}
                      /\ IF Pesadas = {} THEN Excluidas # {} ELSE Producto(v, p) > 0
  <2>1. p = [w \in Pesadas |-> Peso(w)]
    BY <1>2, PesosDeTodas
  <2> QED
    BY <1>1, <2>1 DEF Responde
<1>8. Rank(d) = IF Excluidas \cap DOMAIN v # {} \/ (Incluidas # {} /\ Incluidas \cap DOMAIN v = {}) THEN Fijo(-1)
                ELSE IF Pesadas = {} THEN Fijo(1) ELSE Coseno(v)
  BY <1>1, <1>2, <1>4, <1>5 DEF Rank, doCosine
<1>9. Fijo(-1).num = -1 /\ Fijo(1).num = 1
  BY DEF Fijo
<1>10. Coseno(v).num = Numerador(v, p)
  BY <1>2 DEF Coseno, Fijo
<1>11. Pesadas = {} => Excluidas # {}
  BY <1>2, <1>4, <1>5 DEF Abierta
<1> QED
  BY <1>6, <1>7, <1>8, <1>9, <1>10, <1>11

(* The documents read are those of the index.                              *)
LEMMA DocLeido ==
  ASSUME InvLideres, NEW id \in Leidas
  PROVE  Doc(id) \in Registros(entrada) /\ Doc(id).id = id /\ EsVector(Doc(id).terminos)
<1>1. PICK i \in 1..leidos : id = entrada[i].id
  BY DEF Leidas
<1>2. leidos \in 0..docCount /\ docCount \in Nat
  BY EntradasOrdenadas DEF InvLideres, Inv, TypeOK, docCount
<1>3. i \in 1..Len(entrada)
  BY <1>2 DEF docCount
<1>4. PICK d \in Registros(entrada) : d = entrada[i]
  BY <1>3 DEF Registros
<1>5. Doc(d.id) = d /\ EsVector(d.terminos)
  BY DocDe DEF InvLideres
<1> QED
  BY <1>1, <1>4, <1>5

(* What is answered at the end, of the documents that were looked at.      *)
LEMMA RespondidoDeLoVisto ==
  ASSUME InvBusqueda, InvPedido, paso = "fin", Abierta, NEW ids, ids = Vistos, ids \subseteq Leidas
  PROVE  Respondidos = Respuestas(ids)
<1>1. queryIt = Len(query)
  BY DEF InvPedido, Pedido
<1>2. \A id \in ids : Rank(Doc(id)).num > 0 <=> Responde(Doc(id))
  <2> SUFFICES ASSUME NEW id \in ids PROVE Rank(Doc(id)).num > 0 <=> Responde(Doc(id))
    OBVIOUS
  <2>1. EsVector(Doc(id).terminos)
    BY DocLeido DEF InvBusqueda
  <2> QED
    BY <1>1, <2>1, RankeaSiResponde
<1>3. Hallados(ids)
  BY DEF InvBusqueda
<1>4. IdsDe(encontrados) = { id \in ids : Rank(Doc(id)).num > 0 } /\ encontrados \in Seq(Respuesta)
  BY <1>3 DEF Hallados
<1>5. PICK n : n = Len(encontrados)
  OBVIOUS
<1>6. n \in Nat
  BY <1>4, <1>5
<1>7. result = [i \in 1..n |-> encontrados[i].id]
  BY <1>5 DEF InvBusqueda, Estado
<1>8. Len(result) = n
  BY <1>6, <1>7
<1>9. Respondidos = IdsDe(encontrados)
  BY <1>5, <1>7, <1>8 DEF Respondidos, IdsDe
<1> QED
  BY <1>2, <1>4, <1>9 DEF Respuestas

(* A search of all answers exactly the documents of the index that have    *)
(* what is asked for and nothing of what is excluded, in whichever file    *)
(* buildLeaders put them, for any index and any query.                     *)
THEOREM SiempreTodasLasRespuestas == SpecBusqueda => []TodasLasRespuestas
<1>1. InvBusqueda /\ InvPedido => TodasLasRespuestas
  <2> SUFFICES ASSUME InvBusqueda, InvPedido, paso = "fin", ~ useLeader PROVE Respondidos = Respuestas(Leidas)
    BY DEF TodasLasRespuestas
  <2>1. CASE Abierta
    <3>1. Vistos = DOMAIN leaders \cup IdsDe(followers) \cup IdsDe(withoutLeader)
      BY <2>1 DEF Vistos, Agrupados
    <3>2. DOMAIN leaders \cup IdsDe(followers) \cup IdsDe(withoutLeader) = Leidas
      BY DEF InvBusqueda, InvLideres, Inv, UnSoloLugar
    <3>3. PICK ids : ids = Vistos
      OBVIOUS
    <3>4. ids = Leidas
      BY <3>1, <3>2, <3>3
    <3>5. Respondidos = Respuestas(ids)
      BY <2>1, <3>3, <3>4, RespondidoDeLoVisto
    <3> QED
      BY <3>4, <3>5
  <2>2. CASE ~ Abierta
    <3>1. queryIt = Len(query) /\ encontrados = <<>>
      BY <2>2 DEF InvPedido, Pedido
    <3>2. DOMAIN queryPair = {} /\ ~ mustExcludeNotInLex
      BY <2>2 DEF Abierta
    <3>3. Pesadas = {}
      <4>1. queryPair = [w \in Pesadas |-> Peso(w)]
        BY <3>1, PesosDeTodas
      <4> QED
        BY <3>2, <4>1
    <3>4. Excluidas = {}
      BY <3>1, <3>2, PesosDeTodas
    <3>5. \A d : ~ Responde(d)
      BY <3>3, <3>4 DEF Responde
    <3>6. Respuestas(Leidas) = {}
      BY <3>5 DEF Respuestas
    <3>7. Len(result) = 0
      <4>1. result = [i \in 1..Len(encontrados) |-> encontrados[i].id]
        BY DEF InvBusqueda, Estado
      <4>2. Len(encontrados) = 0 /\ 1..0 = {}
        BY <3>1
      <4>3. result = <<>>
        BY <4>1, <4>2
      <4> QED
        BY <4>3
    <3>8. Respondidos = {}
      BY <3>7 DEF Respondidos
    <3> QED
      BY <3>6, <3>8
  <2> QED
    BY <2>1, <2>2
<1> QED
  BY <1>1, PedidoSiempre, PTL

-----------------------------------------------------------------------------
(* The best leader.                                                        *)

(* Ranks are ordered, and no rank compares with a norm of 0.               *)
EsRango(r) == r.num \in Int /\ r.den \in Nat \ {0}

(* The denominator of a rank is positive: two vectors whose product is not *)
(* 0 have norms that are not 0, by CosenoExacto's bound.                   *)
LEMMA RangoDe ==
  ASSUME EsVector(queryPair), NEW d, EsVector(d.terminos)
  PROVE  EsRango(Rank(d))
<1>1. PICK v : v = d.terminos
  OBVIOUS
<1>2. PICK p : p = queryPair
  OBVIOUS
<1>3. /\ Numerador(v, p) \in Int /\ Norma2(v) \in Nat /\ Norma2(p) \in Nat
      /\ Numerador(v, p) * Numerador(v, p) <= Norma2(v) * Norma2(p)
  BY <1>1, <1>2, RankoHasta1
<1>4. EsRango(Coseno(v))
  <2>1. CASE Numerador(v, p) = 0
    <3>1. Coseno(v) = Fijo(0)
      BY <1>2, <2>1 DEF Coseno
    <3> QED
      BY <3>1 DEF Fijo, EsRango
  <2>2. CASE Numerador(v, p) # 0
    <3>1. PICK n, a, b : n = Numerador(v, p) /\ a = Norma2(v) /\ b = Norma2(p)
      OBVIOUS
    <3>2. n \in Int /\ n # 0 /\ a \in Nat /\ b \in Nat /\ n * n <= a * b
      BY <1>3, <2>2, <3>1
    <3>3. n * n > 0
      BY <3>2
    <3>4. a * b \in Nat
      BY <3>2
    <3>5. a * b \in Nat \ {0}
      <4>1. n * n \in Int /\ a * b > 0
        BY <3>2, <3>3, <3>4
      <4> QED
        BY <3>4, <4>1
    <3>6. Coseno(v) = [num |-> n, den |-> a * b]
      BY <1>2, <2>2, <3>1 DEF Coseno
    <3> QED
      BY <3>2, <3>5, <3>6 DEF EsRango
  <2> QED
    BY <2>1, <2>2
<1>5. EsRango(Fijo(-1)) /\ EsRango(Fijo(1))
  BY DEF Fijo, EsRango
<1>6. Rank(d) \in {Fijo(-1), Fijo(1), Coseno(v)}
  BY <1>1 DEF Rank, doCosine
<1> QED
  BY <1>4, <1>5, <1>6

(* Ranks are ordered.                                                      *)
LEMMA NoSuperaTransitiva ==
  ASSUME NEW r, EsRango(r), NEW s, EsRango(s), NEW t, EsRango(t), ~ Supera(r, s), ~ Supera(s, t)
  PROVE  ~ Supera(r, t)
<1>1. PICK a, b, c : a = ConSigno2(r.num) /\ b = ConSigno2(s.num) /\ c = ConSigno2(t.num)
  OBVIOUS
<1>2. PICK x, y, z : x = r.den /\ y = s.den /\ z = t.den
  OBVIOUS
<1>3. a \in Int /\ b \in Int /\ c \in Int
  BY <1>1 DEF EsRango, ConSigno2
<1>4. x \in Nat \ {0} /\ y \in Nat \ {0} /\ z \in Nat \ {0}
  BY <1>2 DEF EsRango
<1>5. a * y <= b * x /\ b * z <= c * y
  BY <1>1, <1>2, <1>3, <1>4 DEF Supera
<1>6. (a * y) * z <= (b * x) * z
  BY <1>3, <1>4, <1>5
<1>7. (b * z) * x <= (c * y) * x
  BY <1>3, <1>4, <1>5
<1>8. (a * z) * y <= (c * x) * y
  <2>1. (a * y) * z = (a * z) * y /\ (b * x) * z = (b * z) * x /\ (c * y) * x = (c * x) * y
    BY <1>3, <1>4
  <2>2. (a * y) * z \in Int /\ (b * x) * z \in Int /\ (c * y) * x \in Int
    BY <1>3, <1>4
  <2> QED
    BY <1>6, <1>7, <2>1, <2>2
<1>9. a * z <= c * x
  <2>1. PICK m \in Int, n \in Int : m = a * z /\ n = c * x
    BY <1>3, <1>4
  <2>2. m * y <= n * y
    BY <1>8, <2>1
  <2>3. m <= n
    BY <1>4, <2>2
  <2> QED
    BY <2>1, <2>3
<1> QED
  BY <1>1, <1>2, <1>3, <1>4, <1>9 DEF Supera

(* A rank of 0 or more is above any that is less.                          *)
LEMMA SuperaAlNegativo ==
  ASSUME NEW r, EsRango(r), NEW b, EsRango(b), b.num < 0, ~ Supera(r, b)
  PROVE  ~ (r.num >= 0)
<1>1. PICK m \in Int, n \in Int : m = r.num /\ n = b.num
  BY DEF EsRango
<1>2. PICK x \in Nat \ {0}, y \in Nat \ {0} : x = r.den /\ y = b.den
  BY DEF EsRango
<1>3. ConSigno2(n) < 0
  <2>1. n < 0
    BY <1>1
  <2>2. n * n > 0
    BY <2>1
  <2> QED
    BY <2>1, <2>2 DEF ConSigno2
<1>4. ASSUME m >= 0 PROVE FALSE
  <2>1. ConSigno2(m) = m * m /\ m * m >= 0
    BY <1>4 DEF ConSigno2
  <2>2. PICK a \in Int, c \in Int : a = ConSigno2(m) /\ c = ConSigno2(n)
    BY DEF ConSigno2
  <2>3. a * y <= c * x
    BY <1>1, <1>2, <2>2 DEF Supera
  <2>4. a >= 0 /\ c < 0
    BY <1>3, <2>1, <2>2
  <2>5. a * y >= 0
    BY <1>2, <2>4
  <2>6. c * x < 0
    BY <1>2, <2>4
  <2>7. a * y \in Int /\ c * x \in Int
    BY <1>2, <2>2
  <2> QED
    BY <2>3, <2>5, <2>6, <2>7
<1> QED
  BY <1>1, <1>4

(* The best of the leaders compared.                                       *)
Comparados == IF paso = "lideres" THEN pos ELSE Len(aLeaders)
Mejor ==
  paso \in {"lideres", "seguidores", "sinLider", "fin"} /\ useLeader /\ Abierta =>
    /\ best \in 0..Comparados
    /\ \A i \in 1..Comparados : ~ Supera(Rank(aLeaders[i]), bestCos)

(* A leader read from leaders.dat ranks as its document does.              *)
LEMMA LiderRankea ==
  ASSUME InvLideres, Indexado, EsVector(queryPair), NEW i \in 1..Len(aLeaders)
  PROVE  /\ EsRango(Rank(aLeaders[i])) /\ Rank(aLeaders[i]) = Rank(Doc(aLeaders[i].id))
         /\ aLeaders[i].id \in DOMAIN leaders
<1>1. PICK d : d = Doc(aLeaders[i].id)
  OBVIOUS
<1>2. d \in Registros(entrada) /\ aLeaders[i].terminos = d.terminos /\ aLeaders[i].id \in DOMAIN leaders
  BY <1>1, LideresEscritos
<1>3. EsVector(d.terminos)
  BY <1>2, DocDe DEF InvLideres
<1>4. EsVector(aLeaders[i].terminos)
  BY <1>2, <1>3
<1>5. EsRango(Rank(aLeaders[i]))
  BY <1>4, RangoDe
<1>6. Rank(aLeaders[i]) = Rank(d)
  BY <1>2 DEF Rank
<1> QED
  BY <1>1, <1>2, <1>5, <1>6

(* The best rank so far is one, or the -1 it begins with.                  *)
LEMMA BestCosEsRango ==
  ASSUME InvLideres, Indexado, EsVector(queryPair), best \in 0..Len(aLeaders)
  PROVE  EsRango(bestCos)
<1>1. Len(aLeaders) \in Nat
  BY LideresEscritos
<1>2. CASE best = 0
  BY <1>2 DEF bestCos, Fijo, EsRango
<1>3. CASE best # 0
  <2>1. best \in 1..Len(aLeaders)
    BY <1>1, <1>3
  <2> QED
    BY <1>3, <2>1, LiderRankea DEF bestCos
<1> QED
  BY <1>2, <1>3

(* One leader more compared with the best one.                             *)
LEMMA RankearElige ==
  ASSUME InvBusqueda, InvPedido, Mejor, RankearLider, useLeader
  PROVE  Mejor'
<1>1. /\ paso = "lideres" /\ pos < Len(aLeaders) /\ pos' = pos + 1 /\ ElegirLider(aLeaders[pos + 1])
      /\ UNCHANGED <<vars, paso, palabras>>
  BY DEF RankearLider
<1>2. UNCHANGED <<paso, useLeader, aLeaders, queryPair, include, exclude, mustExcludeNotInLex>>
  BY <1>1 DEF vars, palabras
<1>3. pos \in 0..Len(aLeaders) /\ Abierta /\ Indexado /\ InvLideres
  BY <1>1 DEF InvBusqueda, Estado
<1>4. best \in 0..pos /\ \A i \in 1..pos : ~ Supera(Rank(aLeaders[i]), bestCos)
  BY <1>1, <1>3 DEF Mejor, Comparados
<1>5. Len(aLeaders) \in Nat
  BY <1>3, LideresEscritos
<1>6. EsVector(queryPair)
  BY DEF InvPedido, Anotado
<1>7. PICK k : k = pos + 1
  OBVIOUS
<1>8. k \in 1..Len(aLeaders) /\ pos \in Nat /\ 1..k = 1..pos \cup {k} /\ \A i \in 1..pos : i \in 1..Len(aLeaders)
  BY <1>1, <1>3, <1>5, <1>7
<1>9. EsRango(Rank(aLeaders[k])) /\ \A i \in 1..pos : EsRango(Rank(aLeaders[i]))
  BY <1>3, <1>6, <1>8, LiderRankea
<1>10. EsRango(bestCos)
  <2>1. best \in 0..Len(aLeaders)
    BY <1>4, <1>3, <1>5
  <2> QED
    BY <1>3, <1>6, <2>1, BestCosEsRango
<1>11. \A i \in Int : Rank(aLeaders[i])' = Rank(aLeaders[i])
  BY <1>2 DEF Rank, doCosine, Coseno
<1>12. bestCos' = IF best' = 0 THEN Fijo(-1) ELSE Rank(aLeaders[best'])
  BY <1>2 DEF bestCos, Rank, doCosine, Coseno
<1>13. ~ Supera(Rank(aLeaders[k]), Rank(aLeaders[k]))
  <2>1. PICK r : r = Rank(aLeaders[k])
    OBVIOUS
  <2>2. r.num \in Int /\ r.den \in Int
    BY <1>9, <2>1 DEF EsRango
  <2>3. ConSigno2(r.num) * r.den \in Int
    BY <2>2 DEF ConSigno2
  <2>4. ~ Supera(r, r)
    BY <2>3 DEF Supera
  <2> QED
    BY <2>1, <2>4
<1>14. PICK b : b = bestCos'
  OBVIOUS
<1>15. best' \in 0..k /\ \A i \in 1..k : ~ Supera(Rank(aLeaders[i]), b)
  <2>1. CASE PuedeSuperar(Rank(aLeaders[k]), bestCos) /\ best' = k
    <3>1. b = Rank(aLeaders[k])
      BY <1>8, <1>12, <1>14, <2>1
    <3>2. ~ Supera(bestCos, b)
      BY <2>1, <3>1 DEF PuedeSuperar
    <3>3. \A i \in 1..pos : ~ Supera(Rank(aLeaders[i]), b)
      <4> SUFFICES ASSUME NEW i \in 1..pos PROVE ~ Supera(Rank(aLeaders[i]), b)
        OBVIOUS
      <4>1. ~ Supera(Rank(aLeaders[i]), bestCos) /\ EsRango(Rank(aLeaders[i])) /\ EsRango(b)
        BY <1>4, <1>9, <3>1
      <4> QED
        BY <1>10, <3>2, <4>1, NoSuperaTransitiva
    <3>4. ~ Supera(Rank(aLeaders[k]), b)
      BY <1>13, <3>1
    <3>5. best' \in 0..k
      BY <1>8, <2>1
    <3>6. \A i \in 1..k : i \in 1..pos \/ i = k
      BY <1>8
    <3> QED
      BY <3>3, <3>4, <3>5, <3>6
  <2>2. CASE ~ Supera(Rank(aLeaders[k]), bestCos) /\ best' = best
    <3>1. b = bestCos
      BY <1>2, <1>14, <2>2 DEF bestCos, Rank, doCosine, Coseno
    <3> QED
      BY <1>3, <1>4, <1>5, <1>7, <1>8, <2>2, <3>1
  <2> QED
    BY <1>1, <1>7, <2>1, <2>2 DEF ElegirLider
<1>16. Comparados' = k
  BY <1>1, <1>2, <1>7 DEF Comparados
<1>17. best' \in 0..Comparados' /\ \A i \in 1..Comparados' : ~ Supera(Rank(aLeaders[i])', bestCos')
  BY <1>8, <1>11, <1>14, <1>15, <1>16
<1>18. (\A i \in 1..Comparados : ~ Supera(Rank(aLeaders[i]), bestCos))'
  BY <1>17 DEF Supera, ConSigno2
<1> QED
  BY <1>17, <1>18 DEF Mejor

(* After the leaders are read, the best one stays.                         *)
LEMMA MejorIgual ==
  ASSUME Mejor, paso \in {"lideres", "seguidores", "sinLider", "fin"},
         UNCHANGED <<useLeader, aLeaders, queryPair, include, exclude, mustExcludeNotInLex, best>>,
         Comparados' = Comparados
  PROVE  Mejor'
<1>1. Abierta' = Abierta
  BY DEF Abierta
<1>2. bestCos' = bestCos /\ \A i : Rank(aLeaders[i])' = Rank(aLeaders[i])
  BY DEF bestCos, Rank, doCosine, Coseno
<1> QED
  BY <1>1, <1>2 DEF Mejor, Supera, ConSigno2

(* Every step keeps the best leader the best of those compared.            *)
LEMMA NextMejor ==
  ASSUME InvBusqueda, InvPedido, Mejor, [NextBusqueda]_todo
  PROVE  Mejor'
<1>1. CASE Preguntar \/ BuscarPalabra
  BY <1>1 DEF Preguntar, BuscarPalabra, Mejor
<1>2. CASE Abrir
  <2>1. /\ paso = "consulta" /\ paso' = IF Abierta THEN "lideres" ELSE "fin"
        /\ UNCHANGED <<queryPair, mustExcludeNotInLex, pos, best>>
    BY <1>2 DEF Abrir, Abierta, palabras
  <2>2. pos' = 0 /\ best' = 0
    BY <2>1 DEF InvBusqueda, Estado
  <2>3. Abierta' = Abierta
    BY <2>1 DEF Abierta
  <2>4. CASE Abierta
    <3>1. Comparados' = 0
      BY <2>1, <2>2, <2>4 DEF Comparados
    <3> QED
      BY <2>2, <3>1 DEF Mejor
  <2>5. CASE ~ Abierta
    BY <2>3, <2>5 DEF Mejor
  <2> QED
    BY <2>4, <2>5
<1>3. CASE RankearLider
  <2>1. CASE useLeader
    BY <1>3, <2>1, RankearElige
  <2>2. CASE ~ useLeader
    <3>1. useLeader' = useLeader
      BY <1>3 DEF RankearLider, palabras
    <3> QED
      BY <2>2, <3>1 DEF Mejor
  <2> QED
    BY <2>1, <2>2
<1>4. CASE FinLideres \/ RankearSeguidor \/ FinSeguidores \/ RankearSinLider \/ Responder
  <2>1. /\ paso \in {"lideres", "seguidores", "sinLider"} /\ paso' \in {"seguidores", "sinLider", "fin"}
        /\ UNCHANGED <<vars, palabras, best>> /\ (paso = "lideres" => pos = Len(aLeaders))
    BY <1>4 DEF FinLideres, RankearSeguidor, FinSeguidores, RankearSinLider, Responder
  <2>2. UNCHANGED <<useLeader, aLeaders, queryPair, include, exclude, mustExcludeNotInLex, best>>
    BY <2>1 DEF vars, palabras
  <2>3. Comparados' = Comparados
    BY <2>1, <2>2 DEF Comparados
  <2> QED
    BY <2>1, <2>2, <2>3, MejorIgual
<1>5. CASE (Next /\ UNCHANGED busca) \/ UNCHANGED todo
  <2>1. [Next]_vars /\ UNCHANGED <<paso, useLeader, queryPair, include, exclude, mustExcludeNotInLex, pos, best>>
    BY <1>5 DEF todo, busca, palabras
  <2>2. CASE paso \in {"lideres", "seguidores", "sinLider", "fin"}
    <3>1. Indexado
      BY <2>2 DEF InvBusqueda, Estado
    <3>2. UNCHANGED vars
      BY <2>1, <3>1, IndiceCerrado DEF InvBusqueda
    <3>3. aLeaders' = aLeaders
      BY <3>2 DEF vars
    <3>4. Comparados' = Comparados
      BY <2>1, <3>3 DEF Comparados
    <3> QED
      BY <2>1, <2>2, <3>3, <3>4, MejorIgual
  <2>3. CASE paso \notin {"lideres", "seguidores", "sinLider", "fin"}
    BY <2>1, <2>3 DEF Mejor
  <2> QED
    BY <2>2, <2>3
<1> QED
  BY <1>1, <1>2, <1>3, <1>4, <1>5 DEF NextBusqueda, Buscar

LEMMA MejorSiempre == SpecBusqueda => [](InvBusqueda /\ InvPedido /\ Mejor)
<1>1. InitBusqueda => Mejor
  BY DEF InitBusqueda, Mejor
<1>2. InvBusqueda /\ InvPedido /\ Mejor /\ [NextBusqueda]_todo => Mejor'
  BY NextMejor
<1> QED
  BY <1>1, <1>2, PedidoSiempre, PTL DEF SpecBusqueda

(* A search by leaders goes to the followers of a leader that no other     *)
(* ranks above, and answers what it, they and the documents without leader *)
(* have to answer; when every leader is filtered out, only the last.       *)
THEOREM SiempreRespuestasDelMejor == SpecBusqueda => []RespuestasDelMejor
<1>1. InvBusqueda /\ InvPedido /\ Mejor => RespuestasDelMejor
  <2> SUFFICES ASSUME InvBusqueda, InvPedido, Mejor, paso = "fin", useLeader, Pesadas \cup exclude # {}
               PROVE  RespuestasDelMejor
    BY DEF RespuestasDelMejor
  <2> DEFINE sueltos == IdsDe(withoutLeader)
             lideres == { l \in DOMAIN leaders : Rank(Doc(l)).num >= 0 }
             mejores == { l \in lideres : \A m \in lideres : ~ Supera(Rank(Doc(m)), Rank(Doc(l))) }
  <2>1. queryIt = Len(query) /\ EsVector(queryPair)
    BY DEF InvPedido, Pedido, Anotado
  <2>2. Abierta
    <3>1. queryPair = [w \in Pesadas |-> Peso(w)] /\ exclude = Excluidas /\ (mustExcludeNotInLex <=> Excluidas # {})
      BY <2>1, PesosDeTodas
    <3>2. DOMAIN queryPair = Pesadas
      BY <3>1
    <3> QED
      BY <3>1, <3>2 DEF Abierta
  <2>3. InvLideres /\ Indexado
    BY DEF InvBusqueda, Estado
  <2>4. Len(aLeaders) \in Nat /\ IdsDe(aLeaders) = DOMAIN leaders
    BY <2>3, LideresEscritos
  <2>5. best \in 0..Len(aLeaders) /\ \A i \in 1..Len(aLeaders) : ~ Supera(Rank(aLeaders[i]), bestCos)
    BY <2>2 DEF Mejor, Comparados
  <2>6. EsRango(bestCos)
    BY <2>1, <2>3, <2>5, BestCosEsRango
  <2>7. \A l \in DOMAIN leaders : EsRango(Rank(Doc(l))) /\ ~ Supera(Rank(Doc(l)), bestCos)
    <3> SUFFICES ASSUME NEW l \in DOMAIN leaders PROVE EsRango(Rank(Doc(l))) /\ ~ Supera(Rank(Doc(l)), bestCos)
      OBVIOUS
    <3>1. PICK i \in 1..Len(aLeaders) : aLeaders[i].id = l
      BY <2>4 DEF IdsDe
    <3>2. EsRango(Rank(aLeaders[i])) /\ Rank(aLeaders[i]) = Rank(Doc(l))
      BY <2>1, <2>3, <3>1, LiderRankea
    <3> QED
      BY <2>5, <3>2
  <2>8. DOMAIN leaders \cup IdsDe(followers) \cup sueltos = Leidas
    BY <2>3 DEF InvLideres, Inv, UnSoloLugar
  <2>9. CASE bestCos.num < 0
    <3>1. lideres = {}
      <4> SUFFICES ASSUME NEW l \in DOMAIN leaders PROVE ~ (Rank(Doc(l)).num >= 0)
        OBVIOUS
      <4>1. PICK r, b : r = Rank(Doc(l)) /\ b = bestCos
        OBVIOUS
      <4>2. EsRango(r) /\ EsRango(b) /\ ~ Supera(r, b) /\ b.num < 0
        BY <2>6, <2>7, <2>9, <4>1
      <4>3. ~ (r.num >= 0)
        BY <4>2, SuperaAlNegativo
      <4> QED
        BY <4>1, <4>3
    <3>2. PICK ids : ids = Vistos
      OBVIOUS
    <3>3. ids = sueltos
      BY <2>2, <2>9, <3>2 DEF Vistos, Agrupados
    <3>4. ids \subseteq Leidas
      BY <2>8, <3>3
    <3>5. Respondidos = Respuestas(ids)
      BY <2>2, <3>2, <3>4, RespondidoDeLoVisto
    <3>6. Respondidos = Respuestas(sueltos)
      BY <3>3, <3>5
    <3> QED
      BY <3>1, <3>6 DEF RespuestasDelMejor
  <2>10. CASE ~ (bestCos.num < 0)
    <3>1. best \in 1..Len(aLeaders)
      <4>1. best # 0
        BY <2>10 DEF bestCos, Fijo
      <4> QED
        BY <2>4, <2>5, <4>1
    <3>2. PICK l : l = aLeaders[best].id
      OBVIOUS
    <3>3. l \in DOMAIN leaders /\ bestCos = Rank(Doc(l))
      <4>1. bestCos = Rank(aLeaders[best])
        BY <2>10, <3>1 DEF bestCos, Fijo
      <4> QED
        BY <2>1, <2>3, <3>1, <3>2, <4>1, LiderRankea
    <3>4. l \in mejores
      <4>1. Rank(Doc(l)).num >= 0
        BY <2>6, <2>10, <3>3 DEF EsRango
      <4> QED
        BY <2>7, <3>3, <4>1
    <3>5. PICK ids : ids = Vistos
      OBVIOUS
    <3>6. ids = {l} \cup SeguidoresDe(l) \cup sueltos
      BY <2>2, <2>10, <3>2, <3>5 DEF Vistos, Agrupados, DelLider
    <3>7. ids \subseteq Leidas
      <4>1. SeguidoresDe(l) \subseteq IdsDe(followers)
        BY <2>3, <3>3 DEF InvLideres, Inv, UnSoloLugar
      <4> QED
        BY <2>8, <3>3, <3>6, <4>1
    <3>8. Respondidos = Respuestas(ids)
      BY <2>2, <3>5, <3>7, RespondidoDeLoVisto
    <3>9. Respondidos = Respuestas({l} \cup SeguidoresDe(l) \cup sueltos)
      BY <3>6, <3>8
    <3>10. \E k \in mejores : Respondidos = Respuestas({k} \cup SeguidoresDe(k) \cup sueltos)
      BY <3>4, <3>9
    <3> QED
      BY <3>10 DEF RespuestasDelMejor
  <2> QED
    BY <2>9, <2>10
<1> QED
  BY <1>1, MejorSiempre, PTL
=============================================================================
