---------------------------- MODULE OrdenProofs ----------------------------
(***************************************************************************)
(* Proofs about OrdenExterno, for any number and sizes of documents, any   *)
(* block size, and any number of runs and of kills.  Wherever the sort is, *)
(* the documents of the run are in the files it has not read yet and in    *)
(* what it is writing, and every entry of an index in use has its data, if *)
(* the run began with none that had not; and nothing else is there, each   *)
(* once and in order, as long as no run was killed.                        *)
(***************************************************************************)
EXTENDS OrdenExterno, SequenceTheorems, FiniteSetTheorems, TLAPS

SinRepetir(s) == \A i, j \in 1 .. Len(s) : s[i] = s[j] => i = j
De(partes, ps) == UNION { Todo(Documentos(partes[p])) : p \in ps }
Restos(a, i, b, j) == Tramo(a, i, Len(a)) \cup Tramo(b, j, Len(b))
SinLeer == Restos(Documentos(particion[0]), pos1, Documentos(particion[partId]), pos2)
Mezclando == pc \in {"mezclar", "iguales"}
Reemplazando == pc \in {"borrarDat1", "borrarIdx1", "borrarDat2", "borrarIdx2", "renombrarDat", "renombrarIdx"}
Instalando == pc \in {"quitarIdx", "instalarDat", "instalarIdx"}
Limpio == caidas = 0

(* How far the sort is, and what it sorts.                                 *)
Avance ==
  /\ Len(entrada) <= MaxDocs
  /\ \A i \in 1 .. Len(entrada) : entrada[i].id = i
  /\ ~Instalando /\ pc # "fin" => Documentos(docLex) = entrada /\ Coherente(docLex)
  /\ leidos <= Len(entrada)
  /\ pc = "indexar" => leidos = 0 /\ partId = 0 /\ memoria = <<>>
  /\ pc \notin {"indexar", "leer", "escribir"} => leidos = Len(entrada)
  /\ pc = "leer" => partId <= leidos /\ (memoria # <<>> => partId < leidos)
  /\ pc = "escribir" => partId < leidos
  /\ Mezclando \/ Reemplazando => partId > 0
  /\ Mezclando => dato1 \in Leer(particion[0], pos1) /\ dato2 \in Leer(particion[partId], pos2)
  /\ pc = "iguales" => dato2 # <<>>
  /\ pc = "escribir" => particion[partId].dat # <<>> \/ Len(particion[partId].idx) = previos
  /\ Mezclando => nueva.dat # <<>> \/ Len(nueva.idx) = previos
  /\ Instalando => partId = 0
  /\ pc = "caido" => ~Limpio
  /\ Limpio => sano

(* Which files have the data of all their entries: all but those with only *)
(* one of their two parts removed, renamed or put in place.                *)
Enteros ==
  /\ pc # "caido" =>
       /\ pc \notin {"borrarIdx1", "instalarIdx"} => Coherente(particion[0])
       /\ \A p \in Partes \ {0} : pc # "borrarIdx2" \/ p # partId => Coherente(particion[p])
       /\ pc # "renombrarIdx" => Coherente(nueva)
  /\ pc \in {"borrarDat2", "borrarIdx2", "renombrarDat", "renombrarIdx"} => particion[0].idx = <<>>
  /\ pc = "renombrarIdx" => Coherente([idx |-> nueva.idx, dat |-> particion[0].dat])
  /\ pc \in {"instalarDat", "instalarIdx"} => docLex.idx = <<>>
  /\ pc = "instalarIdx" => Coherente([idx |-> particion[0].idx, dat |-> docLex.dat])
  /\ pc = "fin" => Coherente(docLex)

(* The documents read so far are all in ds; and nothing else is, unless a  *)
(* run was killed.                                                         *)
Estan(ds) ==
  /\ Tramo(entrada, 1, leidos) \subseteq ds
  /\ Limpio => ds \subseteq Tramo(entrada, 1, leidos)

Contenido ==
  /\ pc = "leer" => Estan(De(particion, 0 .. partId - 1) \cup Todo(memoria))
  /\ pc = "escribir" => Estan(De(particion, 0 .. partId) \cup Todo(memoria))
  /\ pc = "fusionar" => Estan(De(particion, 0 .. partId))
  /\ Mezclando => Estan(De(particion, 1 .. partId - 1) \cup Todo(Documentos(nueva)) \cup SinLeer)
  /\ Reemplazando => Estan(De(particion, 1 .. partId - 1) \cup Todo(Documentos(nueva)))
  /\ Instalando => Estan(Todo(Documentos(particion[0])))
  /\ pc = "fin" => Estan(Todo(Documentos(docLex)))

(* Without a kill, the files that are not in use have no documents.        *)
Limpieza ==
  /\ pc \in {"indexar", "leer", "renombrarDat", "renombrarIdx"} =>
       \A p \in Partes : p >= partId => particion[p].idx = <<>>
  /\ pc \notin {"indexar", "leer", "renombrarDat", "renombrarIdx", "fin", "caido"} =>
       \A p \in Partes : p > partId => particion[p].idx = <<>>
  /\ pc = "fin" => \A p \in Partes : particion[p].idx = <<>>
  /\ ~Mezclando /\ ~Reemplazando => nueva.idx = <<>>

(* No document is twice in what is left to merge.                          *)
Unicos ==
  /\ \A p \in Partes : SinRepetir(Documentos(particion[p]))
  /\ \A p, q \in Partes : p # q => Todo(Documentos(particion[p])) \cap Todo(Documentos(particion[q])) = {}
  /\ pc \in {"leer", "escribir"} =>
       SinRepetir(memoria) /\ \A p \in Partes : Todo(memoria) \cap Todo(Documentos(particion[p])) = {}
  /\ Mezclando \/ Reemplazando =>
       SinRepetir(Documentos(nueva))
         /\ \A p \in 1 .. partId - 1 : Todo(Documentos(nueva)) \cap Todo(Documentos(particion[p])) = {}
  /\ Mezclando => Todo(Documentos(nueva)) \cap SinLeer = {}
  /\ pc = "fin" => SinRepetir(Documentos(docLex))

(* Every file is sorted, and what has been written of a block or a merge   *)
(* comes before what is left of it.                                        *)
EnOrden ==
  /\ \A p \in Partes : Decrece(Documentos(particion[p]))
  /\ pc = "escribir" =>
       Decrece(memoria) /\ \A r \in Todo(Documentos(particion[partId])), d \in Todo(memoria) : r.tam >= d.tam
  /\ Mezclando \/ Reemplazando => Decrece(Documentos(nueva))
  /\ Mezclando => \A r \in Todo(Documentos(nueva)), d \in SinLeer : r.tam >= d.tam
  /\ pc = "iguales" /\ pos1 <= Len(Documentos(particion[0])) =>
       Documentos(particion[partId])[pos2].tam >= Documentos(particion[0])[pos1].tam
  /\ pc = "fin" => Decrece(Documentos(docLex))

SinCaidas == Limpio => Limpieza /\ Unicos /\ EnOrden

InvOrden == TypeOK /\ Avance /\ (sano => Enteros /\ Contenido) /\ SinCaidas

-----------------------------------------------------------------------------
(* Files as sequences of records.                                          *)

LEMMA Registros ==
  ASSUME NEW s \in Seq(Registro)
  PROVE  /\ Len(s) \in Nat /\ DOMAIN s = 1 .. Len(s)
         /\ \A i \in 1 .. Len(s) : s[i] \in Registro /\ s[i].tam \in Nat
         /\ \A k \in Nat \ {0} : Tramo(s, k, Len(s)) \subseteq Todo(s)
         /\ \A r \in Todo(s) : r \in Registro /\ r.tam \in Nat
<1>1. Len(s) \in Nat /\ DOMAIN s = 1 .. Len(s)
  OBVIOUS
<1>2. \A i \in 1 .. Len(s) : s[i] \in Registro
  BY ElementOfSeq
<1>3. \A r \in Registro : r.tam \in Nat
  BY DEF Registro
<1>4. \A k \in Nat \ {0} : k .. Len(s) \subseteq 1 .. Len(s)
  BY <1>1
<1> QED
  BY <1>1, <1>2, <1>3, <1>4 DEF Tramo, Todo

LEMMA FicheroVacio ==
  Todo(<<>>) = {} /\ SinRepetir(<<>>) /\ Decrece(<<>>) /\ <<>> \in Seq(Registro) /\ Len(<<>>) = 0
BY DEF Todo, Tramo, SinRepetir, Decrece

(* A record written at the end.                                            *)
LEMMA UnoMas ==
  ASSUME NEW s \in Seq(Registro), NEW e \in Registro
  PROVE  /\ Append(s, e) \in Seq(Registro) /\ Todo(Append(s, e)) = Todo(s) \cup {e}
         /\ SinRepetir(s) /\ e \notin Todo(s) => SinRepetir(Append(s, e))
         /\ Decrece(s) /\ (\A r \in Todo(s) : r.tam >= e.tam) => Decrece(Append(s, e))
<1> DEFINE n == Len(s)
           t == Append(s, e)
<1>1. /\ n \in Nat /\ t \in Seq(Registro) /\ Len(t) = n + 1
      /\ t[n + 1] = e /\ \A i \in 1 .. n : t[i] = s[i]
  BY AppendProperties
<1>2. \A i \in 1 .. n + 1 : i = n + 1 \/ i \in 1 .. n
  BY <1>1
<1>3. \A i \in 1 .. n : s[i] \in Todo(s) /\ i \in 1 .. n + 1
  BY <1>1 DEF Todo, Tramo
<1>4. n + 1 \in 1 .. n + 1
  BY <1>1
<1> HIDE DEF n, t
<1>5. Todo(t) = { t[i] : i \in 1 .. n + 1 } /\ Todo(s) = { s[i] : i \in 1 .. n }
  BY <1>1 DEF Todo, Tramo, n
<1>6. Todo(t) = Todo(s) \cup {e}
  BY <1>1, <1>2, <1>3, <1>4, <1>5
<1>7. ASSUME SinRepetir(s), e \notin Todo(s) PROVE SinRepetir(t)
  <2> SUFFICES ASSUME NEW i \in 1 .. n + 1, NEW j \in 1 .. n + 1, t[i] = t[j] PROVE i = j
    BY <1>1 DEF SinRepetir
  <2>1. i \in 1 .. n /\ j \in 1 .. n => i = j
    BY <1>1, <1>7 DEF SinRepetir, n
  <2> QED
    BY <1>1, <1>2, <1>3, <1>7, <2>1
<1>8. ASSUME Decrece(s), \A r \in Todo(s) : r.tam >= e.tam PROVE Decrece(t)
  <2> SUFFICES ASSUME NEW i \in 1 .. n + 1, NEW j \in 1 .. n + 1, i < j PROVE t[i].tam >= t[j].tam
    BY <1>1 DEF Decrece
  <2>1. i \in 1 .. n
    BY <1>1
  <2>2. CASE j \in 1 .. n
    BY <1>1, <1>8, <2>1, <2>2 DEF Decrece, n
  <2>3. CASE j = n + 1
    BY <1>1, <1>3, <1>8, <2>1, <2>3
  <2> QED
    BY <1>2, <2>2, <2>3
<1> QED
  BY <1>1, <1>6, <1>7, <1>8 DEF t
(* A file has as many records as different ones, if none is repeated.      *)
LEMMA CuantosDistintos ==
  ASSUME NEW s \in Seq(Registro), SinRepetir(s)
  PROVE  Len(s) = Cardinality(Todo(s))
<1> DEFINE n == Len(s)
           T == Todo(s)
           f == [i \in 1 .. n |-> s[i]]
<1>1. n \in Nat
  OBVIOUS
<1>2. f \in Surjection(1 .. n, T) /\ f \in [1 .. n -> T]
  BY <1>1 DEF Surjection, Todo, Tramo
<1>3. IsInjective(f)
  BY <1>1 DEF IsInjective, SinRepetir
<1>4. IsFiniteSet(1 .. n) /\ Cardinality(1 .. n) = n
  BY <1>1, FS_Interval
<1> HIDE DEF f, T
<1>5. f \in Injection(1 .. n, T)
  BY <1>2, <1>3 DEF Injection
<1>6. Cardinality(T) = n
  BY <1>2, <1>4, <1>5, FS_Surjection
<1> QED
  BY <1>6 DEF T

(* What is left to read of a file, before and after a record is read.      *)
LEMMA LeerUno ==
  ASSUME NEW s \in Seq(Registro), NEW k \in 1 .. Len(s)
  PROVE  /\ s[k] \in Registro /\ s[k] \in Todo(s)
         /\ Tramo(s, k, Len(s)) = {s[k]} \cup Tramo(s, k + 1, Len(s))
         /\ SinRepetir(s) => s[k] \notin Tramo(s, k + 1, Len(s))
         /\ Decrece(s) => \A r \in Tramo(s, k, Len(s)) : s[k].tam >= r.tam
<1> DEFINE n == Len(s)
<1>1. n \in Nat /\ s[k] \in Registro /\ s[k].tam \in Nat
  BY Registros
<1>2. k .. n = {k} \cup (k + 1 .. n)
  BY <1>1
<1>3. \A i \in k + 1 .. n : i \in 1 .. n /\ k < i
  BY <1>1
<1>4. s[k] \in Todo(s)
  BY DEF Todo, Tramo
<1>5. Tramo(s, k, n) = {s[k]} \cup Tramo(s, k + 1, n)
  BY <1>2 DEF Tramo
<1>6. SinRepetir(s) => s[k] \notin Tramo(s, k + 1, n)
  <2> SUFFICES ASSUME SinRepetir(s), NEW i \in k + 1 .. n, s[i] = s[k] PROVE FALSE
    BY DEF Tramo
  <2>1. i = k
    BY <1>3 DEF SinRepetir
  <2> QED
    BY <1>1, <2>1
<1>7. Decrece(s) => \A r \in Tramo(s, k, n) : s[k].tam >= r.tam
  <2> SUFFICES ASSUME Decrece(s), NEW r \in Tramo(s, k, n) PROVE s[k].tam >= r.tam
    OBVIOUS
  <2>1. CASE r = s[k]
    BY <1>1, <2>1
  <2>2. CASE r \in Tramo(s, k + 1, n)
    <3>1. PICK i \in k + 1 .. n : r = s[i]
      BY <2>2 DEF Tramo
    <3> QED
      BY <1>3, <3>1 DEF Decrece
  <2> QED
    BY <1>5, <2>1, <2>2
<1> QED
  BY <1>1, <1>4, <1>5, <1>6, <1>7

(* std::sort leaves the same records, each once, in order.                 *)
LEMMA Ordenados ==
  ASSUME NEW s \in Seq(Registro), NEW t \in Ordenamientos(s)
  PROVE  /\ t \in Seq(Registro) /\ Todo(t) = Todo(s) /\ Decrece(t)
         /\ SinRepetir(s) => SinRepetir(t)
<1> DEFINE n == Len(s)
<1>0. n \in Nat /\ \A i \in 1 .. n : s[i] \in Registro
  BY Registros
<1>1. PICK p \in [1 .. n -> 1 .. n] :
        /\ t = [i \in 1 .. n |-> s[p[i]]]
        /\ \A i, j \in 1 .. n : i # j => p[i] # p[j]
  BY DEF Ordenamientos
<1>2. Decrece(t)
  BY DEF Ordenamientos
<1>3. p \in Surjection(1 .. n, 1 .. n)
  <2>1. IsFiniteSet(1 .. n)
    BY <1>0, FS_Interval
  <2>2. p \in Injection(1 .. n, 1 .. n)
    <3>1. IsInjective(p)
      BY <1>1 DEF IsInjective
    <3> QED
      BY <3>1 DEF Injection
  <2> HIDE DEF n
  <2> QED
    BY <2>1, <2>2, FS_Injection
<1>4. \A j \in 1 .. n : \E i \in 1 .. n : p[i] = j
  BY <1>3 DEF Surjection
<1>5. \A i \in 1 .. n : p[i] \in 1 .. n /\ t[i] = s[p[i]]
  BY <1>1
<1>6. t \in Seq(Registro) /\ Len(t) = n
  <2>1. t \in [1 .. n -> Registro]
    BY <1>0, <1>1
  <2> QED
    BY <1>0, <2>1
<1> HIDE DEF n
<1>7. Todo(t) = { t[i] : i \in 1 .. n } /\ Todo(s) = { s[i] : i \in 1 .. n }
  BY <1>6 DEF Todo, Tramo, n
<1>8. Todo(t) = Todo(s)
  <2>1. \A j \in 1 .. n : \E i \in 1 .. n : s[j] = t[i]
    BY <1>4, <1>5
  <2>2. \A i \in 1 .. n : \E j \in 1 .. n : t[i] = s[j]
    BY <1>5
  <2> QED
    BY <1>7, <2>1, <2>2
<1>9. ASSUME SinRepetir(s) PROVE SinRepetir(t)
  <2> SUFFICES ASSUME NEW i \in 1 .. n, NEW j \in 1 .. n, t[i] = t[j] PROVE i = j
    BY <1>6 DEF SinRepetir
  <2>1. p[i] = p[j]
    BY <1>5, <1>9 DEF SinRepetir, n
  <2> QED
    BY <1>1, <2>1
<1> QED
  BY <1>2, <1>6, <1>8, <1>9

-----------------------------------------------------------------------------
(* A merge: n is what has been written, i and j where the two partitions   *)
(* are read.                                                               *)
Sueltos(n, a, i, b, j) ==
  /\ SinRepetir(n) /\ SinRepetir(a) /\ SinRepetir(b) /\ Todo(a) \cap Todo(b) = {}
  /\ Todo(n) \cap Restos(a, i, b, j) = {}

Escalonados(n, a, i, b, j) ==
  /\ Decrece(n) /\ Decrece(a) /\ Decrece(b)
  /\ \A r \in Todo(n), d \in Restos(a, i, b, j) : r.tam >= d.tam

(* What writing the i-th record of a, that makes m of n, does.             *)
Pasa(n, a, i, b, j, m) ==
  /\ m \in Seq(Registro) /\ Todo(m) = Todo(n) \cup {a[i]}
  /\ Todo(m) \cup Restos(a, i + 1, b, j) = Todo(n) \cup Restos(a, i, b, j)
  /\ Sueltos(n, a, i, b, j) => Sueltos(m, a, i + 1, b, j)
  /\ Escalonados(n, a, i, b, j) /\ (j <= Len(b) => a[i].tam >= b[j].tam)
       => Escalonados(m, a, i + 1, b, j)

(* A record goes from one of them to the new file.                         *)
LEMMA Pasar ==
  ASSUME NEW n \in Seq(Registro), NEW a \in Seq(Registro), NEW b \in Seq(Registro),
         NEW i \in 1 .. Len(a), NEW j \in Nat \ {0}
  PROVE  Pasa(n, a, i, b, j, Append(n, a[i]))
<1> DEFINE m == Append(n, a[i])
           A == Tramo(a, i, Len(a))
           A1 == Tramo(a, i + 1, Len(a))
           B == Tramo(b, j, Len(b))
<1>1. a[i] \in Registro /\ a[i] \in Todo(a) /\ A = {a[i]} \cup A1 /\ A \subseteq Todo(a) /\ B \subseteq Todo(b)
  <2>1. a[i] \in Registro /\ a[i] \in Todo(a) /\ A = {a[i]} \cup A1
    BY LeerUno
  <2>2. i \in Nat \ {0}
    OBVIOUS
  <2>3. A \subseteq Todo(a)
    BY <2>2, Registros
  <2>4. B \subseteq Todo(b)
    BY Registros
  <2> QED
    BY <2>1, <2>3, <2>4
<1>2. m \in Seq(Registro) /\ Todo(m) = Todo(n) \cup {a[i]}
  BY <1>1, UnoMas
<1>3. Restos(a, i, b, j) = A \cup B /\ Restos(a, i + 1, b, j) = A1 \cup B
  BY DEF Restos
<1>4. Todo(m) \cup (A1 \cup B) = Todo(n) \cup (A \cup B)
  BY <1>1, <1>2
<1>5. ASSUME Sueltos(n, a, i, b, j) PROVE Sueltos(m, a, i + 1, b, j)
  <2>1. a[i] \notin A1 /\ a[i] \notin B /\ a[i] \notin Todo(n)
    BY <1>1, <1>3, <1>5, LeerUno DEF Sueltos
  <2>2. SinRepetir(m)
    BY <1>1, <1>5, <2>1, UnoMas DEF Sueltos
  <2> HIDE DEF m, A, A1, B
  <2>3. Todo(m) \cap (A1 \cup B) = {}
    BY <1>1, <1>2, <1>3, <1>5, <2>1 DEF Sueltos
  <2> QED
    BY <1>3, <1>5, <2>2, <2>3 DEF Sueltos
<1>6. ASSUME Escalonados(n, a, i, b, j), j <= Len(b) => a[i].tam >= b[j].tam
      PROVE  Escalonados(m, a, i + 1, b, j)
  <2>1. \A d \in A : a[i].tam >= d.tam
    BY <1>6, LeerUno DEF Escalonados
  <2>2. \A d \in B : a[i].tam >= d.tam
    <3> SUFFICES ASSUME NEW d \in B PROVE a[i].tam >= d.tam
      OBVIOUS
    <3>1. Len(b) \in Nat
      OBVIOUS
    <3>2. j \in 1 .. Len(b)
      BY <3>1 DEF Tramo
    <3>3. b[j].tam >= d.tam
      BY <1>6, <3>2, LeerUno DEF Escalonados
    <3>4. a[i].tam \in Nat /\ b[j].tam \in Nat /\ d.tam \in Nat
      BY <1>1, <3>2, Registros
    <3>5. a[i].tam >= b[j].tam
      BY <1>6, <3>1, <3>2
    <3> QED
      BY <3>3, <3>4, <3>5
  <2>3. Decrece(m)
    BY <1>1, <1>3, <1>6, UnoMas DEF Escalonados
  <2> HIDE DEF m, A, A1, B
  <2>4. \A r \in Todo(m), d \in A1 \cup B : r.tam >= d.tam
    BY <1>1, <1>2, <1>3, <1>6, <2>1, <2>2 DEF Escalonados
  <2> QED
    BY <1>3, <1>6, <2>3, <2>4 DEF Escalonados
<1> QED
  BY <1>1, <1>2, <1>3, <1>4, <1>5, <1>6 DEF Pasa

LEMMA DaIgual ==
  ASSUME NEW n, NEW a, NEW b, NEW i, NEW j
  PROVE  /\ Restos(a, i, b, j) = Restos(b, j, a, i)
         /\ Sueltos(n, a, i, b, j) <=> Sueltos(n, b, j, a, i)
         /\ Escalonados(n, a, i, b, j) <=> Escalonados(n, b, j, a, i)
<1>1. Restos(a, i, b, j) = Restos(b, j, a, i)
  BY DEF Restos
<1>2. Todo(a) \cap Todo(b) = Todo(b) \cap Todo(a)
  OBVIOUS
<1> QED
  BY <1>1, <1>2, Zenon DEF Sueltos, Escalonados

-----------------------------------------------------------------------------
(* Files as an index and the data it leads to.                             *)

LEMMA LosDocumentos ==
  ASSUME NEW a, a.idx \in Seq(Entrada)
  PROVE  /\ Documentos(a) \in Seq(Registro) /\ Len(Documentos(a)) = Len(a.idx) /\ Len(a.idx) \in Nat
         /\ \A i \in 1 .. Len(a.idx) : a.idx[i] \in Entrada /\ Documentos(a)[i] = a.idx[i].reg
         /\ a.idx = <<>> => Documentos(a) = <<>>
<1>1. Len(a.idx) \in Nat /\ \A i \in 1 .. Len(a.idx) : a.idx[i] \in Entrada
  BY ElementOfSeq
<1>2. \A i \in 1 .. Len(a.idx) : a.idx[i].reg \in Registro
  BY <1>1 DEF Entrada
<1>3. Documentos(a) \in [1 .. Len(a.idx) -> Registro]
  BY <1>2 DEF Documentos
<1>4. Documentos(a) \in Seq(Registro) /\ Len(Documentos(a)) = Len(a.idx)
  BY <1>1, <1>3
<1>5. a.idx = <<>> => Len(Documentos(a)) = 0
  BY <1>4
<1>6. a.idx = <<>> => Documentos(a) = <<>>
  BY <1>4, <1>5, EmptySeq
<1> QED
  BY <1>1, <1>3, <1>4, <1>6 DEF Documentos

LEMMA MismoIndice ==
  ASSUME NEW a, NEW b, a.idx = b.idx
  PROVE  Documentos(a) = Documentos(b)
BY DEF Documentos

LEMMA DelArchivo ==
  ASSUME NEW a \in Archivo
  PROVE  a.idx \in Seq(Entrada) /\ a.dat \in Seq(Trozo) /\ a = [idx |-> a.idx, dat |-> a.dat]
BY DEF Archivo

LEMMA ArchivoVacio ==
  /\ Vacio \in Archivo /\ Documentos(Vacio) = <<>> /\ Vacio.idx = <<>> /\ Coherente(Vacio)
  /\ \A a : a.idx = <<>> => Coherente(a) /\ Documentos(a) = <<>>
<1>1. Vacio.idx = <<>> /\ Vacio.dat = <<>>
  BY DEF Vacio
<1>2. Vacio \in Archivo
  BY EmptySeq DEF Vacio, Archivo
<1>3. \A a : a.idx = <<>> => Coherente(a)
  <2> SUFFICES ASSUME NEW a, a.idx = <<>> PROVE Coherente(a)
    OBVIOUS
  <2>1. Len(a.idx) = 0 /\ 1 .. 0 = {}
    BY EmptySeq
  <2> QED
    BY <2>1 DEF Coherente
<1>4. \A a : a.idx = <<>> => Documentos(a) = <<>>
  <2>1. <<>> \in Seq(Entrada)
    BY EmptySeq
  <2> QED
    BY <2>1, LosDocumentos
<1> QED
  BY <1>1, <1>2, <1>3, <1>4

(* Where the data ends is a place in it.                                   *)
LEMMA ElFinal ==
  ASSUME NEW d \in Seq(Trozo)
  PROVE  Final(d) \in Nat
<1>1. CASE d = <<>>
  BY <1>1 DEF Final
<1>2. CASE d # <<>>
  <2>1. Len(d) \in 1 .. Len(d)
    BY <1>2, EmptySeq
  <2>2. d[Len(d)] \in Trozo
    BY <2>1, ElementOfSeq
  <2> DEFINE t == d[Len(d)]
  <2>3. t.desde \in Nat /\ t.largo \in Nat
    BY <2>2 DEF Trozo
  <2>4. Final(d) = t.desde + t.largo
    BY <1>2 DEF Final
  <2> HIDE DEF t
  <2> QED
    BY <2>3, <2>4
<1> QED
  BY <1>1, <1>2

(* escribir: one more document, and the rest keep their data.              *)
LEMMA UnoAnotado ==
  ASSUME NEW a \in Archivo, NEW r \in Registro
  PROVE  /\ Anotar(a, r) \in Archivo
         /\ Documentos(Anotar(a, r)) = Append(Documentos(a), r) /\ Anotar(a, r).dat # <<>>
         /\ Coherente(a) => Coherente(Anotar(a, r))
<1> DEFINE fin == Final(a.dat)
           e == [reg |-> r, offset |-> fin]
           t == [de |-> r, desde |-> fin, largo |-> Largo(r)]
           b == Anotar(a, r)
           n == Len(a.idx)
           m == Len(a.dat)
<1>1. a.idx \in Seq(Entrada) /\ a.dat \in Seq(Trozo) /\ n \in Nat /\ m \in Nat
  BY DelArchivo
<1>2. fin \in Nat /\ Largo(r) \in Nat
  BY <1>1, ElFinal DEF Largo, Registro
<1>3. e \in Entrada /\ t \in Trozo
  BY <1>2 DEF Entrada, Trozo
<1>4. b.idx = Append(a.idx, e) /\ b.dat = Append(a.dat, t) /\ b = [idx |-> b.idx, dat |-> b.dat]
  BY DEF Anotar
<1>5. e.reg = r /\ e.offset = fin /\ t.desde = fin /\ t.largo = Largo(r)
  OBVIOUS
<1> HIDE DEF e, t, b
<1>6. /\ b.idx \in Seq(Entrada) /\ Len(b.idx) = n + 1 /\ b.idx[n + 1] = e
      /\ \A i \in 1 .. n : b.idx[i] = a.idx[i]
  BY <1>1, <1>3, <1>4, AppendProperties
<1>7. /\ b.dat \in Seq(Trozo) /\ Len(b.dat) = m + 1 /\ b.dat[m + 1] = t /\ b.dat # <<>>
      /\ \A i \in 1 .. m : b.dat[i] = a.dat[i]
  BY <1>1, <1>3, <1>4, AppendProperties
<1>8. b \in Archivo
  BY <1>4, <1>6, <1>7 DEF Archivo
<1>9. Documentos(b) = Append(Documentos(a), r)
  <2> DEFINE u == Documentos(b)
             v == Append(Documentos(a), r)
  <2>1. u \in Seq(Registro) /\ Len(u) = n + 1 /\ \A i \in 1 .. n + 1 : u[i] = b.idx[i].reg
    BY <1>6, LosDocumentos
  <2>2. Documentos(a) \in Seq(Registro) /\ Len(Documentos(a)) = n /\ \A i \in 1 .. n : Documentos(a)[i] = a.idx[i].reg
    BY <1>1, LosDocumentos
  <2>3. v \in Seq(Registro) /\ Len(v) = n + 1 /\ v[n + 1] = r /\ \A i \in 1 .. n : v[i] = a.idx[i].reg
    BY <2>2, AppendProperties
  <2> HIDE DEF u, v, n
  <2>4. \A i \in 1 .. n + 1 : i \in 1 .. n \/ i = n + 1
    BY <1>1
  <2>5. \A i \in 1 .. n + 1 : u[i] = v[i]
    BY <1>5, <1>6, <2>1, <2>3, <2>4
  <2>6. u = v
    BY <2>1, <2>3, <2>5, SeqEqual
  <2> QED
    BY <2>6 DEF u, v
<1>10. Final(b.dat) = fin + Largo(r)
  BY <1>5, <1>7 DEF Final
<1>11. ASSUME Coherente(a) PROVE Coherente(b)
  <2> SUFFICES ASSUME NEW i \in 1 .. n + 1 PROVE Suyos(b.idx[i], b.dat)
    BY <1>6 DEF Coherente
  <2>1. CASE i = n + 1
    <3>1. m + 1 \in 1 .. Len(b.dat) /\ b.dat[m + 1] = [de |-> e.reg, desde |-> e.offset, largo |-> Largo(e.reg)]
      BY <1>1, <1>5, <1>7 DEF t
    <3>2. Cabe(e, b.dat)
      BY <1>2, <1>5, <1>10 DEF Cabe
    <3> QED
      BY <1>6, <2>1, <3>1, <3>2 DEF Suyos
  <2>2. CASE i \in 1 .. n
    <3> DEFINE x == a.idx[i]
    <3>1. x \in Entrada /\ b.idx[i] = x /\ Suyos(x, a.dat)
      BY <1>1, <1>6, <1>11, <2>2, LosDocumentos DEF Coherente
    <3> HIDE DEF x
    <3>2. Cabe(x, b.dat)
      <4>1. x.offset \in Nat /\ Largo(x.reg) \in Nat
        BY <3>1 DEF Entrada, Registro, Largo
      <4>2. x.offset + Largo(x.reg) <= fin
        BY <3>1 DEF Suyos, Cabe
      <4> HIDE DEF fin
      <4> QED
        BY <1>2, <1>10, <4>1, <4>2 DEF Cabe
    <3>3. PICK j \in 1 .. m : a.dat[j] = [de |-> x.reg, desde |-> x.offset, largo |-> Largo(x.reg)]
      BY <3>1 DEF Suyos
    <3>4. j \in 1 .. Len(b.dat) /\ b.dat[j] = a.dat[j]
      BY <1>1, <1>7, <3>3
    <3> QED
      BY <3>1, <3>2, <3>3, <3>4 DEF Suyos
  <2> QED
    BY <1>1, <2>1, <2>2
<1> QED
  BY <1>7, <1>8, <1>9, <1>11 DEF b

(* leer: a document or none, and the k-th one if all have their data.      *)
LEMMA LoLeido ==
  ASSUME NEW a \in Archivo, NEW k \in Nat \ {0}, NEW d \in Leer(a, k)
  PROVE  /\ d \in Seq(Registro) /\ Len(d) <= 1
         /\ d # <<>> => Head(d) \in Registro /\ d = <<Head(d)>>
         /\ d # <<>> <=> k <= Len(Documentos(a))
         /\ Coherente(a) /\ d # <<>> => Head(d) = Documentos(a)[k]
<1> DEFINE n == Len(a.idx)
           e == a.idx[k]
<1>1. /\ n \in Nat /\ Len(Documentos(a)) = n
      /\ \A i \in 1 .. n : a.idx[i] \in Entrada /\ Documentos(a)[i] = a.idx[i].reg
  BY DelArchivo, LosDocumentos
<1>2. CASE k > n
  <2>1. d = <<>>
    BY <1>2 DEF Leer
  <2>2. ~(k <= n)
    BY <1>1, <1>2
  <2> QED
    BY <1>1, <2>1, <2>2, EmptySeq
<1>3. CASE k <= n
  <2>1. k \in 1 .. n /\ e \in Entrada
    BY <1>1, <1>3
  <2>2. e.reg \in Registro /\ e.reg.tam \in Nat \ {0}
    BY <2>1 DEF Entrada, Registro
  <2>3. \A tam \in Nat \ {0} : [e.reg EXCEPT !.tam = tam, !.intacto = FALSE] \in Registro
    BY <2>2 DEF Registro
  <2>4. \A tam \in 1 .. e.reg.tam : tam \in Nat \ {0}
    BY <2>2
  <2>5. \E r \in Registro : d = <<r>>
    <3> DEFINE Ajeno(tam) == [e.reg EXCEPT !.tam = tam, !.intacto = FALSE]
    <3>1. \/ d = <<Ajeno(1)>> \/ d = <<e.reg>> \/ \E tam \in 1 .. e.reg.tam : d = <<Ajeno(tam)>>
      <4>1. ~(k > n)
        BY <1>1, <1>3
      <4> QED
        BY <4>1, Zenon DEF Leer
    <3>2. \A tam \in Nat \ {0} : Ajeno(tam) \in Registro
      BY <2>3
    <3> HIDE DEF Ajeno
    <3> QED
      BY <2>2, <2>4, <3>1, <3>2
  <2>6. ASSUME Coherente(a) PROVE d = <<Documentos(a)[k]>>
    <3>1. \A i \in 1 .. n : Suyos(a.idx[i], a.dat)
      BY <2>6 DEF Coherente
    <3>2. \A j \in 1 .. k - 1 : j \in 1 .. n
      BY <1>1, <2>1
    <3>3. ~Fallo(a, k)
      BY <3>1, <3>2 DEF Fallo, Suyos
    <3>4. Suyos(e, a.dat) /\ ~(k > n)
      BY <1>1, <1>3, <2>1, <3>1
    <3>5. d = <<e.reg>>
      BY <3>3, <3>4 DEF Leer
    <3> QED
      BY <1>1, <2>1, <3>5
  <2>7. PICK r \in Registro : d = <<r>>
    BY <2>5
  <2>8. d \in Seq(Registro) /\ Len(d) = 1 /\ d # <<>> /\ Head(d) = r
    BY <2>7
  <2>9. Coherente(a) => Head(d) = Documentos(a)[k]
    BY <2>6, <2>8
  <2> QED
    BY <1>1, <1>3, <2>7, <2>8, <2>9
<1> QED
  BY <1>1, <1>2, <1>3

(* What is left of a block when a document of it is written.               *)
LEMMA ElResto ==
  ASSUME NEW s \in Seq(Registro), s # <<>>
  PROVE  /\ Head(s) \in Registro /\ Tail(s) \in Seq(Registro)
         /\ Todo(s) = {Head(s)} \cup Todo(Tail(s))
         /\ SinRepetir(s) => SinRepetir(Tail(s)) /\ Head(s) \notin Todo(Tail(s))
         /\ Decrece(s) => Decrece(Tail(s)) /\ \A d \in Todo(Tail(s)) : Head(s).tam >= d.tam
<1> DEFINE n == Len(s)
           h == Head(s)
           t == Tail(s)
<1>1. /\ n \in Nat \ {0} /\ h \in Registro /\ h = s[1]
      /\ t \in Seq(Registro) /\ Len(t) = n - 1 /\ \A i \in 1 .. n - 1 : t[i] = s[i + 1]
  BY HeadTailProperties, EmptySeq
<1>2. \A i \in 1 .. n : i = 1 \/ (i - 1 \in 1 .. n - 1 /\ (i - 1) + 1 = i)
  BY <1>1
<1>3. \A i \in 1 .. n - 1 : i + 1 \in 1 .. n /\ i + 1 # 1
  BY <1>1
<1> HIDE DEF n, h, t
<1>4. Todo(s) = { s[i] : i \in 1 .. n } /\ Todo(t) = { t[i] : i \in 1 .. n - 1 }
  BY <1>1 DEF Todo, Tramo, n
<1>5. Todo(s) = {h} \cup Todo(t)
  <2>1. 1 \in 1 .. n
    BY <1>1
  <2>2. \A i \in 1 .. n - 1 : t[i] \in Todo(s)
    BY <1>1, <1>3, <1>4
  <2>3. \A i \in 1 .. n : s[i] = h \/ s[i] \in Todo(t)
    <3> SUFFICES ASSUME NEW i \in 1 .. n, i # 1 PROVE s[i] \in Todo(t)
      BY <1>1
    <3>1. i - 1 \in 1 .. n - 1 /\ (i - 1) + 1 = i
      BY <1>2
    <3>2. t[i - 1] = s[i]
      BY <1>1, <3>1
    <3> QED
      BY <1>4, <3>1, <3>2
  <2> QED
    BY <1>1, <1>4, <2>1, <2>2, <2>3
<1>6. ASSUME SinRepetir(s) PROVE SinRepetir(t) /\ h \notin Todo(t)
  <2>1. ASSUME NEW i \in 1 .. n - 1, NEW j \in 1 .. n - 1, t[i] = t[j] PROVE i = j
    <3>1. i + 1 \in 1 .. n /\ j + 1 \in 1 .. n /\ s[i + 1] = s[j + 1]
      BY <1>1, <1>3, <2>1
    <3>2. i + 1 = j + 1
      BY <1>6, <3>1 DEF SinRepetir, n
    <3> QED
      BY <1>1, <3>2
  <2>2. ASSUME NEW i \in 1 .. n - 1 PROVE t[i] # h
    <3>1. i + 1 \in 1 .. n /\ 1 \in 1 .. n /\ i + 1 # 1 /\ t[i] = s[i + 1]
      BY <1>1, <1>3
    <3>2. s[i + 1] # s[1]
      BY <1>6, <3>1 DEF SinRepetir, n
    <3> QED
      BY <1>1, <3>1, <3>2
  <2> QED
    BY <1>1, <1>4, <2>1, <2>2 DEF SinRepetir
<1>7. ASSUME Decrece(s) PROVE Decrece(t) /\ \A d \in Todo(t) : h.tam >= d.tam
  <2>1. ASSUME NEW i \in 1 .. n - 1, NEW j \in 1 .. n - 1, i < j PROVE t[i].tam >= t[j].tam
    <3>1. i + 1 \in 1 .. n /\ j + 1 \in 1 .. n /\ i + 1 < j + 1 /\ t[i] = s[i + 1] /\ t[j] = s[j + 1]
      BY <1>1, <1>3, <2>1
    <3>2. s[i + 1].tam >= s[j + 1].tam
      BY <1>7, <3>1 DEF Decrece, n
    <3> QED
      BY <3>1, <3>2
  <2>2. ASSUME NEW i \in 1 .. n - 1 PROVE h.tam >= t[i].tam
    <3>1. i + 1 \in 1 .. n /\ 1 \in 1 .. n /\ 1 < i + 1 /\ t[i] = s[i + 1]
      BY <1>1, <1>3
    <3>2. s[1].tam >= s[i + 1].tam
      BY <1>7, <3>1 DEF Decrece, n
    <3> QED
      BY <1>1, <3>1, <3>2
  <2> QED
    BY <1>1, <1>4, <2>1, <2>2 DEF Decrece
<1> QED
  BY <1>1, <1>5, <1>6, <1>7 DEF h, t

-----------------------------------------------------------------------------
LEMMA Inicio == Init => InvOrden
<1> SUFFICES ASSUME Init PROVE InvOrden
  OBVIOUS
<1>1. /\ corrida = 1 /\ caidas = 0 /\ sano = TRUE /\ pc = "indexar"
      /\ entrada = <<>> /\ docLex = Vacio /\ particion = [p \in Partes |-> Vacio] /\ nueva = Vacio
      /\ previos = 0 /\ partId = 0 /\ leidos = 0 /\ memoria = <<>>
      /\ pos1 = 1 /\ pos2 = 1 /\ dato1 = <<>> /\ dato2 = <<>>
  BY DEF Init
<1>2. <<>> \in Seq(Registro) /\ Len(<<>>) = 0
  BY FicheroVacio
<1>3. \A p \in Partes : particion[p] = Vacio
  BY <1>1
<1>4. TypeOK
  BY <1>1, <1>2, ArchivoVacio, CotasDelOrden DEF TypeOK, Pcs, Partes
<1>5. Avance
  BY <1>1, <1>2, ArchivoVacio, CotasDelOrden DEF Avance, Mezclando, Reemplazando, Instalando
<1>6. Enteros
  <2>1. 0 \in Partes
    BY CotasDelOrden DEF Partes
  <2> QED
    BY <1>1, <1>3, <2>1, ArchivoVacio DEF Enteros
<1>7. Contenido
  BY <1>1 DEF Contenido, Mezclando, Reemplazando, Instalando
<1>8. SinCaidas
  BY <1>1, <1>3, ArchivoVacio, FicheroVacio DEF SinCaidas, Limpieza, Unicos, EnOrden, Mezclando, Reemplazando
<1> QED
  BY <1>4, <1>5, <1>6, <1>7, <1>8 DEF InvOrden

(* Types of the files in use.                                              *)
LEMMA Ficheros ==
  ASSUME TypeOK
  PROVE  /\ \A p \in Partes : particion[p] \in Archivo /\ Documentos(particion[p]) \in Seq(Registro)
         /\ 0 \in Partes /\ partId \in Partes /\ partId \in Nat /\ leidos \in Nat
         /\ nueva \in Archivo /\ Documentos(nueva) \in Seq(Registro)
         /\ docLex \in Archivo /\ Documentos(docLex) \in Seq(Registro)
         /\ entrada \in Seq(Registro) /\ Len(entrada) \in Nat /\ memoria \in Seq(Registro)
         /\ particion \in [Partes -> Archivo] /\ DOMAIN particion = Partes /\ Partes \subseteq Nat
         /\ 0 .. partId \subseteq Partes
         /\ \A p \in 1 .. partId - 1 : p \in Partes /\ p # 0 /\ p # partId /\ p <= partId
<1>1. /\ \A p \in Partes : particion[p] \in Archivo
      /\ 0 \in Partes /\ partId \in Partes /\ partId \in Nat /\ leidos \in Nat
      /\ nueva \in Archivo /\ docLex \in Archivo
      /\ entrada \in Seq(Registro) /\ Len(entrada) \in Nat /\ memoria \in Seq(Registro)
      /\ particion \in [Partes -> Archivo] /\ DOMAIN particion = Partes /\ Partes \subseteq Nat
      /\ 0 .. partId \subseteq Partes
  BY CotasDelOrden DEF TypeOK, Partes
<1>2. \A a \in Archivo : Documentos(a) \in Seq(Registro)
  BY DelArchivo, LosDocumentos
<1>3. \A p \in 1 .. partId - 1 : p \in 0 .. partId /\ p # 0 /\ p # partId /\ p <= partId
  BY <1>1
<1> QED
  BY <1>1, <1>2, <1>3

(* The data of a file is removed or renamed: its index says the same.      *)
ConDatos(f, q, d) == [f EXCEPT ![q].dat = d]
LEMMA CambiaDatos ==
  ASSUME NEW f \in [Partes -> Archivo], NEW q \in Partes, NEW d
  PROVE  LET g == ConDatos(f, q, d) IN
         /\ d \in Seq(Trozo) => g \in [Partes -> Archivo]
         /\ g[q] = [idx |-> f[q].idx, dat |-> d]
         /\ \A p \in Partes : p # q => g[p] = f[p]
<1> DEFINE g == ConDatos(f, q, d)
<1>1. f[q] \in Archivo /\ f[q].idx \in Seq(Entrada)
  BY DelArchivo
<1>2. g[q] = [idx |-> f[q].idx, dat |-> d]
  BY <1>1 DEF Archivo, ConDatos
<1>3. \A p \in Partes \ {q} : g[p] = f[p]
  BY DEF ConDatos
<1>4. ASSUME d \in Seq(Trozo) PROVE g \in [Partes -> Archivo]
  <2>1. [idx |-> f[q].idx, dat |-> d] \in Archivo
    BY <1>1, <1>4 DEF Archivo
  <2>2. g = [p \in Partes |-> g[p]]
    BY DEF ConDatos
  <2> QED
    BY <1>2, <1>3, <2>1, <2>2
<1> QED
  BY <1>2, <1>3, <1>4

ConIndice(f, q, x) == [f EXCEPT ![q].idx = x]
LEMMA CambiaIndice ==
  ASSUME NEW f \in [Partes -> Archivo], NEW q \in Partes, NEW x
  PROVE  LET g == ConIndice(f, q, x) IN
         /\ x \in Seq(Entrada) => g \in [Partes -> Archivo]
         /\ g[q] = [idx |-> x, dat |-> f[q].dat]
         /\ \A p \in Partes : p # q => g[p] = f[p]
<1> DEFINE g == ConIndice(f, q, x)
<1>1. f[q] \in Archivo /\ f[q].dat \in Seq(Trozo)
  BY DelArchivo
<1>2. g[q] = [idx |-> x, dat |-> f[q].dat]
  BY <1>1 DEF Archivo, ConIndice
<1>3. \A p \in Partes \ {q} : g[p] = f[p]
  BY DEF ConIndice
<1>4. ASSUME x \in Seq(Entrada) PROVE g \in [Partes -> Archivo]
  <2>1. [idx |-> x, dat |-> f[q].dat] \in Archivo
    BY <1>1, <1>4 DEF Archivo
  <2>2. g = [p \in Partes |-> g[p]]
    BY DEF ConIndice
  <2> QED
    BY <1>2, <1>3, <2>1, <2>2
<1> QED
  BY <1>2, <1>3, <1>4

(* A record is written in a partition.                                     *)
LEMMA CambiaParte ==
  ASSUME NEW f \in [Partes -> Archivo], NEW q \in Partes, NEW r \in Registro,
         NEW g, g = [f EXCEPT ![q] = Anotar(@, r)]
  PROVE  /\ g \in [Partes -> Archivo] /\ g[q] = Anotar(f[q], r)
         /\ Documentos(g[q]) = Append(Documentos(f[q]), r)
         /\ Coherente(f[q]) => Coherente(g[q])
         /\ \A p \in Partes \ {q} : g[p] = f[p]
BY UnoAnotado

-----------------------------------------------------------------------------
(* The next document of documentLex is the next one of the input.          *)
LEMMA ElSiguiente ==
  ASSUME TypeOK, Avance, LeerDocumento
  PROVE  /\ leidos + 1 \in 1 .. Len(entrada) /\ entrada[leidos + 1] \in Registro
         /\ memoria' = Append(memoria, entrada[leidos + 1])
         /\ memoria' \in Seq(Registro) /\ memoria' # <<>>
<1>1. /\ pc = "leer" /\ leidos < Len(docLex.idx) /\ docLex \in Archivo /\ leidos \in Nat
      /\ Documentos(docLex) = entrada /\ Coherente(docLex)
  BY Ficheros DEF LeerDocumento, Avance, Instalando
<1>2. Len(entrada) = Len(docLex.idx)
  BY <1>1, DelArchivo, LosDocumentos
<1>3. leidos + 1 \in Nat \ {0} /\ leidos + 1 <= Len(entrada) /\ leidos + 1 \in 1 .. Len(entrada)
  BY <1>1, <1>2, Ficheros
<1>4. PICK d \in Leer(docLex, leidos + 1) : memoria' = memoria \o d
  BY DEF LeerDocumento
<1>5. d # <<>> /\ d = <<Head(d)>> /\ Head(d) = entrada[leidos + 1] /\ Head(d) \in Registro
  BY <1>1, <1>3, LoLeido
<1>6. memoria' = Append(memoria, entrada[leidos + 1])
  BY <1>4, <1>5, Ficheros, AppendIsConcat
<1> QED
  BY <1>3, <1>5, <1>6, Ficheros, AppendProperties

(* buildLexical adds a document.                                           *)
LEMMA UnDocumentoMas ==
  ASSUME TypeOK, Avance, Indexar
  PROVE  \E r \in Registro :
           /\ r.id = Len(entrada) + 1 /\ Len(entrada) < MaxDocs
           /\ entrada' = Append(entrada, r) /\ docLex' = Anotar(docLex, r)
<1>1. PICK tam \in Tamanios :
        LET r == [corrida |-> corrida, id |-> Len(entrada) + 1, tam |-> tam, intacto |-> TRUE]
        IN  entrada' = Append(entrada, r) /\ docLex' = Anotar(docLex, r)
  BY DEF Indexar
<1> DEFINE r == [corrida |-> corrida, id |-> Len(entrada) + 1, tam |-> tam, intacto |-> TRUE]
<1>2. Len(entrada) < MaxDocs
  <2>1. MaxDeCorrida <= MaxDocs /\ MaxDeCorrida \in Nat /\ Len(entrada) < MaxDeCorrida
    BY CotasDelOrden DEF MaxDeCorrida, Indexar
  <2> QED
    BY <2>1, Ficheros, CotasDelOrden
<1>3. Len(entrada) + 1 \in 1 .. MaxDocs
  BY <1>2, Ficheros, CotasDelOrden
<1>4. r \in Registro /\ r.id = Len(entrada) + 1
  BY <1>3, TamaniosPositivos DEF Registro, TypeOK
<1> QED
  BY <1>1, <1>2, <1>4

-----------------------------------------------------------------------------
(* What a merge reads, when the files have all their data.                 *)
LEMMA LoQueHay ==
  ASSUME TypeOK, Avance, Enteros, Mezclando
  PROVE  /\ Hay1 <=> pos1 \in 1 .. Len(Documentos(particion[0]))
         /\ Hay2 <=> pos2 \in 1 .. Len(Documentos(particion[partId]))
         /\ Hay1 <=> pos1 <= Len(Documentos(particion[0]))
         /\ Hay2 <=> pos2 <= Len(Documentos(particion[partId]))
         /\ Hay1 => Head(dato1) = Documentos(particion[0])[pos1]
         /\ Hay2 => Head(dato2) = Documentos(particion[partId])[pos2]
<1>1. /\ particion[0] \in Archivo /\ particion[partId] \in Archivo /\ partId \in Partes \ {0}
      /\ pos1 \in Nat \ {0} /\ pos2 \in Nat \ {0}
      /\ dato1 \in Leer(particion[0], pos1) /\ dato2 \in Leer(particion[partId], pos2)
  <2>1. partId > 0
    BY DEF Avance
  <2> QED
    BY <2>1, Ficheros DEF Avance, TypeOK
<1>2. Coherente(particion[0]) /\ Coherente(particion[partId])
  BY <1>1 DEF Enteros, Mezclando
<1>3. /\ Hay1 <=> pos1 <= Len(Documentos(particion[0]))
      /\ Hay1 => Head(dato1) = Documentos(particion[0])[pos1]
  BY <1>1, <1>2, LoLeido DEF Hay1
<1>4. /\ Hay2 <=> pos2 <= Len(Documentos(particion[partId]))
      /\ Hay2 => Head(dato2) = Documentos(particion[partId])[pos2]
  BY <1>1, <1>2, LoLeido DEF Hay2
<1>5. Len(Documentos(particion[0])) \in Nat /\ Len(Documentos(particion[partId])) \in Nat
  BY <1>1, DelArchivo, LosDocumentos
<1> QED
  BY <1>1, <1>3, <1>4, <1>5

(* One record goes to the new file.                                        *)
LEMMA PasoDeMezcla ==
  ASSUME TypeOK, Avance, Enteros, Mezclar,
         NEW a, a = Documentos(particion[0]), NEW b, b = Documentos(particion[partId]),
         NEW n, n = Documentos(nueva), NEW m, m = Documentos(nueva'),
         NEW i, i = pos1, NEW j, j = pos2
  PROVE  /\ Todo(m) \subseteq Todo(n) \cup Todo(a) \cup Todo(b)
         /\ Todo(m) \cup Restos(a, pos1', b, pos2') = Todo(n) \cup Restos(a, i, b, j)
         /\ Sueltos(n, a, i, b, j) => Sueltos(m, a, pos1', b, pos2')
         /\ Escalonados(n, a, i, b, j) /\ (pc = "iguales" /\ i <= Len(a) => b[j].tam >= a[i].tam)
              => Escalonados(m, a, pos1', b, pos2')
         /\ pc' = "iguales" /\ Decrece(a) /\ pos1' <= Len(a) => b[pos2'].tam >= a[pos1'].tam
<1>1. /\ a \in Seq(Registro) /\ b \in Seq(Registro) /\ n \in Seq(Registro) /\ nueva \in Archivo
      /\ Len(a) \in Nat /\ Len(b) \in Nat /\ i \in Nat \ {0} /\ j \in Nat \ {0}
      /\ \A x \in Todo(a) \cup Todo(b) : x.tam \in Nat
  <2>1. a \in Seq(Registro) /\ b \in Seq(Registro) /\ n \in Seq(Registro)
    BY Ficheros
  <2> QED
    BY <2>1, Registros, Ficheros DEF TypeOK
<1>2. Mezclando
  BY DEF Mezclar, Iguales, ElOtroIgual, Primero, Segundo, Mezclando
<1>3. /\ (Hay1 <=> i \in 1 .. Len(a)) /\ (Hay2 <=> j \in 1 .. Len(b))
      /\ (Hay1 <=> i <= Len(a)) /\ (Hay2 <=> j <= Len(b))
      /\ (Hay1 => Head(dato1) = a[i]) /\ (Hay2 => Head(dato2) = b[j])
  BY <1>2, LoQueHay
<1>4. /\ Hay1 => a[i] \in Todo(a) /\ a[i] \in Registro /\ a[i].tam \in Nat
      /\ Hay2 => b[j] \in Todo(b) /\ b[j] \in Registro /\ b[j].tam \in Nat
  BY <1>1, <1>3, LeerUno
<1>5. \* a record of the first file
      ASSUME Hay1, nueva' = Anotar(nueva, Head(dato1)), pos1' = i + 1, pos2' = j,
             Hay2 => a[i].tam >= b[j].tam
      PROVE  /\ Todo(m) \subseteq Todo(n) \cup Todo(a) \cup Todo(b)
             /\ Todo(m) \cup Restos(a, pos1', b, pos2') = Todo(n) \cup Restos(a, i, b, j)
             /\ Sueltos(n, a, i, b, j) => Sueltos(m, a, pos1', b, pos2')
             /\ Escalonados(n, a, i, b, j) => Escalonados(m, a, pos1', b, pos2')
  <2>1. m = Append(n, a[i])
    BY <1>1, <1>3, <1>4, <1>5, UnoAnotado
  <2>2. i \in 1 .. Len(a)
    BY <1>3, <1>5
  <2>3. Pasa(n, a, i, b, j, m)
    BY <1>1, <2>1, <2>2, Pasar
  <2> QED
    BY <1>3, <1>4, <1>5, <2>3 DEF Pasa
<1>6. \* a record of the second
      ASSUME Hay2, nueva' = Anotar(nueva, Head(dato2)), pos1' = i, pos2' = j + 1
      PROVE  /\ Todo(m) \subseteq Todo(n) \cup Todo(a) \cup Todo(b)
             /\ Todo(m) \cup Restos(a, pos1', b, pos2') = Todo(n) \cup Restos(a, i, b, j)
             /\ Sueltos(n, a, i, b, j) => Sueltos(m, a, pos1', b, pos2')
             /\ Escalonados(n, a, i, b, j) /\ (i <= Len(a) => b[j].tam >= a[i].tam)
                  => Escalonados(m, a, pos1', b, pos2')
  <2>1. m = Append(n, b[j])
    BY <1>1, <1>3, <1>4, <1>6, UnoAnotado
  <2>2. j \in 1 .. Len(b)
    BY <1>3, <1>6
  <2>3. Pasa(n, b, j, a, i, m)
    BY <1>1, <2>1, <2>2, Pasar
  <2>4. /\ Todo(m) = Todo(n) \cup {b[j]}
        /\ Todo(m) \cup Restos(b, j + 1, a, i) = Todo(n) \cup Restos(b, j, a, i)
        /\ Sueltos(n, b, j, a, i) => Sueltos(m, b, j + 1, a, i)
        /\ Escalonados(n, b, j, a, i) /\ (i <= Len(a) => b[j].tam >= a[i].tam)
             => Escalonados(m, b, j + 1, a, i)
    BY <2>3 DEF Pasa
  <2>5. Todo(m) \cup Restos(a, i, b, j + 1) = Todo(n) \cup Restos(a, i, b, j)
    BY <2>4, DaIgual
  <2>6. Sueltos(n, a, i, b, j) => Sueltos(m, a, i, b, j + 1)
    BY <2>4, DaIgual
  <2>7. Escalonados(n, a, i, b, j) /\ (i <= Len(a) => b[j].tam >= a[i].tam) => Escalonados(m, a, i, b, j + 1)
    BY <2>4, DaIgual
  <2> QED
    BY <1>4, <1>6, <2>4, <2>5, <2>6, <2>7
<1>7. CASE Primero
  <2>1. /\ Hay1 /\ nueva' = Anotar(nueva, Head(dato1)) /\ pos1' = i + 1 /\ pos2' = j /\ pc' = "mezclar"
        /\ Hay2 => Head(dato1).tam > Head(dato2).tam
    BY <1>7 DEF Primero, Va1, Leer1
  <2>2. Hay2 => a[i].tam >= b[j].tam
    BY <1>3, <1>4, <2>1
  <2> QED
    BY <1>5, <2>1, <2>2
<1>8. CASE Iguales
  <2>1. /\ Hay1 /\ Hay2 /\ nueva' = Anotar(nueva, Head(dato1)) /\ pos1' = i + 1 /\ pos2' = j
        /\ Head(dato1).tam = Head(dato2).tam
    BY <1>8 DEF Iguales, Leer1
  <2>2. a[i].tam = b[j].tam
    BY <1>3, <2>1
  <2>3. ASSUME Decrece(a), i + 1 <= Len(a) PROVE b[j].tam >= a[i + 1].tam
    <3>1. i \in 1 .. Len(a) /\ i + 1 \in 1 .. Len(a) /\ i < i + 1
      BY <1>1, <1>3, <2>1, <2>3
    <3>2. a[i].tam >= a[i + 1].tam
      BY <2>3, <3>1 DEF Decrece
    <3> QED
      BY <2>2, <3>2
  <2>4. Hay2 => a[i].tam >= b[j].tam
    BY <1>4, <2>1, <2>2
  <2> QED
    BY <1>5, <2>1, <2>3, <2>4
<1>9. CASE Segundo
  <2>1. /\ Hay2 /\ nueva' = Anotar(nueva, Head(dato2)) /\ pos1' = i /\ pos2' = j + 1
        /\ pc' = "mezclar" /\ (Hay1 => Head(dato1).tam < Head(dato2).tam)
    BY <1>9 DEF Segundo, Va2, Leer2
  <2>2. i <= Len(a) => b[j].tam >= a[i].tam
    BY <1>3, <1>4, <2>1
  <2> QED
    BY <1>6, <2>1, <2>2
<1>10. CASE ElOtroIgual
  <2>1. /\ pc = "iguales" /\ nueva' = Anotar(nueva, Head(dato2)) /\ pos1' = i /\ pos2' = j + 1 /\ pc' = "mezclar"
    BY <1>10 DEF ElOtroIgual, Leer2
  <2>2. Hay2
    BY <2>1 DEF Avance, Hay2
  <2> QED
    BY <1>6, <2>1, <2>2
<1> QED
  BY <1>7, <1>8, <1>9, <1>10 DEF Mezclar

-----------------------------------------------------------------------------
(* How far the sort is.                                                    *)
LEMMA PasoAvance ==
  ASSUME TypeOK, Avance, SinCaidas, [Next]_vars
  PROVE  Avance'
<1>0. partId \in Nat /\ leidos \in Nat /\ Len(entrada) \in Nat
  BY Ficheros
<1>1. CASE Indexar
  <2>1. PICK r \in Registro :
           /\ r.id = Len(entrada) + 1 /\ Len(entrada) < MaxDocs
           /\ entrada' = Append(entrada, r) /\ docLex' = Anotar(docLex, r)
    BY <1>1, UnDocumentoMas
  <2>2. pc = "indexar" /\ UNCHANGED <<pc, caidas, sano, partId, leidos, memoria>>
    BY <1>1 DEF Indexar, cursores
  <2>3. Documentos(docLex') = entrada' /\ Coherente(docLex')
    BY <2>1, <2>2, Ficheros, UnoAnotado DEF Avance, Instalando
  <2>4. /\ Len(entrada') = Len(entrada) + 1 /\ entrada'[Len(entrada) + 1] = r
        /\ \A i \in 1 .. Len(entrada) : entrada'[i] = entrada[i]
    BY <2>1, Ficheros, AppendProperties
  <2>5. \A i \in 1 .. Len(entrada') : entrada'[i].id = i
    <3>1. \A i \in 1 .. Len(entrada') : i \in 1 .. Len(entrada) \/ i = Len(entrada) + 1
      BY <1>0, <2>4
    <3> QED
      BY <2>1, <2>4, <3>1 DEF Avance
  <2>6. Len(entrada') <= MaxDocs
    BY <1>0, <2>1, <2>4, CotasDelOrden
  <2>7. leidos' = 0 /\ leidos' <= Len(entrada') /\ partId' = 0 /\ memoria' = <<>>
    BY <1>0, <2>2, <2>4 DEF Avance
  <2> QED
    BY <2>2, <2>3, <2>5, <2>6, <2>7 DEF Avance, Mezclando, Reemplazando, Instalando, Limpio
<1>2. CASE Indexado
  BY <1>0, <1>2 DEF Indexado, Avance, Mezclando, Reemplazando, Instalando, Limpio, historia, archivos, cursores
<1>3. CASE LeerDocumento
  <2>1. leidos + 1 \in 1 .. Len(entrada) /\ memoria' # <<>>
    BY <1>3, ElSiguiente
  <2>2. /\ pc = "leer" /\ leidos' = leidos + 1
        /\ UNCHANGED <<pc, caidas, sano, entrada, docLex, partId>>
    BY <1>3 DEF LeerDocumento, historia, archivos
  <2>3. leidos' <= Len(entrada') /\ partId' < leidos'
    BY <1>0, <2>1, <2>2 DEF Avance
  <2>4. partId' <= leidos'
    BY <1>0, <2>2, <2>3
  <2> QED
    BY <2>2, <2>3, <2>4 DEF Avance, Mezclando, Reemplazando, Instalando, Limpio
<1>4. CASE OrdenarBloque
  BY <1>0, <1>4 DEF OrdenarBloque, Avance, Mezclando, Reemplazando, Instalando, Limpio, historia, archivos
<1>5. CASE EscribirParticion
  <2>1. particion'[partId].dat # <<>>
    <3>1. particion'[partId] = Anotar(particion[partId], Head(memoria)) /\ Head(memoria) \in Registro
      BY <1>5, Ficheros, HeadTailProperties DEF EscribirParticion
    <3> QED
      BY <3>1, Ficheros, UnoAnotado
  <2> QED
    BY <1>0, <1>5, <2>1 DEF EscribirParticion, Avance, Mezclando, Reemplazando, Instalando, Limpio, historia
<1>6. CASE CerrarParticion
  BY <1>0, <1>6 DEF CerrarParticion, Avance, Mezclando, Reemplazando, Instalando, Limpio, historia, archivos
<1>7. CASE TodoLeido
  <2>1. Len(entrada) = Len(docLex.idx)
    BY <1>7, Ficheros, DelArchivo, LosDocumentos DEF TodoLeido, Avance, Instalando
  <2> QED
    BY <1>0, <1>7, <2>1 DEF TodoLeido, Avance, Mezclando, Reemplazando, Instalando, Limpio, historia, archivos, cursores
<1>8. CASE AbrirPartes
  BY <1>0, <1>8 DEF AbrirPartes, QuedanPartes, Avance, Mezclando, Reemplazando, Instalando, Limpio, historia, archivos
<1>9. CASE Mezclar
  <2>1. /\ Mezclando /\ Mezclando'
        /\ UNCHANGED <<caidas, sano, entrada, docLex, particion, partId, leidos, memoria>>
    BY <1>9 DEF Mezclar, Iguales, ElOtroIgual, Primero, Segundo, Mezclando, historia
  <2>2. dato1' \in Leer(particion[0], pos1') /\ dato2' \in Leer(particion[partId], pos2')
    BY <1>9, <2>1 DEF Mezclar, Iguales, ElOtroIgual, Primero, Segundo, Leer1, Leer2, Avance
  <2>3. pc' = "iguales" => dato2' # <<>>
    BY <1>9 DEF Mezclar, Iguales, ElOtroIgual, Primero, Segundo, Hay2
  <2>4. Mezclando' => ~Reemplazando' /\ ~Instalando' /\ pc' \notin {"indexar", "leer", "escribir", "fin", "caido"}
    BY DEF Mezclando, Reemplazando, Instalando
  <2>5. pc \notin {"indexar", "leer", "escribir", "fin", "caido"} /\ ~Instalando
    BY <2>1 DEF Mezclando, Instalando
  <2>6. nueva'.dat # <<>>
    <3>1. \E r \in Registro : nueva' = Anotar(nueva, r)
      <4>1. (Hay1 => Head(dato1) \in Registro) /\ (Hay2 => Head(dato2) \in Registro)
        BY HeadTailProperties DEF Hay1, Hay2, TypeOK
      <4>2. pc = "iguales" => Hay2
        BY DEF Avance, Hay2
      <4> QED
        BY <1>9, <4>1, <4>2 DEF Mezclar, Iguales, ElOtroIgual, Primero, Segundo, Va1, Va2
    <3> QED
      BY <3>1, Ficheros, UnoAnotado
  <2> QED
    BY <2>1, <2>2, <2>3, <2>4, <2>5, <2>6 DEF Avance, Limpio
<1>10. CASE CerrarPartes \/ Borrar1 \/ Borrar2
  <2>1. /\ pc \in {"mezclar", "borrarDat1", "borrarIdx1", "borrarDat2", "borrarIdx2"}
        /\ pc' \in {"borrarDat1", "borrarIdx1", "borrarDat2", "borrarIdx2", "renombrarDat"}
        /\ UNCHANGED <<caidas, sano, entrada, docLex, partId, leidos, memoria>>
    BY <1>10 DEF CerrarPartes, Borrar1, Borrar2, Borrar, historia, archivos, cursores
  <2> QED
    BY <2>1 DEF Avance, Mezclando, Reemplazando, Instalando, Limpio
<1>11. CASE RenombrarDatos
  BY <1>11 DEF RenombrarDatos, Avance, Mezclando, Reemplazando, Instalando, Limpio, historia, cursores
<1>12. CASE RenombrarIndice
  BY <1>0, <1>12 DEF RenombrarIndice, Avance, Mezclando, Reemplazando, Instalando, Limpio, historia
<1>13. CASE QuitarOriginal
  <2>1. /\ pc \in {"fusionar", "quitarIdx"} /\ pc' \in {"quitarIdx", "instalarDat"}
        /\ pc = "fusionar" => ~QuedanPartes
        /\ UNCHANGED <<caidas, sano, entrada, partId, leidos, memoria>>
    BY <1>13 DEF QuitarOriginal, historia, cursores
  <2>2. partId = 0
    BY <1>0, <2>1 DEF QuedanPartes, Avance, Instalando
  <2> QED
    BY <2>1, <2>2 DEF Avance, Mezclando, Reemplazando, Instalando, Limpio
<1>14. CASE InstalarDatos \/ InstalarIndice
  BY <1>14 DEF InstalarDatos, InstalarIndice, Avance, Mezclando, Reemplazando, Instalando, Limpio, historia, cursores
<1>15. CASE Caer
  <2>1. /\ pc' = "caido" /\ caidas' = caidas + 1 /\ caidas \in Nat
        /\ entrada' = <<>> /\ docLex' = Vacio /\ leidos' = 0
    BY <1>15, CotasDelOrden DEF Caer, Arranque, TypeOK
  <2>2. ~Limpio'
    BY <2>1 DEF Limpio
  <2> QED
    BY <2>1, <2>2, FicheroVacio, ArchivoVacio, CotasDelOrden DEF Avance, Mezclando, Reemplazando, Instalando
<1>16. CASE Reindexar
  <2>1. /\ pc \in {"fin", "caido"} /\ pc' = "indexar" /\ UNCHANGED caidas
        /\ entrada' = <<>> /\ docLex' = Vacio /\ leidos' = 0 /\ partId' = 0 /\ memoria' = <<>>
        /\ sano' = (Coherente(nueva) /\ \A p \in Partes : Coherente(particion[p]))
    BY <1>16 DEF Reindexar, Arranque
  <2>2. ASSUME Limpio' PROVE sano'
    <3>1. Limpio /\ pc = "fin"
      BY <2>1, <2>2 DEF Limpio, Avance
    <3>2. nueva.idx = <<>> /\ \A p \in Partes : particion[p].idx = <<>>
      BY <3>1 DEF SinCaidas, Limpieza, Mezclando, Reemplazando
    <3> QED
      BY <2>1, <3>2, ArchivoVacio
  <2> QED
    BY <2>1, <2>2, FicheroVacio, ArchivoVacio, CotasDelOrden DEF Avance, Mezclando, Reemplazando, Instalando
<1>17. CASE UNCHANGED vars
  BY <1>17 DEF vars, historia, archivos, cursores, lecturas, Avance, Mezclando, Reemplazando, Instalando, Limpio
<1> QED
  BY <1>1, <1>2, <1>3, <1>4, <1>5, <1>6, <1>7, <1>8, <1>9, <1>10, <1>11, <1>12, <1>13, <1>14, <1>15, <1>16, <1>17
  DEF Next, Ordenar

-----------------------------------------------------------------------------
(* What a kill leaves is a file, if something had been written.            *)
LEMMA LoCortado ==
  ASSUME NEW a \in Archivo, NEW quedan, NEW c \in Cortado(a, quedan), a.dat # <<>> \/ Len(a.idx) = previos
  PROVE  c \in Archivo
<1> DEFINE n == Len(a.idx)
           u == Len(a.dat)
           Datos(k) == [a.dat EXCEPT ![u].largo = k]
<1>1. a.idx \in Seq(Entrada) /\ a.dat \in Seq(Trozo) /\ n \in Nat /\ u \in Nat
  BY DelArchivo
<1>2. CASE n = previos
  <2>1. c = a
    BY <1>2 DEF Cortado
  <2> QED
    BY <2>1
<1>3. CASE n # previos
  <2>1. a.dat # <<>>
    BY <1>3
  <2>2. u \in 1 .. u /\ a.dat[u] \in Trozo
    BY <1>1, <2>1, EmptySeq, ElementOfSeq
  <2>3. \A k \in 0 .. a.dat[u].largo : Datos(k) \in Seq(Trozo)
    <3> SUFFICES ASSUME NEW k \in 0 .. a.dat[u].largo PROVE Datos(k) \in Seq(Trozo)
      OBVIOUS
    <3>1. k \in Nat
      BY <2>2 DEF Trozo
    <3>2. [a.dat[u] EXCEPT !.largo = k] \in Trozo
      BY <2>2, <3>1 DEF Trozo
    <3>3. Datos(k) \in [1 .. u -> Trozo]
      <4>1. a.dat \in [1 .. u -> Trozo]
        BY <1>1, LenProperties
      <4> HIDE DEF u
      <4> QED
        BY <2>2, <3>2, <4>1
    <3> HIDE DEF u, Datos
    <3> QED
      BY <1>1, <3>3
  <2>4. SubSeq(a.idx, 1, n - 1) \in Seq(Entrada)
    <3>1. 1 \in Int /\ n - 1 \in Int /\ \A i \in 1 .. n - 1 : i \in 1 .. n
      BY <1>1
    <3>2. \A i \in 1 .. n - 1 : a.idx[i] \in Entrada
      BY <1>1, <3>1, ElementOfSeq
    <3> HIDE DEF n
    <3> QED
      BY <3>1, <3>2, SubSeqProperties
  <2>5. \/ c = a
        \/ \E k \in 0 .. a.dat[u].largo : c = [idx |-> SubSeq(a.idx, 1, n - 1), dat |-> Datos(k)]
        \/ \E k \in 0 .. a.dat[u].largo : c = [idx |-> a.idx, dat |-> Datos(k)]
    BY <1>3, Zenon DEF Cortado
  <2>6. ASSUME NEW k \in 0 .. a.dat[u].largo, NEW x \in Seq(Entrada), c = [idx |-> x, dat |-> Datos(k)]
        PROVE  c \in Archivo
    <3>1. Datos(k) \in Seq(Trozo)
      BY <2>3
    <3> HIDE DEF Datos
    <3> QED
      BY <2>6, <3>1 DEF Archivo
  <2> HIDE DEF n, u, Datos
  <2> QED
    BY <1>1, <2>4, <2>5, <2>6
<1> QED
  BY <1>2, <1>3

-----------------------------------------------------------------------------
(* What removing a file does, one of its two parts at a time.              *)
LEMMA LoBorrado ==
  ASSUME TypeOK, NEW q, (Borrar1 /\ q = 0) \/ (Borrar2 /\ q = partId)
  PROVE  /\ q \in Partes /\ particion' \in [Partes -> Archivo]
         /\ \A p \in Partes : p # q => particion'[p] = particion[p]
         /\ pc \in {"borrarDat1", "borrarDat2"} =>
              particion'[q].idx = particion[q].idx /\ Documentos(particion'[q]) = Documentos(particion[q])
         /\ pc \in {"borrarIdx1", "borrarIdx2"} => particion'[q].idx = <<>> /\ Documentos(particion'[q]) = <<>>
         /\ Borrar1 => (pc = "borrarDat1" /\ pc' = "borrarIdx1") \/ (pc = "borrarIdx1" /\ pc' = "borrarDat2")
         /\ Borrar2 => (pc = "borrarDat2" /\ pc' = "borrarIdx2") \/ (pc = "borrarIdx2" /\ pc' = "renombrarDat")
         /\ UNCHANGED <<historia, docLex, nueva, cursores>>
<1>1. q \in Partes /\ particion \in [Partes -> Archivo] /\ Vacio.dat \in Seq(Trozo) /\ Vacio.idx \in Seq(Entrada)
  BY Ficheros, DelArchivo, ArchivoVacio
<1>2. /\ UNCHANGED <<historia, docLex, nueva, cursores>>
      /\ \/ Borrar1 /\ q = 0 /\ pc = "borrarDat1" /\ pc' = "borrarIdx1" /\ particion' = ConDatos(particion, q, Vacio.dat)
         \/ Borrar1 /\ q = 0 /\ pc = "borrarIdx1" /\ pc' = "borrarDat2" /\ particion' = ConIndice(particion, q, Vacio.idx)
         \/ Borrar2 /\ q = partId /\ pc = "borrarDat2" /\ pc' = "borrarIdx2" /\ particion' = ConDatos(particion, q, Vacio.dat)
         \/ Borrar2 /\ q = partId /\ pc = "borrarIdx2" /\ pc' = "renombrarDat" /\ particion' = ConIndice(particion, q, Vacio.idx)
  BY DEF Borrar1, Borrar2, Borrar, ConDatos, ConIndice, Vacio
<1>3. /\ Borrar1 => (pc = "borrarDat1" /\ pc' = "borrarIdx1") \/ (pc = "borrarIdx1" /\ pc' = "borrarDat2")
      /\ Borrar2 => (pc = "borrarDat2" /\ pc' = "borrarIdx2") \/ (pc = "borrarIdx2" /\ pc' = "renombrarDat")
  BY DEF Borrar1, Borrar2, Borrar
<1>4. CASE pc \in {"borrarDat1", "borrarDat2"}
  <2>1. particion' = ConDatos(particion, q, Vacio.dat)
    BY <1>2, <1>4
  <2>2. particion' \in [Partes -> Archivo] /\ particion'[q] = [idx |-> particion[q].idx, dat |-> Vacio.dat]
    BY <1>1, <2>1, CambiaDatos
  <2>3. \A p \in Partes : p # q => particion'[p] = particion[p]
    BY <1>1, <2>1 DEF ConDatos
  <2> QED
    BY <1>1, <1>2, <1>3, <1>4, <2>2, <2>3, MismoIndice, ArchivoVacio
<1>5. CASE pc \in {"borrarIdx1", "borrarIdx2"}
  <2>1. particion' = ConIndice(particion, q, Vacio.idx)
    BY <1>2, <1>5
  <2>2. particion' \in [Partes -> Archivo] /\ particion'[q] = [idx |-> Vacio.idx, dat |-> particion[q].dat]
    BY <1>1, <2>1, CambiaIndice
  <2>3. \A p \in Partes : p # q => particion'[p] = particion[p]
    BY <1>1, <2>1 DEF ConIndice
  <2> QED
    BY <1>1, <1>2, <1>3, <1>5, <2>2, <2>3, MismoIndice, ArchivoVacio
<1> QED
  BY <1>2, <1>3, <1>4, <1>5

(* What renaming the merged file does: after both calls it is partition 0. *)
LEMMA LoRenombrado ==
  ASSUME TypeOK
  PROVE  /\ RenombrarDatos =>
              /\ particion' \in [Partes -> Archivo] /\ \A p \in Partes : p # 0 => particion'[p] = particion[p]
              /\ particion'[0] = [idx |-> particion[0].idx, dat |-> nueva.dat]
              /\ Documentos(particion'[0]) = Documentos(particion[0])
              /\ nueva' \in Archivo /\ nueva'.idx = nueva.idx /\ Documentos(nueva') = Documentos(nueva)
         /\ RenombrarIndice =>
              /\ particion' \in [Partes -> Archivo] /\ \A p \in Partes : p # 0 => particion'[p] = particion[p]
              /\ particion'[0] = [idx |-> nueva.idx, dat |-> particion[0].dat]
              /\ Documentos(particion'[0]) = Documentos(nueva)
              /\ nueva' \in Archivo /\ nueva'.idx = <<>>
<1>1. /\ particion \in [Partes -> Archivo] /\ 0 \in Partes /\ nueva \in Archivo
      /\ nueva.idx \in Seq(Entrada) /\ nueva.dat \in Seq(Trozo) /\ Vacio.dat \in Seq(Trozo) /\ Vacio.idx \in Seq(Entrada)
  BY Ficheros, DelArchivo, ArchivoVacio
<1>2. ASSUME RenombrarDatos
      PROVE  /\ particion' \in [Partes -> Archivo] /\ \A p \in Partes : p # 0 => particion'[p] = particion[p]
             /\ particion'[0] = [idx |-> particion[0].idx, dat |-> nueva.dat]
             /\ Documentos(particion'[0]) = Documentos(particion[0])
             /\ nueva' \in Archivo /\ nueva'.idx = nueva.idx /\ Documentos(nueva') = Documentos(nueva)
  <2>1. particion' = ConDatos(particion, 0, nueva.dat)
    BY <1>2 DEF RenombrarDatos, ConDatos
  <2>2. nueva' \in Archivo /\ nueva'.idx = nueva.idx
    <3>1. nueva' = [nueva EXCEPT !.dat = Vacio.dat]
      BY <1>2 DEF RenombrarDatos, Vacio
    <3> QED
      BY <1>1, <3>1 DEF Archivo
  <2>3. particion' \in [Partes -> Archivo] /\ particion'[0] = [idx |-> particion[0].idx, dat |-> nueva.dat]
    BY <1>1, <2>1, CambiaDatos
  <2>4. \A p \in Partes : p # 0 => particion'[p] = particion[p]
    BY <1>1, <2>1 DEF ConDatos
  <2>5. Documentos(nueva') = Documentos(nueva)
    BY <2>2, MismoIndice
  <2> QED
    BY <2>2, <2>3, <2>4, <2>5, MismoIndice, ArchivoVacio
<1>3. ASSUME RenombrarIndice
      PROVE  /\ particion' \in [Partes -> Archivo] /\ \A p \in Partes : p # 0 => particion'[p] = particion[p]
             /\ particion'[0] = [idx |-> nueva.idx, dat |-> particion[0].dat]
             /\ Documentos(particion'[0]) = Documentos(nueva)
             /\ nueva' \in Archivo /\ nueva'.idx = <<>>
  <2>1. particion' = ConIndice(particion, 0, nueva.idx)
    BY <1>3 DEF RenombrarIndice, ConIndice
  <2>2. nueva' \in Archivo /\ nueva'.idx = <<>>
    <3>1. nueva' = [nueva EXCEPT !.idx = Vacio.idx]
      BY <1>3 DEF RenombrarIndice, Vacio
    <3> QED
      BY <1>1, <3>1, ArchivoVacio DEF Archivo
  <2>3. particion' \in [Partes -> Archivo] /\ particion'[0] = [idx |-> nueva.idx, dat |-> particion[0].dat]
    BY <1>1, <2>1, CambiaIndice
  <2>4. \A p \in Partes : p # 0 => particion'[p] = particion[p]
    BY <1>1, <2>1 DEF ConIndice
  <2>5. Documentos(particion'[0]) = Documentos(nueva)
    BY <2>3, MismoIndice
  <2> QED
    BY <2>2, <2>3, <2>4, <2>5, MismoIndice, ArchivoVacio
<1> QED
  BY <1>2, <1>3

(* What putting it in the place of documentLex does.                       *)
LEMMA LoInstalado ==
  ASSUME TypeOK
  PROVE  /\ InstalarDatos =>
              /\ particion' \in [Partes -> Archivo] /\ \A p \in Partes : p # 0 => particion'[p] = particion[p]
              /\ particion'[0].idx = particion[0].idx /\ Documentos(particion'[0]) = Documentos(particion[0])
              /\ docLex' \in Archivo /\ docLex' = [idx |-> docLex.idx, dat |-> particion[0].dat]
         /\ InstalarIndice =>
              /\ particion' \in [Partes -> Archivo] /\ \A p \in Partes : p # 0 => particion'[p] = particion[p]
              /\ particion'[0].idx = <<>>
              /\ docLex' \in Archivo /\ docLex' = [idx |-> particion[0].idx, dat |-> docLex.dat]
              /\ Documentos(docLex') = Documentos(particion[0])
<1>1. /\ particion \in [Partes -> Archivo] /\ 0 \in Partes /\ docLex \in Archivo /\ particion[0] \in Archivo
      /\ docLex.idx \in Seq(Entrada) /\ docLex.dat \in Seq(Trozo)
      /\ particion[0].idx \in Seq(Entrada) /\ particion[0].dat \in Seq(Trozo)
      /\ Vacio.dat \in Seq(Trozo) /\ Vacio.idx \in Seq(Entrada)
  BY Ficheros, DelArchivo, ArchivoVacio
<1>2. ASSUME InstalarDatos
      PROVE  /\ particion' \in [Partes -> Archivo] /\ \A p \in Partes : p # 0 => particion'[p] = particion[p]
             /\ particion'[0].idx = particion[0].idx /\ Documentos(particion'[0]) = Documentos(particion[0])
             /\ docLex' \in Archivo /\ docLex' = [idx |-> docLex.idx, dat |-> particion[0].dat]
  <2>1. /\ particion' = ConDatos(particion, 0, Vacio.dat)
        /\ docLex' = [docLex EXCEPT !.dat = particion[0].dat]
    BY <1>2 DEF InstalarDatos, ConDatos, Vacio
  <2>2. docLex' \in Archivo /\ docLex' = [idx |-> docLex.idx, dat |-> particion[0].dat]
    BY <1>1, <2>1 DEF Archivo
  <2>3. particion' \in [Partes -> Archivo] /\ particion'[0] = [idx |-> particion[0].idx, dat |-> Vacio.dat]
    BY <1>1, <2>1, CambiaDatos
  <2>4. \A p \in Partes : p # 0 => particion'[p] = particion[p]
    BY <1>1, <2>1 DEF ConDatos
  <2> QED
    BY <2>2, <2>3, <2>4, MismoIndice, ArchivoVacio
<1>3. ASSUME InstalarIndice
      PROVE  /\ particion' \in [Partes -> Archivo] /\ \A p \in Partes : p # 0 => particion'[p] = particion[p]
             /\ particion'[0].idx = <<>>
             /\ docLex' \in Archivo /\ docLex' = [idx |-> particion[0].idx, dat |-> docLex.dat]
             /\ Documentos(docLex') = Documentos(particion[0])
  <2>1. /\ particion' = ConIndice(particion, 0, Vacio.idx)
        /\ docLex' = [docLex EXCEPT !.idx = particion[0].idx]
    BY <1>3 DEF InstalarIndice, ConIndice, Vacio
  <2>2. docLex' \in Archivo /\ docLex' = [idx |-> particion[0].idx, dat |-> docLex.dat]
    BY <1>1, <2>1 DEF Archivo
  <2>3. docLex'.idx = particion[0].idx
    BY <2>2
  <2>4. particion' \in [Partes -> Archivo] /\ particion'[0] = [idx |-> Vacio.idx, dat |-> particion[0].dat]
    BY <1>1, <2>1, CambiaIndice
  <2>5. \A p \in Partes : p # 0 => particion'[p] = particion[p]
    BY <1>1, <2>1 DEF ConIndice
  <2>6. Documentos(docLex') = Documentos(particion[0])
    BY <2>3, MismoIndice
  <2> QED
    BY <2>2, <2>4, <2>5, <2>6, MismoIndice, ArchivoVacio
<1> QED
  BY <1>2, <1>3

(* Types.                                                                  *)
LEMMA PasoTipos ==
  ASSUME TypeOK, Avance, [Next]_vars
  PROVE  TypeOK'
<1>0. /\ partId \in Nat /\ leidos \in Nat /\ Len(entrada) \in Nat /\ Len(entrada) <= MaxDocs
      /\ MaxDocs \in Nat /\ MaxCaidas \in Nat /\ 0 \in Partes
      /\ pos1 \in Nat \ {0} /\ pos2 \in Nat \ {0}
  BY Ficheros, CotasDelOrden DEF Avance, TypeOK
<1>a. <<>> \in Seq(Registro) /\ Len(<<>>) = 0 /\ <<>> \in Seq(Entrada) /\ <<>> \in Seq(Trozo)
  BY EmptySeq
<1>b. \A a \in Archivo : a.idx \in Seq(Entrada) /\ a.dat \in Seq(Trozo) /\ Len(a.idx) \in Nat
  BY DelArchivo, LosDocumentos
<1>c. \A a \in Archivo : \A k \in Nat \ {0} : \A d \in Leer(a, k) : d \in Seq(Registro) /\ Len(d) <= 1
  BY LoLeido
<1>1. CASE Indexar
  <2>1. PICK r \in Registro : entrada' = Append(entrada, r) /\ docLex' = Anotar(docLex, r)
    BY <1>1, UnDocumentoMas
  <2>2. entrada' \in Seq(Registro)
    BY <2>1, Ficheros, AppendProperties
  <2>3. docLex' \in Archivo
    BY <2>1, Ficheros, UnoAnotado
  <2> QED
    BY <1>1, <2>2, <2>3 DEF Indexar, TypeOK, cursores, lecturas
<1>2. CASE Indexado
  BY <1>2 DEF Indexado, TypeOK, historia, archivos, cursores, lecturas, Pcs
<1>3. CASE LeerDocumento
  <2>1. memoria' \in Seq(Registro) /\ leidos + 1 \in 1 .. Len(entrada)
    BY <1>3, ElSiguiente
  <2>2. leidos + 1 \in 0 .. MaxDocs
    BY <1>0, <2>1
  <2> QED
    BY <1>3, <2>1, <2>2 DEF LeerDocumento, TypeOK, historia, archivos, lecturas
<1>4. CASE OrdenarBloque
  <2>1. memoria' \in Seq(Registro)
    BY <1>4, Ficheros, Ordenados DEF OrdenarBloque
  <2>2. previos' \in Nat
    BY <1>4, <1>b, Ficheros DEF OrdenarBloque
  <2> QED
    BY <1>4, <2>1, <2>2 DEF OrdenarBloque, TypeOK, historia, archivos, lecturas, Pcs
<1>5. CASE EscribirParticion
  <2>1. memoria # <<>> /\ Head(memoria) \in Registro /\ Tail(memoria) \in Seq(Registro)
    BY <1>5, Ficheros, HeadTailProperties DEF EscribirParticion
  <2>2. particion' \in [Partes -> Archivo]
    BY <1>5, <2>1, Ficheros, CambiaParte DEF EscribirParticion
  <2> QED
    BY <1>5, <2>1, <2>2 DEF EscribirParticion, TypeOK, historia, lecturas
<1>6. CASE CerrarParticion
  <2>1. partId + 1 \in Partes
    BY <1>0, <1>6 DEF CerrarParticion, Avance, Partes
  <2> QED
    BY <1>6, <2>1 DEF CerrarParticion, TypeOK, historia, archivos, lecturas, Pcs
<1>7. CASE TodoLeido
  BY <1>7 DEF TodoLeido, TypeOK, historia, archivos, cursores, lecturas, Pcs
<1>8. CASE AbrirPartes
  <2>1. /\ dato1' \in Seq(Registro) /\ Len(dato1') <= 1 /\ dato2' \in Seq(Registro) /\ Len(dato2') <= 1
        /\ previos' \in Nat
    BY <1>8, <1>b, <1>c, Ficheros DEF AbrirPartes
  <2> QED
    BY <1>8, <2>1 DEF AbrirPartes, TypeOK, historia, archivos, Pcs
<1>9. CASE Mezclar
  <2>1. UNCHANGED <<historia, docLex, particion, previos, partId, leidos, memoria>> /\ pc' \in Pcs
    BY <1>9 DEF Mezclar, Iguales, ElOtroIgual, Primero, Segundo, TypeOK, Pcs
  <2>2. \E r \in Registro : nueva' = Anotar(nueva, r)
    <3>1. (Hay1 => Head(dato1) \in Registro) /\ (Hay2 => Head(dato2) \in Registro)
      BY HeadTailProperties DEF Hay1, Hay2, TypeOK
    <3>2. pc = "iguales" => Hay2
      BY DEF Avance, Hay2
    <3> QED
      BY <1>9, <3>1, <3>2 DEF Mezclar, Iguales, ElOtroIgual, Primero, Segundo, Va1, Va2
  <2>3. nueva' \in Archivo
    BY <2>2, Ficheros, UnoAnotado
  <2>4. \/ pos1' = pos1 + 1 /\ dato1' \in Leer(particion[0], pos1 + 1) /\ UNCHANGED <<pos2, dato2>>
        \/ pos2' = pos2 + 1 /\ dato2' \in Leer(particion[partId], pos2 + 1) /\ UNCHANGED <<pos1, dato1>>
    BY <1>9 DEF Mezclar, Iguales, ElOtroIgual, Primero, Segundo, Leer1, Leer2
  <2>5. pos1 + 1 \in Nat \ {0} /\ pos2 + 1 \in Nat \ {0} /\ particion[0] \in Archivo /\ particion[partId] \in Archivo
    BY <1>0, Ficheros
  <2>6. /\ pos1' \in Nat \ {0} /\ pos2' \in Nat \ {0}
        /\ dato1' \in Seq(Registro) /\ Len(dato1') <= 1 /\ dato2' \in Seq(Registro) /\ Len(dato2') <= 1
    BY <1>c, <2>4, <2>5 DEF TypeOK
  <2> QED
    BY <2>1, <2>3, <2>6 DEF TypeOK, historia
<1>10. CASE CerrarPartes
  BY <1>10 DEF CerrarPartes, TypeOK, historia, archivos, cursores, lecturas, Pcs
<1>11. CASE Borrar1 \/ Borrar2
  <2>1. PICK q : (Borrar1 /\ q = 0) \/ (Borrar2 /\ q = partId)
    BY <1>11
  <2>2. particion' \in [Partes -> Archivo] /\ UNCHANGED <<historia, docLex, nueva, cursores>> /\ pc' \in Pcs
    BY <2>1, LoBorrado DEF Pcs
  <2> QED
    BY <2>2 DEF TypeOK, historia, cursores, lecturas
<1>12. CASE RenombrarDatos
  <2>1. particion' \in [Partes -> Archivo] /\ nueva' \in Archivo
    BY <1>12, LoRenombrado
  <2> QED
    BY <1>12, <2>1 DEF RenombrarDatos, TypeOK, historia, cursores, lecturas, Pcs
<1>13. CASE RenombrarIndice
  <2>1. particion' \in [Partes -> Archivo] /\ nueva' \in Archivo
    BY <1>13, LoRenombrado
  <2>2. partId - 1 \in Partes
    BY <1>0, <1>13 DEF RenombrarIndice, Avance, Reemplazando, Partes, TypeOK
  <2> QED
    BY <1>13, <2>1, <2>2 DEF RenombrarIndice, TypeOK, historia, lecturas, Pcs
<1>14. CASE QuitarOriginal
  <2>1. docLex' \in Archivo
    BY <1>14, <1>a, Ficheros DEF QuitarOriginal, Archivo
  <2> QED
    BY <1>14, <2>1 DEF QuitarOriginal, TypeOK, historia, cursores, lecturas, Pcs
<1>15. CASE InstalarDatos \/ InstalarIndice
  <2>1. particion' \in [Partes -> Archivo] /\ docLex' \in Archivo
    BY <1>15, LoInstalado
  <2> QED
    BY <1>15, <2>1 DEF InstalarDatos, InstalarIndice, TypeOK, historia, cursores, lecturas, Pcs
<1>16. CASE Caer
  <2>1. caidas' \in 0 .. MaxCaidas
    BY <1>0, <1>16 DEF Caer, TypeOK
  <2>2. particion' \in [Partes -> Archivo]
    <3>1. CASE pc = "escribir"
      <4>1. PICK a \in Cortado(particion[partId], memoria # <<>>) : particion' = [particion EXCEPT ![partId] = a]
        BY <1>16, <3>1 DEF Caer
      <4>2. particion[partId] \in Archivo /\ (particion[partId].dat # <<>> \/ Len(particion[partId].idx) = previos)
        BY <3>1, Ficheros DEF Avance
      <4>3. a \in Archivo
        BY <4>2, LoCortado
      <4> QED
        BY <4>1, <4>3, Ficheros
    <3>2. CASE pc # "escribir"
      BY <1>16, <3>2 DEF Caer, TypeOK
    <3> QED
      BY <3>1, <3>2
  <2>3. nueva' \in Archivo
    <3>1. CASE pc \in {"mezclar", "iguales"}
      <4>1. nueva' \in Cortado(nueva, Hay1 \/ Hay2)
        BY <1>16, <3>1 DEF Caer
      <4>2. nueva \in Archivo /\ (nueva.dat # <<>> \/ Len(nueva.idx) = previos)
        BY <3>1, Ficheros DEF Avance, Mezclando
      <4> QED
        BY <4>1, <4>2, LoCortado
    <3>2. CASE pc \notin {"mezclar", "iguales"}
      BY <1>16, <3>2 DEF Caer, TypeOK
    <3> QED
      BY <3>1, <3>2
  <2> QED
    BY <1>0, <1>16, <1>a, <2>1, <2>2, <2>3, ArchivoVacio DEF Caer, Arranque, TypeOK, Pcs
<1>17. CASE Reindexar
  <2>1. corrida + 1 \in 1 .. MaxCorridas
    BY <1>17, CotasDelOrden DEF Reindexar, TypeOK
  <2>2. sano' \in BOOLEAN
    BY <1>17 DEF Reindexar
  <2> QED
    BY <1>0, <1>17, <1>a, <2>1, <2>2, ArchivoVacio DEF Reindexar, Arranque, TypeOK, Pcs
<1>18. CASE UNCHANGED vars
  BY <1>18 DEF vars, historia, archivos, cursores, lecturas, TypeOK
<1> QED
  BY <1>1, <1>2, <1>3, <1>4, <1>5, <1>6, <1>7, <1>8, <1>9, <1>10, <1>11, <1>12, <1>13, <1>14, <1>15, <1>16, <1>17, <1>18
  DEF Next, Ordenar

-----------------------------------------------------------------------------
(* Which files have all their data, in a run that began with them so.      *)
LEMMA PasoEnteros ==
  ASSUME TypeOK, Avance, sano => Enteros, [Next]_vars, sano'
  PROVE  Enteros'
<1>0. /\ partId \in Nat /\ 0 \in Partes /\ partId \in Partes
      /\ particion \in [Partes -> Archivo] /\ DOMAIN particion = Partes
      /\ \A p \in Partes : particion[p] \in Archivo
      /\ nueva \in Archivo /\ docLex \in Archivo /\ memoria \in Seq(Registro)
  BY Ficheros
<1>a. \A a : a.idx = <<>> => Coherente(a)
  BY ArchivoVacio
<1>b. \A a \in Archivo : a = [idx |-> a.idx, dat |-> a.dat]
  BY DelArchivo
<1>1. CASE Indexar
  <2>1. sano /\ UNCHANGED <<pc, particion, nueva, partId>> /\ pc = "indexar"
    BY <1>1 DEF Indexar, cursores
  <2> QED
    BY <2>1 DEF Enteros
<1>2. CASE Indexado \/ LeerDocumento \/ OrdenarBloque \/ CerrarParticion \/ TodoLeido \/ AbrirPartes \/ CerrarPartes
  <2>1. /\ sano /\ UNCHANGED <<docLex, particion, nueva>>
        /\ pc \in {"indexar", "leer", "escribir", "fusionar", "mezclar"}
        /\ pc' \in {"leer", "escribir", "fusionar", "mezclar", "borrarDat1"}
    BY <1>2 DEF Indexado, LeerDocumento, OrdenarBloque, CerrarParticion, TodoLeido, AbrirPartes, CerrarPartes,
                historia, archivos, cursores
  <2> QED
    BY <2>1 DEF Enteros
<1>3. CASE EscribirParticion
  <2>1. /\ sano /\ pc = "escribir" /\ memoria # <<>> /\ UNCHANGED <<pc, docLex, nueva, partId>>
        /\ particion' = [particion EXCEPT ![partId] = Anotar(@, Head(memoria))]
    BY <1>3 DEF EscribirParticion, historia
  <2>2. Head(memoria) \in Registro
    BY <1>0, <2>1, HeadTailProperties
  <2>3. Coherente(particion[partId])
    BY <1>0, <2>1 DEF Enteros
  <2>4. Coherente(particion'[partId]) /\ \A p \in Partes \ {partId} : particion'[p] = particion[p]
    BY <1>0, <2>1, <2>2, <2>3, CambiaParte
  <2>5. \A p \in Partes : Coherente(particion'[p])
    BY <2>1, <2>4 DEF Enteros
  <2> QED
    BY <1>0, <2>1, <2>5 DEF Enteros
<1>4. CASE Mezclar
  <2>1. /\ sano /\ Mezclando /\ Mezclando' /\ UNCHANGED <<docLex, particion, partId>>
    BY <1>4 DEF Mezclar, Iguales, ElOtroIgual, Primero, Segundo, Mezclando, historia
  <2>2. \E r \in Registro : nueva' = Anotar(nueva, r)
    <3>1. (Hay1 => Head(dato1) \in Registro) /\ (Hay2 => Head(dato2) \in Registro)
      BY HeadTailProperties DEF Hay1, Hay2, TypeOK
    <3>2. pc = "iguales" => Hay2
      BY DEF Avance, Hay2
    <3> QED
      BY <1>4, <3>1, <3>2 DEF Mezclar, Iguales, ElOtroIgual, Primero, Segundo, Va1, Va2
  <2>3. Coherente(nueva')
    BY <1>0, <2>1, <2>2, UnoAnotado DEF Enteros, Mezclando
  <2> QED
    BY <2>1, <2>3 DEF Enteros, Mezclando
<1>5. CASE Borrar1
  <2>1. /\ UNCHANGED <<historia, docLex, nueva, cursores>>
        /\ \A p \in Partes : p # 0 => particion'[p] = particion[p]
        /\ \/ pc = "borrarDat1" /\ pc' = "borrarIdx1"
           \/ pc = "borrarIdx1" /\ pc' = "borrarDat2" /\ particion'[0].idx = <<>>
    BY <1>5, LoBorrado
  <2>2. sano
    BY <2>1 DEF historia
  <2>3. pc = "borrarIdx1" => Coherente(particion'[0])
    BY <1>a, <2>1
  <2> QED
    BY <2>1, <2>2, <2>3 DEF Enteros
<1>6. CASE Borrar2
  <2>1. /\ UNCHANGED <<historia, docLex, nueva, cursores>>
        /\ \A p \in Partes : p # partId => particion'[p] = particion[p]
        /\ \/ pc = "borrarDat2" /\ pc' = "borrarIdx2"
           \/ pc = "borrarIdx2" /\ pc' = "renombrarDat" /\ particion'[partId].idx = <<>>
    BY <1>6, LoBorrado
  <2>2. sano /\ partId' = partId
    BY <2>1 DEF historia, cursores
  <2>3. partId # 0
    BY <1>0, <2>1 DEF Avance, Reemplazando
  <2>4. particion'[0] = particion[0]
    BY <1>0, <2>1, <2>3
  <2>5. pc = "borrarIdx2" => Coherente(particion'[partId])
    BY <1>a, <2>1
  <2> QED
    BY <2>1, <2>2, <2>4, <2>5 DEF Enteros
<1>7. CASE RenombrarDatos
  <2>1. /\ sano /\ pc = "renombrarDat" /\ pc' = "renombrarIdx"
        /\ \A p \in Partes : p # 0 => particion'[p] = particion[p]
        /\ particion'[0] = [idx |-> particion[0].idx, dat |-> nueva.dat] /\ nueva'.idx = nueva.idx
    BY <1>7, LoRenombrado DEF RenombrarDatos, historia
  <2>2. particion'[0].idx = <<>> /\ particion'[0].dat = nueva.dat
    BY <2>1 DEF Enteros
  <2>3. Coherente(particion'[0])
    BY <1>a, <2>2
  <2>4. Coherente([idx |-> nueva'.idx, dat |-> particion'[0].dat])
    <3>1. [idx |-> nueva'.idx, dat |-> particion'[0].dat] = nueva
      BY <1>0, <1>b, <2>1, <2>2
    <3> QED
      BY <2>1, <3>1 DEF Enteros
  <2> QED
    BY <2>1, <2>2, <2>3, <2>4 DEF Enteros
<1>8. CASE RenombrarIndice
  <2>1. /\ sano /\ pc = "renombrarIdx" /\ pc' = "fusionar"
        /\ \A p \in Partes : p # 0 => particion'[p] = particion[p]
        /\ particion'[0] = [idx |-> nueva.idx, dat |-> particion[0].dat] /\ nueva'.idx = <<>>
    BY <1>8, LoRenombrado DEF RenombrarIndice, historia
  <2>2. Coherente(particion'[0])
    BY <2>1 DEF Enteros
  <2>3. Coherente(nueva')
    BY <1>a, <2>1
  <2> QED
    BY <2>1, <2>2, <2>3 DEF Enteros
<1>9. CASE QuitarOriginal
  <2>1. /\ sano /\ UNCHANGED <<particion, nueva>>
        /\ \/ pc = "fusionar" /\ pc' = "quitarIdx"
           \/ pc = "quitarIdx" /\ pc' = "instalarDat" /\ docLex' = [docLex EXCEPT !.idx = <<>>]
    BY <1>9 DEF QuitarOriginal, historia
  <2>2. pc = "quitarIdx" => docLex'.idx = <<>>
    BY <1>0, <2>1 DEF Archivo
  <2> QED
    BY <2>1, <2>2 DEF Enteros
<1>10. CASE InstalarDatos
  <2>1. /\ sano /\ UNCHANGED nueva /\ pc = "instalarDat" /\ pc' = "instalarIdx"
        /\ \A p \in Partes : p # 0 => particion'[p] = particion[p]
        /\ particion'[0].idx = particion[0].idx
        /\ docLex' = [idx |-> docLex.idx, dat |-> particion[0].dat]
    BY <1>10, LoInstalado DEF InstalarDatos, historia
  <2>2. docLex'.idx = <<>> /\ docLex'.dat = particion[0].dat
    BY <2>1 DEF Enteros
  <2>3. Coherente([idx |-> particion'[0].idx, dat |-> docLex'.dat])
    <3>1. [idx |-> particion'[0].idx, dat |-> docLex'.dat] = particion[0]
      BY <1>0, <1>b, <2>1, <2>2
    <3> QED
      BY <2>1, <3>1 DEF Enteros
  <2> QED
    BY <2>1, <2>2, <2>3 DEF Enteros
<1>11. CASE InstalarIndice
  <2>1. /\ sano /\ UNCHANGED nueva /\ pc = "instalarIdx" /\ pc' = "fin"
        /\ \A p \in Partes : p # 0 => particion'[p] = particion[p]
        /\ particion'[0].idx = <<>>
        /\ docLex' = [idx |-> particion[0].idx, dat |-> docLex.dat]
    BY <1>11, LoInstalado DEF InstalarIndice, historia
  <2>2. Coherente(docLex')
    BY <2>1 DEF Enteros
  <2>3. Coherente(particion'[0])
    BY <1>a, <2>1
  <2> QED
    BY <2>1, <2>2, <2>3 DEF Enteros
<1>12. CASE Caer
  BY <1>12 DEF Caer, Enteros
<1>13. CASE Reindexar
  BY <1>0, <1>13 DEF Reindexar, Enteros
<1>14. CASE UNCHANGED vars
  BY <1>14 DEF vars, historia, archivos, cursores, Enteros
<1> QED
  BY <1>1, <1>2, <1>3, <1>4, <1>5, <1>6, <1>7, <1>8, <1>9, <1>10, <1>11, <1>12, <1>13, <1>14 DEF Next, Ordenar

-----------------------------------------------------------------------------
(* The documents are accounted for.                                        *)
LEMMA DeLasDemas ==
  ASSUME NEW f, NEW g, NEW ps, \A p \in ps : Documentos(g[p]) = Documentos(f[p])
  PROVE  De(g, ps) = De(f, ps)
BY DEF De

LEMMA DeUnaMas ==
  ASSUME NEW f, NEW k \in Nat
  PROVE  /\ De(f, 0 .. k) = De(f, 0 .. k - 1) \cup Todo(Documentos(f[k]))
         /\ De(f, 0 .. k) = Todo(Documentos(f[0])) \cup De(f, 1 .. k)
         /\ k > 0 => De(f, 1 .. k) = De(f, 1 .. k - 1) \cup Todo(Documentos(f[k]))
<1>1. 0 .. k = (0 .. k - 1) \cup {k} /\ 0 .. k = {0} \cup (1 .. k)
      /\ (k > 0 => 1 .. k = (1 .. k - 1) \cup {k})
  OBVIOUS
<1> QED
  BY <1>1 DEF De

LEMMA PasoContenido ==
  ASSUME TypeOK, Avance, sano => Enteros /\ Contenido, SinCaidas, [Next]_vars, sano'
  PROVE  Contenido'
<1> DEFINE T == Tramo(entrada, 1, leidos)
           Docs(p) == Documentos(particion[p])
<1>0. /\ partId \in Nat /\ leidos \in Nat /\ Len(entrada) \in Nat /\ 0 \in Partes /\ partId \in Partes
      /\ DOMAIN particion = Partes /\ particion \in [Partes -> Archivo]
      /\ \A p \in 1 .. partId - 1 : p \in Partes /\ p # 0 /\ p # partId
      /\ \A p \in Partes : Docs(p) \in Seq(Registro)
      /\ entrada \in Seq(Registro) /\ memoria \in Seq(Registro)
  BY Ficheros
<1>a. Todo(<<>>) = {} /\ \A a : a.idx = <<>> => Documentos(a) = <<>>
  BY FicheroVacio, ArchivoVacio
<1>1. CASE Indexar
  BY <1>1 DEF Indexar, Contenido, Mezclando, Reemplazando, Instalando
<1>2. CASE Indexado
  <2>1. /\ pc' = "leer" /\ partId' = 0 /\ leidos' = 0 /\ memoria' = <<>>
    BY <1>2 DEF Indexado, Avance, cursores
  <2>2. De(particion', 0 .. partId' - 1) = {} /\ Tramo(entrada', 1, leidos') = {}
    BY <2>1 DEF De, Tramo
  <2> QED
    BY <1>a, <2>1, <2>2 DEF Contenido, Estan, Mezclando, Reemplazando, Instalando
<1>3. CASE LeerDocumento
  <2>1. /\ leidos + 1 \in 1 .. Len(entrada) /\ entrada[leidos + 1] \in Registro
        /\ memoria' = Append(memoria, entrada[leidos + 1])
    BY <1>3, ElSiguiente
  <2>2. Todo(memoria') = Todo(memoria) \cup {entrada[leidos + 1]}
    BY <1>0, <2>1, UnoMas
  <2>3. Tramo(entrada, 1, leidos + 1) = T \cup {entrada[leidos + 1]}
    <3>1. 1 .. leidos + 1 = (1 .. leidos) \cup {leidos + 1}
      BY <1>0
    <3> QED
      BY <3>1 DEF Tramo
  <2>4. /\ sano /\ pc = "leer" /\ leidos' = leidos + 1 /\ UNCHANGED <<pc, entrada, particion, partId, caidas>>
    BY <1>3 DEF LeerDocumento, historia, archivos
  <2> QED
    BY <2>2, <2>3, <2>4 DEF Contenido, Estan, Mezclando, Reemplazando, Instalando, Limpio
<1>4. CASE OrdenarBloque
  <2>1. Todo(memoria') = Todo(memoria)
    BY <1>0, <1>4, Ordenados DEF OrdenarBloque
  <2>2. /\ sano /\ pc = "leer" /\ pc' = "escribir" /\ UNCHANGED <<entrada, leidos, particion, partId, caidas>>
    BY <1>4 DEF OrdenarBloque, historia, archivos
  <2>3. Limpio => Todo(Docs(partId)) = {}
    BY <1>0, <1>a, <2>2 DEF SinCaidas, Limpieza
  <2>4. De(particion, 0 .. partId) = De(particion, 0 .. partId - 1) \cup Todo(Docs(partId))
    BY <1>0, DeUnaMas
  <2> QED
    BY <2>1, <2>2, <2>3, <2>4 DEF Contenido, Estan, Mezclando, Reemplazando, Instalando, Limpio
<1>5. CASE EscribirParticion
  <2>1. /\ sano /\ pc = "escribir" /\ memoria # <<>> /\ memoria' = Tail(memoria)
        /\ particion' = [particion EXCEPT ![partId] = Anotar(@, Head(memoria))]
        /\ UNCHANGED <<pc, entrada, leidos, partId, caidas>>
    BY <1>5 DEF EscribirParticion, historia
  <2>2. Head(memoria) \in Registro /\ Todo(memoria) = {Head(memoria)} \cup Todo(memoria')
    BY <1>0, <2>1, ElResto
  <2>3. Documentos(particion'[partId]) = Append(Docs(partId), Head(memoria))
    <3>1. particion'[partId] = Anotar(particion[partId], Head(memoria)) /\ particion[partId] \in Archivo
      BY <1>0, <2>1
    <3> QED
      BY <2>2, <3>1, UnoAnotado
  <2>4. Todo(Documentos(particion'[partId])) = Todo(Docs(partId)) \cup {Head(memoria)}
    BY <1>0, <2>2, <2>3, UnoMas
  <2>5. \A p \in 0 .. partId - 1 : particion'[p] = particion[p]
    BY <1>0, <2>1 DEF Partes
  <2>6. De(particion', 0 .. partId) = De(particion, 0 .. partId) \cup {Head(memoria)}
    <3>1. De(particion', 0 .. partId) = De(particion', 0 .. partId - 1) \cup Todo(Documentos(particion'[partId]))
      BY <1>0, DeUnaMas
    <3>2. De(particion, 0 .. partId) = De(particion, 0 .. partId - 1) \cup Todo(Docs(partId))
      BY <1>0, DeUnaMas
    <3>3. De(particion', 0 .. partId - 1) = De(particion, 0 .. partId - 1)
      BY <2>5, DeLasDemas
    <3> QED
      BY <2>4, <3>1, <3>2, <3>3
  <2>7. De(particion', 0 .. partId) \cup Todo(memoria') = De(particion, 0 .. partId) \cup Todo(memoria)
    BY <2>2, <2>6
  <2> QED
    BY <2>1, <2>7 DEF Contenido, Estan, Mezclando, Reemplazando, Instalando, Limpio
<1>6. CASE CerrarParticion
  <2>1. /\ sano /\ pc = "escribir" /\ pc' = "leer" /\ partId' = partId + 1
        /\ UNCHANGED <<entrada, leidos, particion, memoria, caidas>>
    BY <1>6 DEF CerrarParticion, historia, archivos
  <2>2. partId' - 1 = partId
    BY <1>0, <2>1
  <2> QED
    BY <2>1, <2>2 DEF Contenido, Estan, Mezclando, Reemplazando, Instalando, Limpio
<1>7. CASE TodoLeido
  <2>1. /\ sano /\ pc = "leer" /\ pc' = "fusionar" /\ memoria = <<>>
        /\ UNCHANGED <<particion, partId, entrada, leidos, caidas>>
    BY <1>7 DEF TodoLeido, historia, archivos, cursores
  <2>2. Limpio => Todo(Docs(partId)) = {}
    BY <1>0, <1>a, <2>1 DEF SinCaidas, Limpieza
  <2>3. De(particion, 0 .. partId) = De(particion, 0 .. partId - 1) \cup Todo(Docs(partId))
    BY <1>0, DeUnaMas
  <2> QED
    BY <1>a, <2>1, <2>2, <2>3 DEF Contenido, Estan, Mezclando, Reemplazando, Instalando, Limpio
<1>8. CASE AbrirPartes
  <2>1. /\ sano /\ pc = "fusionar" /\ pc' = "mezclar" /\ pos1' = 1 /\ pos2' = 1 /\ partId > 0
        /\ UNCHANGED <<particion, nueva, partId, entrada, leidos, caidas>>
    BY <1>8 DEF AbrirPartes, QuedanPartes, historia, archivos
  <2>2. SinLeer' = Todo(Docs(0)) \cup Todo(Docs(partId))
    BY <2>1 DEF SinLeer, Restos, Todo
  <2>3. De(particion, 0 .. partId) = De(particion, 1 .. partId - 1) \cup SinLeer'
    <3>1. De(particion, 0 .. partId) = Todo(Docs(0)) \cup De(particion, 1 .. partId)
      BY <1>0, DeUnaMas
    <3>2. De(particion, 1 .. partId) = De(particion, 1 .. partId - 1) \cup Todo(Docs(partId))
      BY <1>0, <2>1, DeUnaMas
    <3> QED
      BY <2>2, <3>1, <3>2
  <2>4. Limpio => Todo(Documentos(nueva)) = {}
    BY <1>a, <2>1 DEF SinCaidas, Limpieza, Mezclando, Reemplazando
  <2> QED
    BY <2>1, <2>3, <2>4 DEF Contenido, Estan, Mezclando, Reemplazando, Instalando, Limpio
<1>9. CASE Mezclar
  <2>1. /\ sano /\ Mezclando /\ Mezclando' /\ UNCHANGED <<particion, partId, entrada, leidos, caidas>>
    BY <1>9 DEF Mezclar, Iguales, ElOtroIgual, Primero, Segundo, Mezclando, historia
  <2>2. Todo(Documentos(nueva')) \cup SinLeer' = Todo(Documentos(nueva)) \cup SinLeer
    BY <1>9, <2>1, PasoDeMezcla DEF SinLeer
  <2>3. De(particion', 1 .. partId' - 1) \cup Todo(Documentos(nueva')) \cup SinLeer'
          = De(particion, 1 .. partId - 1) \cup Todo(Documentos(nueva)) \cup SinLeer
    BY <2>1, <2>2
  <2> QED
    BY <2>1, <2>3 DEF Contenido, Estan, Mezclando, Reemplazando, Instalando, Limpio
<1>10. CASE CerrarPartes
  <2>1. /\ sano /\ pc = "mezclar" /\ pc' = "borrarDat1" /\ ~Hay1 /\ ~Hay2
        /\ UNCHANGED <<particion, nueva, partId, entrada, leidos, caidas>>
    BY <1>10 DEF CerrarPartes, historia, archivos, cursores
  <2>2. SinLeer = {}
    <3>1. Len(Docs(0)) \in Nat /\ Len(Docs(partId)) \in Nat /\ pos1 \in Nat /\ pos2 \in Nat
      BY <1>0, Registros DEF TypeOK
    <3>2. ~(pos1 <= Len(Docs(0))) /\ ~(pos2 <= Len(Docs(partId)))
      BY <2>1, LoQueHay DEF Mezclando
    <3>3. pos1 .. Len(Docs(0)) = {} /\ pos2 .. Len(Docs(partId)) = {}
      BY <3>1, <3>2
    <3> QED
      BY <3>3 DEF SinLeer, Restos, Tramo
  <2> QED
    BY <2>1, <2>2 DEF Contenido, Estan, Mezclando, Reemplazando, Instalando, Limpio
<1>11. CASE Borrar1 \/ Borrar2
  <2>1. PICK q : (Borrar1 /\ q = 0) \/ (Borrar2 /\ q = partId)
    BY <1>11
  <2>2. /\ Reemplazando /\ Reemplazando' /\ UNCHANGED <<historia, docLex, nueva, cursores>>
        /\ \A p \in Partes : p # q => particion'[p] = particion[p]
    BY <2>1, LoBorrado DEF Reemplazando
  <2>3. sano /\ UNCHANGED <<nueva, partId, entrada, leidos, caidas>>
    BY <2>2 DEF historia, cursores
  <2>4. De(particion', 1 .. partId - 1) = De(particion, 1 .. partId - 1)
    BY <1>0, <2>1, <2>2, DeLasDemas
  <2> QED
    BY <2>2, <2>3, <2>4 DEF Contenido, Estan, Mezclando, Reemplazando, Instalando, Limpio
<1>12. CASE RenombrarDatos
  <2>1. /\ sano /\ Reemplazando /\ Reemplazando' /\ UNCHANGED <<partId, entrada, leidos, caidas>>
        /\ \A p \in Partes : p # 0 => particion'[p] = particion[p]
        /\ Documentos(nueva') = Documentos(nueva)
    BY <1>12, LoRenombrado DEF RenombrarDatos, Reemplazando, historia, cursores
  <2>2. De(particion', 1 .. partId - 1) = De(particion, 1 .. partId - 1)
    BY <1>0, <2>1, DeLasDemas
  <2> QED
    BY <2>1, <2>2 DEF Contenido, Estan, Mezclando, Reemplazando, Instalando, Limpio
<1>13. CASE RenombrarIndice
  <2>1. /\ sano /\ Reemplazando /\ pc' = "fusionar" /\ partId' = partId - 1 /\ partId > 0
        /\ \A p \in Partes : p # 0 => particion'[p] = particion[p]
        /\ Documentos(particion'[0]) = Documentos(nueva) /\ UNCHANGED <<entrada, leidos, caidas>>
    BY <1>13, LoRenombrado DEF RenombrarIndice, Reemplazando, Avance, historia
  <2>2. De(particion', 0 .. partId') = De(particion, 1 .. partId - 1) \cup Todo(Documentos(nueva))
    <3> DEFINE k == partId - 1
    <3>1. De(particion', 0 .. k) = Todo(Documentos(particion'[0])) \cup De(particion', 1 .. k)
      <4>1. k \in Nat
        BY <1>0, <2>1
      <4> HIDE DEF k
      <4> QED
        BY <4>1, DeUnaMas
    <3>2. De(particion', 1 .. k) = De(particion, 1 .. k)
      BY <1>0, <2>1, DeLasDemas
    <3> QED
      BY <2>1, <3>1, <3>2
  <2> QED
    BY <2>1, <2>2 DEF Contenido, Estan, Mezclando, Reemplazando, Instalando, Limpio
<1>14. CASE QuitarOriginal
  <2>1. /\ sano /\ UNCHANGED <<particion, partId, entrada, leidos, caidas>>
        /\ pc \in {"fusionar", "quitarIdx"} /\ pc' \in {"quitarIdx", "instalarDat"}
        /\ pc = "fusionar" => ~QuedanPartes
    BY <1>14 DEF QuitarOriginal, historia, cursores
  <2>2. pc = "fusionar" => De(particion, 0 .. partId) = Todo(Docs(0))
    <3>1. 0 .. 0 = {0} /\ (pc = "fusionar" => partId = 0)
      BY <1>0, <2>1 DEF QuedanPartes
    <3> QED
      BY <3>1 DEF De
  <2> QED
    BY <2>1, <2>2 DEF Contenido, Estan, Mezclando, Reemplazando, Instalando, Limpio
<1>15. CASE InstalarDatos
  <2>1. /\ sano /\ Instalando /\ Instalando' /\ UNCHANGED <<entrada, leidos, caidas>>
        /\ Documentos(particion'[0]) = Documentos(particion[0])
    BY <1>15, LoInstalado DEF InstalarDatos, Instalando, historia, cursores
  <2> QED
    BY <2>1 DEF Contenido, Estan, Mezclando, Reemplazando, Instalando, Limpio
<1>16. CASE InstalarIndice
  <2>1. /\ sano /\ Instalando /\ pc' = "fin" /\ UNCHANGED <<entrada, leidos, caidas>>
        /\ Documentos(docLex') = Documentos(particion[0])
    BY <1>16, LoInstalado DEF InstalarIndice, Instalando, historia, cursores
  <2> QED
    BY <2>1 DEF Contenido, Estan, Mezclando, Reemplazando, Instalando, Limpio
<1>17. CASE Caer
  BY <1>17 DEF Caer, Contenido, Mezclando, Reemplazando, Instalando
<1>18. CASE Reindexar
  BY <1>18 DEF Reindexar, Contenido, Mezclando, Reemplazando, Instalando
<1>19. CASE UNCHANGED vars
  BY <1>19 DEF vars, historia, archivos, cursores, lecturas, Contenido, Estan, Mezclando, Reemplazando, Instalando, Limpio, SinLeer
<1> QED
  BY <1>1, <1>2, <1>3, <1>4, <1>5, <1>6, <1>7, <1>8, <1>9, <1>10, <1>11, <1>12, <1>13, <1>14, <1>15, <1>16, <1>17,
     <1>18, <1>19 DEF Next, Ordenar

-----------------------------------------------------------------------------
(* Without a kill.                                                         *)
LEMMA LimpioAntes ==
  ASSUME TypeOK, Avance, [Next]_vars, Limpio'
  PROVE  Limpio /\ sano /\ ~Caer /\ (Reindexar => pc = "fin")
<1>1. caidas \in Nat
  BY CotasDelOrden DEF TypeOK
<1>2. ~Caer
  <2>1. Caer => caidas' = caidas + 1
    BY DEF Caer
  <2>2. caidas' = 0
    BY DEF Limpio
  <2> QED
    BY <1>1, <2>1, <2>2
<1>3. caidas' = caidas
  <2>1. ASSUME Ordenar PROVE caidas' = caidas
    BY <2>1 DEF Ordenar, historia, Indexar, Indexado, LeerDocumento, OrdenarBloque, EscribirParticion, CerrarParticion,
       TodoLeido, AbrirPartes, Mezclar, CerrarPartes, Borrar, Borrar1, Borrar2, RenombrarDatos, RenombrarIndice,
       QuitarOriginal, InstalarDatos, InstalarIndice
  <2> QED
    BY <1>2, <2>1 DEF Next, vars, historia, Reindexar
<1> QED
  BY <1>2, <1>3 DEF Limpio, Avance, Reindexar

LEMMA PasoLimpieza ==
  ASSUME TypeOK, Avance, Limpieza, [Next]_vars, Limpio'
  PROVE  Limpieza'
<1>0. /\ partId \in Nat /\ 0 \in Partes /\ partId \in Partes /\ DOMAIN particion = Partes /\ Partes \subseteq Nat
      /\ particion \in [Partes -> Archivo]
  BY Ficheros
<1>a. Limpio /\ ~Caer /\ (Reindexar => pc = "fin")
  BY LimpioAntes
<1>b. \A p \in Partes : p > partId => p >= partId
  BY <1>0
<1>1. CASE Indexar \/ Indexado \/ LeerDocumento
  <2>1. pc \in {"indexar", "leer"} /\ pc' \in {"indexar", "leer"} /\ UNCHANGED <<particion, nueva, partId>>
    BY <1>1 DEF Indexar, Indexado, LeerDocumento, archivos, cursores
  <2> QED
    BY <2>1 DEF Limpieza, Mezclando, Reemplazando
<1>2. CASE OrdenarBloque \/ TodoLeido
  <2>1. pc = "leer" /\ pc' \in {"escribir", "fusionar"} /\ UNCHANGED <<particion, nueva, partId>>
    BY <1>2 DEF OrdenarBloque, TodoLeido, archivos, cursores
  <2> QED
    BY <1>b, <2>1 DEF Limpieza, Mezclando, Reemplazando
<1>3. CASE EscribirParticion
  <2>1. /\ pc = "escribir" /\ UNCHANGED <<pc, nueva, partId>>
        /\ particion' = [particion EXCEPT ![partId] = Anotar(@, Head(memoria))]
    BY <1>3 DEF EscribirParticion
  <2>2. \A p \in Partes : p > partId => p # partId
    BY <1>0
  <2>3. \A p \in Partes : p > partId => particion'[p] = particion[p]
    BY <1>0, <2>1, <2>2
  <2> QED
    BY <2>1, <2>3 DEF Limpieza, Mezclando, Reemplazando
<1>4. CASE CerrarParticion
  <2>1. pc = "escribir" /\ pc' = "leer" /\ partId' = partId + 1 /\ UNCHANGED <<particion, nueva>>
    BY <1>4 DEF CerrarParticion, archivos
  <2>2. \A p \in Partes : p >= partId + 1 => p > partId
    BY <1>0
  <2> QED
    BY <2>1, <2>2 DEF Limpieza, Mezclando, Reemplazando
<1>5. CASE AbrirPartes \/ Mezclar \/ CerrarPartes
  <2>1. /\ pc \in {"fusionar", "mezclar", "iguales"} /\ pc' \in {"mezclar", "iguales", "borrarDat1"}
        /\ UNCHANGED <<particion, partId>>
    BY <1>5 DEF AbrirPartes, Mezclar, Iguales, ElOtroIgual, Primero, Segundo, CerrarPartes, archivos, cursores
  <2> QED
    BY <2>1 DEF Limpieza, Mezclando, Reemplazando
<1>6. CASE Borrar1 \/ Borrar2
  <2>1. PICK q : (Borrar1 /\ q = 0) \/ (Borrar2 /\ q = partId)
    BY <1>6
  <2>2. /\ \A p \in Partes : p # q => particion'[p] = particion[p]
        /\ partId' = partId /\ Reemplazando'
        /\ pc \in {"borrarDat1", "borrarIdx1", "borrarDat2", "borrarIdx2"}
        /\ pc' \in {"borrarIdx1", "borrarDat2", "borrarIdx2", "renombrarDat"}
        /\ pc' = "renombrarDat" => q = partId /\ particion'[q].idx = <<>>
    BY <2>1, LoBorrado DEF cursores, Reemplazando
  <2>3. \A p \in Partes : p > partId => p # q /\ particion'[p] = particion[p]
    BY <1>0, <2>1, <2>2
  <2>4. \A p \in Partes : p > partId => particion'[p].idx = <<>>
    BY <2>2, <2>3 DEF Limpieza
  <2>5. \A p \in Partes : p >= partId => p > partId \/ p = partId
    BY <1>0
  <2> QED
    BY <2>2, <2>4, <2>5 DEF Limpieza
<1>7. CASE RenombrarDatos
  <2>1. /\ pc = "renombrarDat" /\ pc' = "renombrarIdx" /\ partId' = partId /\ partId > 0
        /\ \A p \in Partes : p # 0 => particion'[p] = particion[p]
    BY <1>7, LoRenombrado DEF RenombrarDatos, Avance, Reemplazando, cursores
  <2>2. \A p \in Partes : p >= partId => p # 0
    BY <1>0, <2>1
  <2> QED
    BY <2>1, <2>2 DEF Limpieza, Reemplazando
<1>8. CASE RenombrarIndice
  <2>1. /\ pc = "renombrarIdx" /\ pc' = "fusionar" /\ partId' = partId - 1 /\ partId > 0 /\ nueva'.idx = <<>>
        /\ \A p \in Partes : p # 0 => particion'[p] = particion[p]
    BY <1>8, LoRenombrado DEF RenombrarIndice, Avance, Reemplazando
  <2>2. \A p \in Partes : p > partId - 1 => p >= partId /\ p # 0
    BY <1>0, <2>1
  <2> QED
    BY <2>1, <2>2 DEF Limpieza
<1>9. CASE QuitarOriginal
  <2>1. /\ pc \in {"fusionar", "quitarIdx"} /\ pc' \in {"quitarIdx", "instalarDat"}
        /\ UNCHANGED <<particion, nueva, partId>>
    BY <1>9 DEF QuitarOriginal, cursores
  <2> QED
    BY <2>1 DEF Limpieza, Mezclando, Reemplazando
<1>10. CASE InstalarDatos \/ InstalarIndice
  <2>1. /\ pc \in {"instalarDat", "instalarIdx"} /\ pc' \in {"instalarIdx", "fin"} /\ partId = 0
        /\ UNCHANGED <<nueva, partId>> /\ (pc' = "fin" => particion'[0].idx = <<>>)
        /\ \A p \in Partes : p # 0 => particion'[p] = particion[p]
    BY <1>10, LoInstalado DEF InstalarDatos, InstalarIndice, Avance, Instalando, cursores
  <2>2. \A p \in Partes : p = 0 \/ p > partId
    BY <1>0, <2>1
  <2>3. \A p \in Partes : p > partId => particion'[p].idx = <<>>
    <3>1. \A p \in Partes : p > partId => p # 0
      BY <1>0, <2>1
    <3> QED
      BY <2>1, <3>1 DEF Limpieza
  <2> QED
    BY <2>1, <2>2, <2>3 DEF Limpieza, Mezclando, Reemplazando
<1>11. CASE Reindexar
  BY <1>a, <1>11 DEF Reindexar, Arranque, Limpieza, Mezclando, Reemplazando
<1>12. CASE UNCHANGED vars
  BY <1>12 DEF vars, archivos, cursores, Limpieza, Mezclando, Reemplazando
<1> QED
  BY <1>a, <1>1, <1>2, <1>3, <1>4, <1>5, <1>6, <1>7, <1>8, <1>9, <1>10, <1>11, <1>12 DEF Next, Ordenar

LEMMA PasoEnOrden ==
  ASSUME TypeOK, Avance, Enteros, Limpieza, EnOrden, [Next]_vars, Limpio'
  PROVE  EnOrden'
<1>0. /\ partId \in Nat /\ 0 \in Partes /\ partId \in Partes /\ particion \in [Partes -> Archivo]
      /\ \A p \in Partes : particion[p] \in Archivo /\ Documentos(particion[p]) \in Seq(Registro)
      /\ memoria \in Seq(Registro)
  BY Ficheros
<1>a. Limpio /\ ~Caer /\ (Reindexar => pc = "fin")
  BY LimpioAntes
<1>b. Decrece(<<>>) /\ Todo(<<>>) = {} /\ \A a : a.idx = <<>> => Documentos(a) = <<>>
  BY FicheroVacio, ArchivoVacio
<1>1. CASE Indexar \/ Indexado \/ LeerDocumento \/ TodoLeido \/ CerrarParticion
  <2>1. pc' \in {"indexar", "leer", "fusionar"} /\ UNCHANGED particion
    BY <1>1 DEF Indexar, Indexado, LeerDocumento, TodoLeido, CerrarParticion, archivos
  <2> QED
    BY <2>1 DEF EnOrden, Mezclando, Reemplazando
<1>2. CASE OrdenarBloque
  <2>1. pc = "leer" /\ pc' = "escribir" /\ Decrece(memoria') /\ UNCHANGED <<particion, partId>>
    BY <1>0, <1>2, Ordenados DEF OrdenarBloque, archivos
  <2>2. partId >= partId
    BY <1>0
  <2>3. Todo(Documentos(particion[partId])) = {}
    BY <1>0, <1>b, <2>1, <2>2 DEF Limpieza
  <2> QED
    BY <2>1, <2>3 DEF EnOrden, Mezclando, Reemplazando
<1>3. CASE EscribirParticion
  <2>1. /\ pc = "escribir" /\ memoria # <<>> /\ memoria' = Tail(memoria) /\ UNCHANGED <<pc, partId>>
        /\ particion' = [particion EXCEPT ![partId] = Anotar(@, Head(memoria))]
    BY <1>3 DEF EscribirParticion
  <2>2. /\ Head(memoria) \in Registro /\ Head(memoria) \in Todo(memoria)
        /\ Todo(memoria) = {Head(memoria)} \cup Todo(memoria')
        /\ Decrece(memoria') /\ \A d \in Todo(memoria') : Head(memoria).tam >= d.tam
    BY <1>0, <2>1, ElResto DEF EnOrden
  <2>3. Documentos(particion'[partId]) = Append(Documentos(particion[partId]), Head(memoria))
    <3>1. particion'[partId] = Anotar(particion[partId], Head(memoria))
      BY <1>0, <2>1
    <3> QED
      BY <1>0, <2>2, <3>1, UnoAnotado
  <2>4. \A r \in Todo(Documentos(particion[partId])), d \in Todo(memoria) : r.tam >= d.tam
    BY <2>1 DEF EnOrden
  <2>5. /\ Todo(Documentos(particion'[partId])) = Todo(Documentos(particion[partId])) \cup {Head(memoria)}
        /\ Decrece(Documentos(particion'[partId]))
    <3>1. Decrece(Documentos(particion[partId]))
      BY <1>0 DEF EnOrden
    <3> QED
      BY <1>0, <2>2, <2>3, <2>4, <3>1, UnoMas
  <2>6. \A r \in Todo(Documentos(particion'[partId])), d \in Todo(memoria') : r.tam >= d.tam
    BY <2>2, <2>4, <2>5
  <2>7. \A p \in Partes : Decrece(Documentos(particion'[p]))
    <3>1. \A p \in Partes : p # partId => particion'[p] = particion[p]
      BY <1>0, <2>1
    <3> QED
      BY <2>5, <3>1 DEF EnOrden
  <2> QED
    BY <2>1, <2>2, <2>6, <2>7 DEF EnOrden, Mezclando, Reemplazando
<1>4. CASE AbrirPartes
  <2>1. pc = "fusionar" /\ pc' = "mezclar" /\ nueva.idx = <<>> /\ UNCHANGED <<particion, nueva>>
    BY <1>4 DEF AbrirPartes, archivos, Limpieza, Mezclando, Reemplazando
  <2> QED
    BY <1>b, <2>1 DEF EnOrden, Mezclando, Reemplazando
<1>5. CASE Mezclar
  <2> DEFINE a == Documentos(particion[0])
             b == Documentos(particion[partId])
  <2>1. Mezclando /\ Mezclando' /\ UNCHANGED <<particion, partId>> /\ pc' \notin {"escribir", "fin"}
    BY <1>5 DEF Mezclar, Iguales, ElOtroIgual, Primero, Segundo, Mezclando
  <2>2. Escalonados(Documentos(nueva), a, pos1, b, pos2)
    BY <1>0, <2>1 DEF EnOrden, Escalonados, SinLeer
  <2>3. /\ Escalonados(Documentos(nueva'), a, pos1', b, pos2')
        /\ pc' = "iguales" /\ Decrece(a) /\ pos1' <= Len(a) => b[pos2'].tam >= a[pos1'].tam
    <3>1. pc = "iguales" /\ pos1 <= Len(a) => b[pos2].tam >= a[pos1].tam
      BY DEF EnOrden
    <3> HIDE DEF a, b
    <3> QED
      BY <1>5, <2>2, <3>1, PasoDeMezcla DEF a, b
  <2>4. Decrece(Documentos(nueva')) /\ \A r \in Todo(Documentos(nueva')), d \in SinLeer' : r.tam >= d.tam
    BY <2>1, <2>3 DEF Escalonados, SinLeer
  <2>5. Decrece(a)
    BY <1>0 DEF EnOrden
  <2> QED
    BY <2>1, <2>3, <2>4, <2>5 DEF EnOrden
<1>6. CASE CerrarPartes
  BY <1>6 DEF CerrarPartes, EnOrden, Mezclando, Reemplazando, archivos, cursores
<1>7. CASE Borrar1 \/ Borrar2
  <2>1. PICK q : (Borrar1 /\ q = 0) \/ (Borrar2 /\ q = partId)
    BY <1>7
  <2>2. /\ Reemplazando /\ Reemplazando' /\ nueva' = nueva
        /\ \A p \in Partes : p # q => particion'[p] = particion[p]
        /\ Documentos(particion'[q]) = Documentos(particion[q]) \/ Documentos(particion'[q]) = <<>>
    BY <2>1, LoBorrado DEF Reemplazando
  <2>3. \A p \in Partes : Decrece(Documentos(particion'[p]))
    BY <1>b, <2>2 DEF EnOrden
  <2> QED
    BY <2>2, <2>3 DEF EnOrden, Mezclando, Reemplazando
<1>8. CASE RenombrarDatos
  <2>1. /\ Reemplazando /\ Reemplazando' /\ Documentos(nueva') = Documentos(nueva)
        /\ \A p \in Partes : Documentos(particion'[p]) = Documentos(particion[p])
    BY <1>8, LoRenombrado DEF RenombrarDatos, Reemplazando
  <2> QED
    BY <2>1 DEF EnOrden, Mezclando, Reemplazando
<1>9. CASE RenombrarIndice
  <2>1. /\ Reemplazando /\ pc' = "fusionar" /\ Documentos(particion'[0]) = Documentos(nueva)
        /\ \A p \in Partes : p # 0 => particion'[p] = particion[p]
    BY <1>9, LoRenombrado DEF RenombrarIndice, Reemplazando
  <2>2. \A p \in Partes : Decrece(Documentos(particion'[p]))
    BY <2>1 DEF EnOrden
  <2> QED
    BY <2>1, <2>2 DEF EnOrden, Mezclando, Reemplazando
<1>10. CASE QuitarOriginal
  BY <1>10 DEF QuitarOriginal, EnOrden, Mezclando, Reemplazando
<1>11. CASE InstalarDatos
  <2>1. pc' = "instalarIdx" /\ \A p \in Partes : Documentos(particion'[p]) = Documentos(particion[p])
    BY <1>11, LoInstalado DEF InstalarDatos
  <2> QED
    BY <2>1 DEF EnOrden, Mezclando, Reemplazando
<1>12. CASE InstalarIndice
  <2>1. /\ pc' = "fin" /\ Documentos(docLex') = Documentos(particion[0]) /\ Documentos(particion'[0]) = <<>>
        /\ \A p \in Partes : p # 0 => particion'[p] = particion[p]
    BY <1>b, <1>12, LoInstalado DEF InstalarIndice
  <2>2. \A p \in Partes : Decrece(Documentos(particion'[p]))
    BY <1>b, <2>1 DEF EnOrden
  <2> QED
    BY <1>0, <2>1, <2>2 DEF EnOrden, Mezclando, Reemplazando
<1>13. CASE Reindexar
  BY <1>13 DEF Reindexar, EnOrden, Mezclando, Reemplazando
<1>14. CASE UNCHANGED vars
  BY <1>14 DEF vars, archivos, cursores, lecturas, EnOrden, Mezclando, Reemplazando, SinLeer
<1> QED
  BY <1>a, <1>1, <1>2, <1>3, <1>4, <1>5, <1>6, <1>7, <1>8, <1>9, <1>10, <1>11, <1>12, <1>13, <1>14 DEF Next, Ordenar

LEMMA PasoUnicos ==
  ASSUME TypeOK, Avance, Enteros, Contenido, Limpieza, Unicos, [Next]_vars, Limpio'
  PROVE  Unicos'
<1>0. /\ partId \in Nat /\ 0 \in Partes /\ partId \in Partes /\ particion \in [Partes -> Archivo] /\ Partes \subseteq Nat
      /\ \A p \in Partes : particion[p] \in Archivo /\ Documentos(particion[p]) \in Seq(Registro)
      /\ \A p \in 1 .. partId - 1 : p \in Partes /\ p # 0 /\ p # partId
      /\ entrada \in Seq(Registro) /\ Len(entrada) \in Nat /\ leidos \in Nat /\ memoria \in Seq(Registro)
  BY Ficheros
<1>a. Limpio /\ ~Caer /\ (Reindexar => pc = "fin")
  BY LimpioAntes
<1>b. SinRepetir(<<>>) /\ Todo(<<>>) = {} /\ \A a : a.idx = <<>> => Documentos(a) = <<>>
  BY FicheroVacio, ArchivoVacio
<1>1. CASE Indexar \/ TodoLeido
  <2>1. pc' \in {"indexar", "fusionar"} /\ UNCHANGED particion
    BY <1>1 DEF Indexar, TodoLeido, archivos
  <2> QED
    BY <2>1 DEF Unicos, Mezclando, Reemplazando
<1>2. CASE Indexado
  <2>1. pc' = "leer" /\ memoria' = <<>> /\ UNCHANGED particion
    BY <1>2 DEF Indexado, Avance, archivos, cursores
  <2> QED
    BY <1>b, <2>1 DEF Unicos, Mezclando, Reemplazando
<1>3. CASE LeerDocumento
  <2> DEFINE e == entrada[leidos + 1]
  <2>1. pc = "leer" /\ UNCHANGED <<pc, particion, partId>>
    BY <1>3 DEF LeerDocumento, archivos
  <2>2. leidos + 1 \in 1 .. Len(entrada) /\ e \in Registro /\ memoria' = Append(memoria, e)
    BY <1>3, ElSiguiente
  <2>3. e \notin Tramo(entrada, 1, leidos)
    <3> SUFFICES ASSUME NEW i \in 1 .. leidos, entrada[i] = e PROVE FALSE
      BY DEF Tramo
    <3>1. i \in 1 .. Len(entrada) /\ i # leidos + 1
      BY <1>0, <2>2
    <3> QED
      BY <2>2, <3>1 DEF Avance
  <2>4. De(particion, 0 .. partId - 1) \cup Todo(memoria) \subseteq Tramo(entrada, 1, leidos)
    BY <1>a, <2>1 DEF Contenido, Estan
  <2>5. ASSUME NEW p \in Partes PROVE e \notin Todo(Documentos(particion[p]))
    <3>1. CASE p >= partId
      BY <1>b, <2>1, <3>1 DEF Limpieza
    <3>2. CASE p < partId
      <4>1. p \in 0 .. partId - 1
        BY <1>0, <3>2
      <4>2. Todo(Documentos(particion[p])) \subseteq De(particion, 0 .. partId - 1)
        BY <4>1 DEF De
      <4> QED
        BY <2>3, <2>4, <4>2
    <3>3. p \in Nat
      BY <1>0
    <3> QED
      BY <1>0, <3>1, <3>2, <3>3
  <2> HIDE DEF e
  <2>6. Todo(memoria') = Todo(memoria) \cup {e} /\ SinRepetir(memoria')
    <3>1. SinRepetir(memoria) /\ e \notin Todo(memoria)
      BY <2>1, <2>3, <2>4 DEF Unicos
    <3> QED
      BY <1>0, <2>2, <3>1, UnoMas
  <2> QED
    BY <2>1, <2>5, <2>6 DEF Unicos, Mezclando, Reemplazando
<1>4. CASE OrdenarBloque
  <2>1. /\ pc = "leer" /\ pc' = "escribir" /\ UNCHANGED particion
        /\ memoria' \in Ordenamientos(memoria)
    BY <1>4 DEF OrdenarBloque, archivos
  <2>2. Todo(memoria') = Todo(memoria) /\ SinRepetir(memoria')
    BY <1>0, <2>1, Ordenados DEF Unicos
  <2> QED
    BY <2>1, <2>2 DEF Unicos, Mezclando, Reemplazando
<1>5. CASE EscribirParticion
  <2> DEFINE h == Head(memoria)
             D(p) == Todo(Documentos(particion[p]))
  <2>1. /\ pc = "escribir" /\ memoria # <<>> /\ memoria' = Tail(memoria) /\ UNCHANGED <<pc, partId>>
        /\ particion' = [particion EXCEPT ![partId] = Anotar(@, h)]
    BY <1>5 DEF EscribirParticion
  <2>2. h \in Registro /\ Todo(memoria) = {h} \cup Todo(memoria') /\ SinRepetir(memoria') /\ h \notin Todo(memoria')
    BY <1>0, <2>1, ElResto DEF Unicos
  <2>3. \A p \in Partes : h \notin D(p) /\ Todo(memoria') \cap D(p) = {} /\ SinRepetir(Documentos(particion[p]))
    BY <2>1, <2>2 DEF Unicos
  <2>4. Documentos(particion'[partId]) = Append(Documentos(particion[partId]), h)
    <3>1. particion'[partId] = Anotar(particion[partId], h)
      BY <1>0, <2>1
    <3> QED
      BY <1>0, <2>2, <3>1, UnoAnotado
  <2> HIDE DEF h
  <2>5. Todo(Documentos(particion'[partId])) = D(partId) \cup {h} /\ SinRepetir(Documentos(particion'[partId]))
    BY <1>0, <2>2, <2>3, <2>4, UnoMas
  <2>6. \A p \in Partes : p # partId => particion'[p] = particion[p]
    BY <1>0, <2>1
  <2>7. \A p \in Partes : SinRepetir(Documentos(particion'[p]))
    BY <2>3, <2>5, <2>6
  <2>8. ASSUME NEW p \in Partes PROVE Todo(memoria') \cap Todo(Documentos(particion'[p])) = {}
    <3>1. CASE p = partId
      BY <2>2, <2>3, <2>5, <3>1
    <3>2. CASE p # partId
      BY <2>3, <2>6, <3>2
    <3> QED
      BY <3>1, <3>2
  <2>9. ASSUME NEW p \in Partes, NEW q \in Partes, p # q
        PROVE  Todo(Documentos(particion'[p])) \cap Todo(Documentos(particion'[q])) = {}
    <3>1. D(p) \cap D(q) = {}
      BY <2>9 DEF Unicos
    <3>2. CASE p = partId
      BY <2>3, <2>5, <2>6, <2>9, <3>1, <3>2
    <3>3. CASE q = partId
      BY <2>3, <2>5, <2>6, <2>9, <3>1, <3>3
    <3>4. CASE p # partId /\ q # partId
      BY <2>6, <3>1, <3>4
    <3> QED
      BY <3>2, <3>3, <3>4
  <2> QED
    BY <2>1, <2>2, <2>7, <2>8, <2>9 DEF Unicos, Mezclando, Reemplazando
<1>6. CASE CerrarParticion
  BY <1>6 DEF CerrarParticion, Unicos, Mezclando, Reemplazando, archivos
<1>7. CASE AbrirPartes
  <2>1. pc = "fusionar" /\ pc' = "mezclar" /\ nueva.idx = <<>> /\ UNCHANGED <<particion, nueva, partId>>
    BY <1>7 DEF AbrirPartes, archivos, Limpieza, Mezclando, Reemplazando
  <2> QED
    BY <1>b, <2>1 DEF Unicos, Mezclando, Reemplazando
<1>8. CASE Mezclar
  <2> DEFINE a == Documentos(particion[0])
             b == Documentos(particion[partId])
  <2>1. Mezclando /\ Mezclando' /\ UNCHANGED <<particion, partId>> /\ pc' \notin {"leer", "escribir", "fin"}
    BY <1>8 DEF Mezclar, Iguales, ElOtroIgual, Primero, Segundo, Mezclando
  <2>2. partId > 0
    BY <2>1 DEF Avance
  <2>3. Sueltos(Documentos(nueva), a, pos1, b, pos2)
    BY <1>0, <2>1, <2>2 DEF Unicos, Sueltos, SinLeer
  <2>4. /\ Sueltos(Documentos(nueva'), a, pos1', b, pos2')
        /\ Todo(Documentos(nueva')) \subseteq Todo(Documentos(nueva)) \cup Todo(a) \cup Todo(b)
    <3> HIDE DEF a, b
    <3> QED
      BY <1>8, <2>3, PasoDeMezcla DEF a, b
  <2>5. SinRepetir(Documentos(nueva')) /\ Todo(Documentos(nueva')) \cap SinLeer' = {}
    BY <2>1, <2>4 DEF Sueltos, SinLeer
  <2>6. ASSUME NEW p \in 1 .. partId - 1 PROVE Todo(Documentos(nueva')) \cap Todo(Documentos(particion[p])) = {}
    <3>1. /\ Todo(Documentos(nueva)) \cap Todo(Documentos(particion[p])) = {}
          /\ Todo(a) \cap Todo(Documentos(particion[p])) = {}
          /\ Todo(b) \cap Todo(Documentos(particion[p])) = {}
      BY <1>0, <2>1 DEF Unicos
    <3> HIDE DEF a, b
    <3> QED
      BY <2>4, <3>1
  <2> QED
    BY <2>1, <2>5, <2>6 DEF Unicos
<1>9. CASE CerrarPartes
  BY <1>9 DEF CerrarPartes, Unicos, Mezclando, Reemplazando, archivos, cursores
<1>10. CASE Borrar1 \/ Borrar2
  <2>1. PICK q : (Borrar1 /\ q = 0) \/ (Borrar2 /\ q = partId)
    BY <1>10
  <2>2. /\ Reemplazando /\ Reemplazando' /\ UNCHANGED <<nueva, partId>>
        /\ \A p \in Partes : p # q => particion'[p] = particion[p]
        /\ Documentos(particion'[q]) = Documentos(particion[q]) \/ Documentos(particion'[q]) = <<>>
    BY <2>1, LoBorrado DEF Reemplazando, cursores
  <2>3. \A p \in Partes : SinRepetir(Documentos(particion'[p]))
                            /\ Todo(Documentos(particion'[p])) \subseteq Todo(Documentos(particion[p]))
    BY <1>b, <2>2 DEF Unicos
  <2>4. \A p, o \in Partes : p # o => Todo(Documentos(particion'[p])) \cap Todo(Documentos(particion'[o])) = {}
    BY <2>3 DEF Unicos
  <2>5. SinRepetir(Documentos(nueva))
          /\ \A p \in 1 .. partId - 1 : Todo(Documentos(nueva)) \cap Todo(Documentos(particion'[p])) = {}
    BY <1>0, <2>2, <2>3 DEF Unicos
  <2> QED
    BY <2>2, <2>3, <2>4, <2>5 DEF Unicos, Mezclando, Reemplazando
<1>11. CASE RenombrarDatos
  <2>1. /\ Reemplazando /\ Reemplazando' /\ Documentos(nueva') = Documentos(nueva) /\ partId' = partId
        /\ \A p \in Partes : Documentos(particion'[p]) = Documentos(particion[p])
    BY <1>11, LoRenombrado DEF RenombrarDatos, Reemplazando, cursores
  <2> QED
    BY <1>0, <2>1 DEF Unicos, Mezclando, Reemplazando
<1>12. CASE RenombrarIndice
  <2>1. /\ pc = "renombrarIdx" /\ pc' = "fusionar" /\ Documentos(particion'[0]) = Documentos(nueva)
        /\ \A p \in Partes : p # 0 => particion'[p] = particion[p]
    BY <1>12, LoRenombrado DEF RenombrarIndice
  <2>2. \A p \in Partes : SinRepetir(Documentos(particion'[p]))
    BY <2>1 DEF Unicos, Reemplazando
  <2>3. ASSUME NEW p \in Partes, p # 0 PROVE Todo(Documentos(nueva)) \cap Todo(Documentos(particion[p])) = {}
    <3>1. p \in Nat
      BY <1>0
    <3>2. CASE p >= partId
      BY <1>b, <2>1, <3>2 DEF Limpieza
    <3>3. CASE p \in 1 .. partId - 1
      BY <2>1, <3>3 DEF Unicos, Reemplazando
    <3> QED
      BY <1>0, <2>3, <3>1, <3>2, <3>3
  <2>4. ASSUME NEW p \in Partes, NEW q \in Partes, p # q
        PROVE  Todo(Documentos(particion'[p])) \cap Todo(Documentos(particion'[q])) = {}
    <3>1. CASE p = 0
      BY <2>1, <2>3, <2>4, <3>1
    <3>2. CASE q = 0
      BY <2>1, <2>3, <2>4, <3>2
    <3>3. CASE p # 0 /\ q # 0
      BY <2>1, <2>4, <3>3 DEF Unicos
    <3> QED
      BY <3>1, <3>2, <3>3
  <2> QED
    BY <2>1, <2>2, <2>4 DEF Unicos, Mezclando, Reemplazando
<1>13. CASE QuitarOriginal
  BY <1>13 DEF QuitarOriginal, Unicos, Mezclando, Reemplazando
<1>14. CASE InstalarDatos
  <2>1. pc' = "instalarIdx" /\ \A p \in Partes : Documentos(particion'[p]) = Documentos(particion[p])
    BY <1>14, LoInstalado DEF InstalarDatos
  <2> QED
    BY <2>1 DEF Unicos, Mezclando, Reemplazando
<1>15. CASE InstalarIndice
  <2>1. /\ pc' = "fin" /\ Documentos(docLex') = Documentos(particion[0]) /\ Documentos(particion'[0]) = <<>>
        /\ \A p \in Partes : p # 0 => particion'[p] = particion[p]
    BY <1>b, <1>15, LoInstalado DEF InstalarIndice
  <2>2. \A p \in Partes : SinRepetir(Documentos(particion'[p]))
    BY <1>b, <2>1 DEF Unicos
  <2>3. \A p, q \in Partes : p # q => Todo(Documentos(particion'[p])) \cap Todo(Documentos(particion'[q])) = {}
    BY <1>b, <2>1 DEF Unicos
  <2>4. SinRepetir(Documentos(docLex'))
    BY <1>0, <2>1 DEF Unicos
  <2> QED
    BY <2>1, <2>2, <2>3, <2>4 DEF Unicos, Mezclando, Reemplazando
<1>16. CASE Reindexar
  BY <1>16 DEF Reindexar, Unicos, Mezclando, Reemplazando
<1>17. CASE UNCHANGED vars
  BY <1>17 DEF vars, archivos, cursores, lecturas, Unicos, Mezclando, Reemplazando, SinLeer
<1> QED
  BY <1>a, <1>1, <1>2, <1>3, <1>4, <1>5, <1>6, <1>7, <1>8, <1>9, <1>10, <1>11, <1>12, <1>13, <1>14, <1>15, <1>16, <1>17
  DEF Next, Ordenar

-----------------------------------------------------------------------------
(* Wherever the sort is, the documents of the run are accounted for and    *)
(* every file in use has its data, if what was left of earlier runs had;   *)
(* and without a kill each document is in one place and everything written *)
(* is sorted.                                                              *)
THEOREM InvOrdenSiempre == Spec => []InvOrden
<1>1. InvOrden /\ [Next]_vars => InvOrden'
  <2> SUFFICES ASSUME InvOrden, [Next]_vars PROVE InvOrden'
    OBVIOUS
  <2>1. TypeOK /\ Avance /\ (sano => Enteros /\ Contenido) /\ SinCaidas
    BY DEF InvOrden
  <2>2. TypeOK' /\ Avance'
    BY <2>1, PasoTipos, PasoAvance
  <2>3. ASSUME sano' PROVE Enteros' /\ Contenido'
    BY <2>1, <2>3, PasoEnteros, PasoContenido
  <2>4. ASSUME Limpio' PROVE Limpieza' /\ Unicos' /\ EnOrden'
    <3>1. Enteros /\ Contenido /\ Limpieza /\ Unicos /\ EnOrden
      BY <2>1, <2>4, LimpioAntes DEF SinCaidas
    <3> QED
      BY <2>1, <2>4, <3>1, PasoLimpieza, PasoUnicos, PasoEnOrden
  <2> QED
    BY <2>2, <2>3, <2>4 DEF InvOrden, SinCaidas
<1> QED
  BY <1>1, Inicio, PTL DEF Spec

(* The files and the cursors of the sort have their types: partId never    *)
(* goes past the partitions there are, nor below 0.                        *)
THEOREM TiposDelOrden == Spec => []TypeOK
<1>1. InvOrden => TypeOK
  BY DEF InvOrden
<1> QED
  BY <1>1, InvOrdenSiempre, PTL

(* Without a kill the sort leaves the largest documents first.             *)
THEOREM SiempreOrdenado == Spec => []Ordenado
<1>1. InvOrden => Ordenado
  BY DEF InvOrden, SinCaidas, Limpio, EnOrden, Ordenado
<1> QED
  BY <1>1, InvOrdenSiempre, PTL

(* Whatever documents were left by a run that was killed, the sort loses   *)
(* none of its own, nor their terms, as long as every entry left had its   *)
(* data: no call of it that touches one part of a file and not the other   *)
(* is in the way.                                                          *)
THEOREM SiempreNadaPerdido == Spec => []NadaPerdido
<1>1. InvOrden => NadaPerdido
  <2> SUFFICES ASSUME InvOrden, sano, pc = "fin", NEW r \in Todo(entrada) PROVE r \in Completos
    BY DEF NadaPerdido, TodosLlegan
  <2>1. TypeOK /\ Avance /\ Enteros /\ Contenido
    BY DEF InvOrden
  <2>2. docLex \in Archivo /\ Coherente(docLex) /\ leidos = Len(entrada)
    BY <2>1, Ficheros DEF Enteros, Avance
  <2>3. r \in Todo(Documentos(docLex))
    BY <2>1, <2>2 DEF Contenido, Estan, Todo
  <2>4. /\ Len(Documentos(docLex)) = Len(docLex.idx) /\ Len(docLex.idx) \in Nat
    BY <2>2, DelArchivo, LosDocumentos
  <2>5. PICK i \in 1 .. Len(docLex.idx) : r = Documentos(docLex)[i]
    BY <2>3, <2>4 DEF Todo, Tramo
  <2>6. \A d \in Leer(docLex, i) : d = <<r>>
    <3> SUFFICES ASSUME NEW d \in Leer(docLex, i) PROVE d = <<r>>
      OBVIOUS
    <3>1. i \in Nat \ {0} /\ i <= Len(docLex.idx)
      BY <2>4
    <3>2. d # <<>>
      BY <2>2, <2>4, <3>1, LoLeido
    <3>3. d = <<Head(d)>> /\ Head(d) = Documentos(docLex)[i]
      BY <2>2, <3>1, <3>2, LoLeido
    <3> QED
      BY <2>5, <3>3
  <2>7. Leer(docLex, i) # {}
    <3>1. docLex.idx[i] \in Entrada
      BY <2>2, <2>4, DelArchivo, LosDocumentos
    <3>2. docLex.idx[i].reg.tam \in Nat \ {0}
      BY <3>1 DEF Entrada, Registro
    <3>3. 1 \in 1 .. docLex.idx[i].reg.tam
      BY <3>2
    <3> QED
      BY <3>3 DEF Leer
  <2>8. Leer(docLex, i) = {<<r>>}
    BY <2>6, <2>7
  <2> QED
    BY <2>3, <2>8 DEF Completos
<1> QED
  BY <1>1, InvOrdenSiempre, PTL

(* Without a kill the sort leaves the same documents, each once.           *)
THEOREM SiempreMismosDocumentos == Spec => []MismosDocumentos
<1>1. InvOrden => MismosDocumentos
  <2> SUFFICES ASSUME InvOrden, pc = "fin", caidas = 0
               PROVE  Len(docLex.idx) = Len(entrada) /\ Todo(Documentos(docLex)) = Todo(entrada)
    BY DEF MismosDocumentos
  <2>1. TypeOK /\ Avance /\ Contenido /\ Unicos
    BY DEF InvOrden, SinCaidas, Limpio, Avance
  <2>2. Todo(Documentos(docLex)) = Todo(entrada)
    BY <2>1 DEF Avance, Contenido, Estan, Limpio, Todo
  <2>3. /\ Documentos(docLex) \in Seq(Registro) /\ entrada \in Seq(Registro)
        /\ Len(Documentos(docLex)) = Len(docLex.idx)
    BY <2>1, Ficheros, DelArchivo, LosDocumentos
  <2>4. SinRepetir(Documentos(docLex))
    BY <2>1 DEF Unicos
  <2>5. SinRepetir(entrada)
    BY <2>1 DEF Avance, SinRepetir
  <2> QED
    BY <2>2, <2>3, <2>4, <2>5, CuantosDistintos
<1> QED
  BY <1>1, InvOrdenSiempre, PTL
=============================================================================
