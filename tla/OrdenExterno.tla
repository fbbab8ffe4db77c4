---------------------------- MODULE OrdenExterno ----------------------------
(***************************************************************************)
(* Indexer::sortByQuantity: the external sort that puts documentLex.dat in *)
(* decreasing number of terms, by sorted partitions of memSize documents   *)
(* merged two at a time, over the files it leaves in the output folder.    *)
(* The indexer may be killed at any point and is then run again, on other  *)
(* documents: its constructor removes the index and documentLex, but not   *)
(* the partitions, and a partition is opened without truncating it.        *)
(*                                                                         *)
(* A file of ArchivoDocLexico is two: an index, with an entry for each     *)
(* document and the offset of its terms, and the data.  They are written,  *)
(* flushed, removed and renamed apart, and a reader believes the index.  A *)
(* file that does not exist is an empty one: opening creates it, and what  *)
(* is renamed onto was removed before.                                     *)
(***************************************************************************)
EXTENDS Integers, Sequences, FiniteSets

CONSTANTS
  Tamanios,     \* how many terms a document can have: terminos.size()
  MaxDocs,      \* bound: documents in the first run of the indexer
  MaxDocsLuego, \* bound: documents in a later run, at most MaxDocs
  MemSize,      \* memSize: documents sorted in memory at a time
  MaxCorridas,  \* bound: runs of the indexer
  MaxCaidas     \* bound: runs that are killed

ASSUME TamaniosPositivos == Tamanios \subseteq Nat \ {0}
ASSUME MemSizePositivo == MemSize \in Nat \ {0}
ASSUME CotasDelOrden ==
  MaxDocs \in Nat /\ MaxDocsLuego \in 0..MaxDocs /\ MaxCorridas \in Nat \ {0} /\ MaxCaidas \in Nat

VARIABLES
  corrida,    \* which run of the indexer this is
  caidas,     \* how many were killed
  sano,       \* whether every entry in the folder had its data when this run began
  entrada,    \* the documents this run wrote to documentLex
  pc,         \* where the indexer is
  docLex,     \* documentLex
  particion,  \* docLexicoPart0, docLexicoPart1...
  nueva,      \* docLexicoPart0tmp
  previos,    \* how many entries the file being written had when it was opened
  partId,
  leidos,     \* documents read from documentLex
  memoria,    \* the block
  pos1, pos2, \* the entries of partition 0 and partition partId read last
  dato1, dato2 \* what was read there: one document, or none at the end

archivos == <<docLex, particion, nueva>>
lecturas == <<pos1, pos2, dato1, dato2>>
cursores == <<previos, partId, leidos, memoria, lecturas>>
historia == <<corrida, caidas, sano, entrada>>
vars == <<historia, pc, archivos, cursores>>

(* A document: intacto says that the terms that go with its id are its own.*)
Registro == [corrida : 1..MaxCorridas, id : 1..MaxDocs, tam : Nat \ {0}, intacto : BOOLEAN]
Partes == 0..MaxDocs
Pcs == {"indexar", "leer", "escribir", "fusionar", "mezclar", "iguales",
        "borrarDat1", "borrarIdx1", "borrarDat2", "borrarIdx2", "renombrarDat", "renombrarIdx",
        "quitarIdx", "instalarDat", "instalarIdx", "fin", "caido"}
Tramo(s, a, b) == { s[i] : i \in a..b }
Todo(s) == Tramo(s, 1, Len(s))
Decrece(s) == \A i, j \in 1..Len(s) : i < j => s[i].tam >= s[j].tam

-----------------------------------------------------------------------------
(* ArchivoDocLexico.                                                       *)

Entrada == [reg : Registro, offset : Nat]
Trozo == [de : Registro, desde : Nat, largo : Nat]
Archivo == [idx : Seq(Entrada), dat : Seq(Trozo)]
Vacio == [idx |-> <<>>, dat |-> <<>>]
Documentos(a) == [i \in 1..Len(a.idx) |-> a.idx[i].reg]

(* In ints: the id is one, the norm, a double, two and a term two.         *)
Largo(r) == 3 + 2 * r.tam

(* Where the data ends: what was written last is at the end.               *)
Final(dat) == IF dat = <<>> THEN 0 ELSE dat[Len(dat)].desde + dat[Len(dat)].largo

(* escribir: the record goes to the end of the data, its entry to that of  *)
(* the index.                                                              *)
Anotar(a, r) ==
  LET fin == Final(a.dat)
  IN  [idx |-> Append(a.idx, [reg |-> r, offset |-> fin]),
       dat |-> Append(a.dat, [de |-> r, desde |-> fin, largo |-> Largo(r)])]

(* Whether the data an entry leads to is there, and is that of its document*)
Cabe(e, dat) == e.offset + Largo(e.reg) <= Final(dat)
Suyos(e, dat) ==
  Cabe(e, dat) /\ \E i \in 1..Len(dat) : dat[i] = [de |-> e.reg, desde |-> e.offset, largo |-> Largo(e.reg)]
Coherente(a) == \A i \in 1..Len(a.idx) : Suyos(a.idx[i], a.dat)

(* leer, sequential: the k-th entry of the index says which document it is *)
(* and how many terms to read where.  What is there may be of others; past *)
(* the end of the data the stream fails, this read and all after it, and   *)
(* the terms it does not get are all the same one, of id and weight 0.     *)
Fallo(a, k) == \E j \in 1..k - 1 : ~ Cabe(a.idx[j], a.dat)
Leer(a, k) ==
  LET e == a.idx[k]
      Ajeno(tam) == [e.reg EXCEPT !.tam = tam, !.intacto = FALSE]
  IN  IF k > Len(a.idx) THEN {<<>>}
      ELSE IF Fallo(a, k) THEN {<<Ajeno(1)>>}
      ELSE IF Suyos(e, a.dat) THEN {<<e.reg>>}
      ELSE { <<Ajeno(tam)>> : tam \in 1..e.reg.tam }

-----------------------------------------------------------------------------
(* Where a run of the indexer starts, with no documentLex.                 *)
Arranque ==
  /\ entrada' = <<>> /\ docLex' = Vacio
  /\ previos' = 0 /\ partId' = 0 /\ leidos' = 0 /\ memoria' = <<>>
  /\ pos1' = 1 /\ pos2' = 1 /\ dato1' = <<>> /\ dato2' = <<>>

Init ==
  /\ corrida = 1 /\ caidas = 0 /\ sano = TRUE /\ pc = "indexar"
  /\ entrada = <<>> /\ docLex = Vacio /\ particion = [p \in Partes |-> Vacio] /\ nueva = Vacio
  /\ previos = 0 /\ partId = 0 /\ leidos = 0 /\ memoria = <<>>
  /\ pos1 = 1 /\ pos2 = 1 /\ dato1 = <<>> /\ dato2 = <<>>

(* buildLexical: the documents are numbered from 1, and of any size.       *)
MaxDeCorrida == IF corrida = 1 THEN MaxDocs ELSE MaxDocsLuego
Indexar ==
  /\ pc = "indexar" /\ Len(entrada) < MaxDeCorrida
  /\ \E tam \in Tamanios :
       LET r == [corrida |-> corrida, id |-> Len(entrada) + 1, tam |-> tam, intacto |-> TRUE]
       IN  entrada' = Append(entrada, r) /\ docLex' = Anotar(docLex, r)
  /\ UNCHANGED <<corrida, caidas, sano, pc, particion, nueva, cursores>>

Indexado ==
  /\ pc = "indexar" /\ pc' = "leer"
  /\ UNCHANGED <<historia, archivos, cursores>>

-----------------------------------------------------------------------------
(* Blocks of documents are read, sorted and written.                       *)
LeerDocumento ==
  /\ pc = "leer" /\ leidos < Len(docLex.idx) /\ Len(memoria) < MemSize
  /\ \E d \in Leer(docLex, leidos + 1) : memoria' = memoria \o d
  /\ leidos' = leidos + 1
  /\ UNCHANGED <<historia, pc, archivos, previos, partId, lecturas>>

(* sort with CantTermsComparer: equals in any order, std::sort is unstable.*)
Ordenamientos(s) ==
  LET permutaciones == { p \in [1..Len(s) -> 1..Len(s)] : \A i, j \in 1..Len(s) : i # j => p[i] # p[j] }
  IN  { t \in { [i \in 1..Len(s) |-> s[p[i]]] : p \in permutaciones } : Decrece(t) }

(* A block that is full, or the last one; the partition is opened.         *)
OrdenarBloque ==
  /\ pc = "leer" /\ memoria # <<>> /\ (Len(memoria) = MemSize \/ leidos = Len(docLex.idx))
  /\ memoria' \in Ordenamientos(memoria)
  /\ previos' = Len(particion[partId].idx)
  /\ pc' = "escribir"
  /\ UNCHANGED <<historia, archivos, partId, leidos, lecturas>>

EscribirParticion ==
  /\ pc = "escribir" /\ memoria # <<>>
  /\ particion' = [particion EXCEPT ![partId] = Anotar(@, Head(memoria))]
  /\ memoria' = Tail(memoria)
  /\ UNCHANGED <<historia, pc, docLex, nueva, previos, partId, leidos, lecturas>>

CerrarParticion ==
  /\ pc = "escribir" /\ memoria = <<>>
  /\ partId' = partId + 1 /\ pc' = "leer"
  /\ UNCHANGED <<historia, archivos, previos, leidos, memoria, lecturas>>

TodoLeido ==
  /\ pc = "leer" /\ leidos = Len(docLex.idx) /\ memoria = <<>>
  /\ pc' = "fusionar"
  /\ UNCHANGED <<historia, archivos, cursores>>

-----------------------------------------------------------------------------
(* The merges: partition 0 with partition partId, which for the first of   *)
(* them is one past the last written.                                      *)

(* Fault: the last merge is not done.                                      *)
QuedanPartes_Menos == partId > 1

(* Fault: one merge too many, of partition 0 with itself.                  *)
QuedanPartes_DeMas == partId >= 0

QuedanPartes == partId > 0

AbrirPartes ==
  /\ pc = "fusionar" /\ QuedanPartes
  /\ pos1' = 1 /\ dato1' \in Leer(particion[0], 1)
  /\ pos2' = 1 /\ dato2' \in Leer(particion[partId], 1)
  /\ previos' = Len(nueva.idx)
  /\ pc' = "mezclar"
  /\ UNCHANGED <<historia, archivos, partId, leidos, memoria>>

Hay1 == dato1 # <<>>
Hay2 == dato2 # <<>>
Leer1 == pos1' = pos1 + 1 /\ dato1' \in Leer(particion[0], pos1 + 1)
Leer2 == pos2' = pos2 + 1 /\ dato2' \in Leer(particion[partId], pos2 + 1)

(* Fault: of two documents of a size only the first is written.            *)
Iguales_PierdeUno ==
  /\ pc = "mezclar" /\ Hay1 /\ Hay2 /\ Head(dato1).tam = Head(dato2).tam
  /\ nueva' = Anotar(nueva, Head(dato1))
  /\ Leer1 /\ Leer2 /\ UNCHANGED pc

(* Two of a size are written one after the other.  That the first file is  *)
(* read before the second is written is of no consequence.                 *)
Iguales ==
  /\ pc = "mezclar" /\ Hay1 /\ Hay2 /\ Head(dato1).tam = Head(dato2).tam
  /\ nueva' = Anotar(nueva, Head(dato1)) /\ Leer1
  /\ pc' = "iguales" /\ UNCHANGED <<pos2, dato2>>

ElOtroIgual ==
  /\ pc = "iguales"
  /\ nueva' = Anotar(nueva, Head(dato2)) /\ Leer2
  /\ pc' = "mezclar" /\ UNCHANGED <<pos1, dato1>>

(* Fault: the smaller goes first.                                          *)
Va1_AlReves == Hay1 /\ (Hay2 => Head(dato1).tam < Head(dato2).tam)

(* dato1 is written: it is larger, or the other partition is over.         *)
Va1 == Hay1 /\ (Hay2 => Head(dato1).tam > Head(dato2).tam)

Primero ==
  /\ pc = "mezclar" /\ Va1
  /\ nueva' = Anotar(nueva, Head(dato1)) /\ Leer1
  /\ UNCHANGED <<pc, pos2, dato2>>

Va2 == Hay2 /\ (Hay1 => Head(dato1).tam < Head(dato2).tam)

(* Fault: the partition is not read on.                                    *)
Segundo_NoAvanza == pc = "mezclar" /\ Va2 /\ UNCHANGED <<pc, nueva, lecturas>>

Segundo ==
  /\ pc = "mezclar" /\ Va2
  /\ nueva' = Anotar(nueva, Head(dato2)) /\ Leer2
  /\ UNCHANGED <<pc, pos1, dato1>>

Mezclar ==
  /\ Iguales \/ ElOtroIgual \/ Primero \/ Segundo
  /\ UNCHANGED <<historia, docLex, particion, previos, partId, leidos, memoria>>

CerrarPartes ==
  /\ pc = "mezclar" /\ ~Hay1 /\ ~Hay2
  /\ pc' = "borrarDat1"
  /\ UNCHANGED <<historia, archivos, cursores>>

(* The files are removed and renamed one by one.                           *)
Borrar(de, a, queda) ==
  /\ pc = de /\ pc' = a
  /\ particion' = queda
  /\ UNCHANGED <<historia, docLex, nueva, cursores>>
Borrar1 ==
  \/ Borrar("borrarDat1", "borrarIdx1", [particion EXCEPT ![0].dat = <<>>])
  \/ Borrar("borrarIdx1", "borrarDat2", [particion EXCEPT ![0].idx = <<>>])
Borrar2 ==
  \/ Borrar("borrarDat2", "borrarIdx2", [particion EXCEPT ![partId].dat = <<>>])
  \/ Borrar("borrarIdx2", "renombrarDat", [particion EXCEPT ![partId].idx = <<>>])

RenombrarDatos ==
  /\ pc = "renombrarDat" /\ pc' = "renombrarIdx"
  /\ particion' = [particion EXCEPT ![0].dat = nueva.dat] /\ nueva' = [nueva EXCEPT !.dat = <<>>]
  /\ UNCHANGED <<historia, docLex, cursores>>
RenombrarIndice ==
  /\ pc = "renombrarIdx" /\ pc' = "fusionar"
  /\ particion' = [particion EXCEPT ![0].idx = nueva.idx] /\ nueva' = [nueva EXCEPT !.idx = <<>>]
  /\ partId' = partId - 1
  /\ UNCHANGED <<historia, docLex, previos, leidos, memoria, lecturas>>

QuitarOriginal ==
  /\ \/ pc = "fusionar" /\ ~QuedanPartes /\ pc' = "quitarIdx"
        /\ docLex' = [docLex EXCEPT !.dat = <<>>]
     \/ pc = "quitarIdx" /\ pc' = "instalarDat"
        /\ docLex' = [docLex EXCEPT !.idx = <<>>]
  /\ UNCHANGED <<historia, particion, nueva, cursores>>

InstalarDatos ==
  /\ pc = "instalarDat" /\ pc' = "instalarIdx"
  /\ docLex' = [docLex EXCEPT !.dat = particion[0].dat] /\ particion' = [particion EXCEPT ![0].dat = <<>>]
  /\ UNCHANGED <<historia, nueva, cursores>>
InstalarIndice ==
  /\ pc = "instalarIdx" /\ pc' = "fin"
  /\ docLex' = [docLex EXCEPT !.idx = particion[0].idx] /\ particion' = [particion EXCEPT ![0].idx = <<>>]
  /\ UNCHANGED <<historia, nueva, cursores>>

Ordenar ==
  \/ Indexar \/ Indexado
  \/ LeerDocumento \/ OrdenarBloque \/ EscribirParticion \/ CerrarParticion \/ TodoLeido
  \/ AbrirPartes \/ Mezclar \/ CerrarPartes
  \/ Borrar1 \/ Borrar2 \/ RenombrarDatos \/ RenombrarIndice
  \/ QuitarOriginal \/ InstalarDatos \/ InstalarIndice

-----------------------------------------------------------------------------
(* What a kill leaves of a file that is being written.  escribir begins by *)
(* moving both streams to the end, which writes what they hold of the      *)
(* record before, the entry first; closing them writes the data first.  So *)
(* the last record may be missing, its data from any int on.               *)
Cortado(a, quedan) ==
  LET n == Len(a.idx)
      u == Len(a.dat)
      Con(idx) == { [idx |-> idx, dat |-> [a.dat EXCEPT ![u].largo = k]] : k \in 0..a.dat[u].largo }
  IN  IF n = previos THEN {a}
      ELSE {a} \cup Con(SubSeq(a.idx, 1, n - 1)) \cup (IF quedan THEN Con(a.idx) ELSE {})

(* The indexer is killed, and what it had in memory is lost.  documentLex  *)
(* is of no more use: the next run removes it.                             *)
Caer ==
  /\ pc \notin {"fin", "caido"} /\ caidas < MaxCaidas
  /\ caidas' = caidas + 1 /\ pc' = "caido"
  /\ IF pc = "escribir"
     THEN \E a \in Cortado(particion[partId], memoria # <<>>) : particion' = [particion EXCEPT ![partId] = a]
     ELSE UNCHANGED particion
  /\ IF pc \in {"mezclar", "iguales"} THEN nueva' \in Cortado(nueva, Hay1 \/ Hay2) ELSE UNCHANGED nueva
  /\ Arranque /\ UNCHANGED <<corrida, sano>>

(* It is run again.  The constructor removes documentLex and the index;    *)
(* what else there is in the folder stays.                                 *)
Reindexar ==
  /\ pc \in {"fin", "caido"} /\ corrida < MaxCorridas
  /\ corrida' = corrida + 1 /\ pc' = "indexar"
  /\ sano' = (Coherente(nueva) /\ \A p \in Partes : Coherente(particion[p]))
  /\ Arranque /\ UNCHANGED <<caidas, particion, nueva>>

Next == Ordenar \/ Caer \/ Reindexar

(* One sequential process; nobody has to kill it or to run it again.       *)
Spec == Init /\ [][Next]_vars /\ WF_vars(Ordenar)

-----------------------------------------------------------------------------
(* Properties                                                              *)

(* The types of the sort's files and cursors.                              *)
TypeOK ==
  /\ corrida \in 1..MaxCorridas /\ caidas \in 0..MaxCaidas /\ sano \in BOOLEAN /\ pc \in Pcs
  /\ entrada \in Seq(Registro) /\ docLex \in Archivo
  /\ particion \in [Partes -> Archivo] /\ nueva \in Archivo
  /\ memoria \in Seq(Registro) /\ previos \in Nat
  /\ partId \in Partes /\ leidos \in 0..MaxDocs
  /\ pos1 \in Nat \ {0} /\ pos2 \in Nat \ {0}
  /\ dato1 \in Seq(Registro) /\ Len(dato1) <= 1 /\ dato2 \in Seq(Registro) /\ Len(dato2) <= 1

(* What sortByQuantity leaves to buildLeaders is sorted by decreasing      *)
(* number of terms: the first documents, which become the leaders, are the *)
(* largest ones.                                                           *)
Ordenado == pc = "fin" /\ caidas = 0 => Decrece(Documentos(docLex))

(* The sort neither loses nor repeats a document, however many partitions  *)
(* it took.                                                                *)
MismosDocumentos ==
  pc = "fin" /\ caidas = 0 =>
    Len(docLex.idx) = Len(entrada) /\ Todo(Documentos(docLex)) = Todo(entrada)

(* What buildLeaders reads: the documents with their own terms.            *)
Completos == { r \in Todo(Documentos(docLex)) : \E i \in 1..Len(docLex.idx) : Leer(docLex, i) = {<<r>>} }

(* All the documents of this run reach buildLeaders, with their terms.     *)
TodosLlegan == pc = "fin" => Todo(entrada) \subseteq Completos

(* Whatever documents an earlier run left when it was killed, none of this *)
(* run is lost, as long as every entry that was left had its data.         *)
NadaPerdido == sano => TodosLlegan

(* The sort ends, unless it is killed.                                     *)
Termina == pc \notin {"fin", "caido"} ~> pc \in {"fin", "caido"}
=============================================================================
