------------------------------- MODULE Lexico -------------------------------
(***************************************************************************)
(* The lexicon files and the merge that maintains them: what               *)
(* Indexer::buildIndex does before sorting, that is Indexer::buildLexical  *)
(* over the stop word files and then over the documents, with              *)
(* ArchivoLexico::mergeWith one loop iteration at a time, and the          *)
(* registration of each document in documents.dat and documentLex.dat.     *)
(*                                                                         *)
(* A word is a number: mergeWith and buscarTermino only compare words, and *)
(* std::string's order is total; words have at most the 24 characters that *)
(* fit in a record of the file.  A file of the input tree is a model       *)
(* value; what it contains is the table ParserWrapper would build from it  *)
(* (word -> occurrences), or Roto when ParserWrapper throws.               *)
(***************************************************************************)
EXTENDS Integers, Sequences, FiniteSets

CONSTANTS
  Palabras,   \* the words, in std::string order
  Pesos,      \* the occurrence counts a word can have in one file
  Rutas,      \* the files under the input path
  RutasStop,  \* the files under the stop word path ({} when there is none)
  Roto,       \* the content of a file the parser rejects
  Ninguna     \* no file

ASSUME PalabrasSonOrdenadas == Palabras \subseteq Int
ASSUME PesosPositivos == Pesos \subseteq Nat \ {0}
ASSUME RutasDisjuntas == Rutas \cap RutasStop = {} /\ Ninguna \notin Rutas \cup RutasStop

(* WordPair: map<string,int>.  ParserWrapper only adds entries, each >= 1. *)
WordPair == UNION { [S -> Pesos] : S \in SUBSET Palabras }

ASSUME RotoNoEsContenido == Roto \notin WordPair

VARIABLES
  contenido,    \* what every file contains; chosen once, never changed
  fase,         \* lexicon being built: "stop" (stop.dat) or "lex" (lexical.dat)
  pendientes,   \* files of this phase that the scandir loop has not visited
  archivo,      \* the two lexicon files, each a sequence of records
  pc,           \* where buildLexical is
  ruta,         \* the file being indexed
  pos,          \* mergeWith: the record of the old lexicon held in `data'
  curr,         \* mergeWith: the words from the iterator `curr' to the end
  nextId,       \* mergeWith: the id for the next new word
  tempLexico,   \* mergeWith: the lexicon being written
  mergedItems,  \* mergeWith's result: docLexData.terminos, id -> peso
  documentos,   \* documents.dat, records [id, ruta]
  docLex        \* documentLex.dat, records [id, terminos]

merge == <<pos, curr, nextId, tempLexico, mergedItems>>
vars == <<contenido, fase, pendientes, archivo, pc, ruta, merge, documentos, docLex>>

Fases == {"stop", "lex"}
RegistroLexico == [id : Nat, termino : Palabras]
EsVector(t) == (\A i \in DOMAIN t : i \in Nat /\ i > 0) /\ t \in [DOMAIN t -> Pesos]   \* LexicalPair
Rango(s) == { s[i] : i \in DOMAIN s }
Vacia == [x \in {} |-> 0]

-----------------------------------------------------------------------------
(* ArchivoLexico as a sequence of records.                                 *)

(* escribirImpl: a record keeps a positive id and gets the next position   *)
(* otherwise; `escribir' has already moved to the end of the file.  The    *)
(* word is copied with strcpy to a char[25] and read back up to its '\0':  *)
(* words of up to 24 characters come back as they were, and nothing here   *)
(* is said of a longer one, which is written past the array.               *)
IdEscrito_Renumera(lexico, id) == Len(lexico) + 1   \* fault: the old id is lost
IdEscrito(lexico, id) == IF id <= 0 THEN Len(lexico) + 1 ELSE id
Escribir(lexico, id, termino) ==
  Append(lexico, [id |-> IdEscrito(lexico, id), termino |-> termino])

(* buscarTermino: binary search over the file; the id found, 0 for NULL.   *)
BuscarTermino(lexico, word) ==
  LET impl[r \in (0 .. Len(lexico)) \X (-1 .. Len(lexico) - 1)] ==
        LET minimo == r[1]
            maximo == r[2]
            posToRead == (maximo + minimo) \div 2
            found == lexico[posToRead + 1]
        IN  IF minimo > maximo THEN 0
            ELSE IF found.termino = word THEN found.id
            ELSE IF word > found.termino THEN impl[<<posToRead + 1, maximo>>]
            ELSE impl[<<minimo, posToRead - 1>>]
  IN  impl[<<0, Len(lexico) - 1>>]

(* The stop list handed to mergeWith: none while it is itself being built. *)
HayDato == pos <= Len(archivo[fase])
Dato == archivo[fase][pos]
EsStop_SoloEnElPrimerBucle(word) ==   \* fault: the last loop does not ask
  fase = "lex" /\ HayDato /\ BuscarTermino(archivo["stop"], word) # 0
EsStop(word) == fase = "lex" /\ BuscarTermino(archivo["stop"], word) # 0

-----------------------------------------------------------------------------
Init ==
  /\ contenido \in [Rutas \cup RutasStop -> WordPair \cup {Roto}]
  /\ fase = "stop"
  /\ pendientes = RutasStop
  /\ archivo = [f \in Fases |-> <<>>]
  /\ pc = "escanear"
  /\ ruta = Ninguna
  /\ pos = 1 /\ curr = {} /\ nextId = 1 /\ tempLexico = <<>> /\ mergedItems = Vacia
  /\ documentos = <<>>
  /\ docLex = <<>>

(* A file the parser rejects: the exception is caught inside the loop,     *)
(* before the lexicon is opened, and the next file is taken.               *)
ArchivoRoto(f) ==
  /\ pc = "escanear"
  /\ f \in pendientes
  /\ contenido[f] = Roto
  /\ pendientes' = pendientes \ {f}
  /\ UNCHANGED <<contenido, fase, archivo, pc, ruta, merge, documentos, docLex>>

(* Parse a file and start mergeWith: nextId comes from the number of       *)
(* records, the temporary file is truncated, the first record is read.     *)
PrimerId_SinSumar(lexico) == Len(lexico)   \* fault: nextId = _cantRegistros
PrimerId(lexico) == Len(lexico) + 1

EmpezarMerge(f) ==
  /\ pc = "escanear"
  /\ f \in pendientes
  /\ contenido[f] # Roto
  /\ pendientes' = pendientes \ {f}
  /\ ruta' = f
  /\ pos' = 1
  /\ curr' = DOMAIN contenido[f]
  /\ nextId' = PrimerId(archivo[fase])
  /\ tempLexico' = <<>>
  /\ mergedItems' = Vacia
  /\ pc' = "mezclar"
  /\ UNCHANGED <<contenido, fase, archivo, documentos, docLex>>

EsActual(w) == w \in curr /\ \A v \in curr : w <= v
Anotar(items, id, peso) ==
  [i \in DOMAIN items \cup {id} |-> IF i = id THEN peso ELSE items[i]]

(* Fault: the vector gets the position of the record instead of its id.    *)
Coincide_PorPosicion ==
  /\ pc = "mezclar" /\ HayDato
  /\ \E w \in curr :
       /\ EsActual(w)
       /\ Dato.termino = w
       /\ tempLexico' = Escribir(tempLexico, Dato.id, Dato.termino)
       /\ mergedItems' = Anotar(mergedItems, Len(tempLexico'), contenido[ruta][w])
       /\ curr' = curr \ {w}
  /\ pos' = pos + 1
  /\ UNCHANGED <<contenido, fase, pendientes, archivo, pc, ruta, nextId, documentos, docLex>>

(* The word is already in the lexicon: its record is copied, the document  *)
(* gets its id, and both sides advance.                                    *)
Coincide ==
  /\ pc = "mezclar" /\ HayDato
  /\ \E w \in curr :
       /\ EsActual(w)
       /\ Dato.termino = w
       /\ tempLexico' = Escribir(tempLexico, Dato.id, Dato.termino)
       /\ mergedItems' = Anotar(mergedItems, IdEscrito(tempLexico, Dato.id), contenido[ruta][w])
       /\ curr' = curr \ {w}
  /\ pos' = pos + 1
  /\ UNCHANGED <<contenido, fase, pendientes, archivo, pc, ruta, nextId, documentos, docLex>>

(* A record before the current word, or left over when the words are over. *)
EsViejo_SinResto == curr # {} /\ \A w \in curr : Dato.termino < w   \* fault: no last loop
EsViejo == \A w \in curr : Dato.termino < w

ConservarViejo ==
  /\ pc = "mezclar" /\ HayDato
  /\ EsViejo
  /\ tempLexico' = Escribir(tempLexico, Dato.id, Dato.termino)
  /\ pos' = pos + 1
  /\ UNCHANGED <<contenido, fase, pendientes, archivo, pc, ruta, curr, nextId,
                 mergedItems, documentos, docLex>>

(* A word that is not in the lexicon: it comes before the record in hand,  *)
(* or there are no more records.                                           *)
EsNueva_SinOrden(w) == EsActual(w) /\ (HayDato => Dato.termino # w)   \* fault
EsNueva(w) == EsActual(w) /\ (HayDato => Dato.termino > w)

(* Fault: a stop word also uses up an id.                                  *)
AgregarNueva_GastaId ==
  /\ pc = "mezclar"
  /\ \E w \in curr :
       /\ EsNueva(w)
       /\ curr' = curr \ {w}
       /\ nextId' = nextId + 1
       /\ IF EsStop(w)
          THEN UNCHANGED <<tempLexico, mergedItems>>
          ELSE /\ tempLexico' = Escribir(tempLexico, nextId, w)
               /\ mergedItems' = Anotar(mergedItems, nextId, contenido[ruta][w])
  /\ UNCHANGED <<contenido, fase, pendientes, archivo, pc, ruta, pos, documentos, docLex>>

(* A stop word is dropped, any other new word gets nextId.                 *)
AgregarNueva ==
  /\ pc = "mezclar"
  /\ \E w \in curr :
       /\ EsNueva(w)
       /\ curr' = curr \ {w}
       /\ IF EsStop(w)
          THEN UNCHANGED <<tempLexico, mergedItems, nextId>>
          ELSE /\ tempLexico' = Escribir(tempLexico, nextId, w)
               /\ mergedItems' = Anotar(mergedItems, nextId, contenido[ruta][w])
               /\ nextId' = nextId + 1
  /\ UNCHANGED <<contenido, fase, pendientes, archivo, pc, ruta, pos, documentos, docLex>>

(* Both sides are over: the old lexicon is removed, the new one renamed.   *)
(* A document is recorded unless its vector is empty.                      *)
HayQueGrabar_Siempre == fase = "lex"   \* fault: empty vectors are recorded
HayQueGrabar == fase = "lex" /\ DOMAIN mergedItems # {}

Reemplazar ==
  /\ pc = "mezclar" /\ ~HayDato /\ curr = {}
  /\ archivo' = [archivo EXCEPT ![fase] = tempLexico]
  /\ pc' = IF HayQueGrabar THEN "grabar" ELSE "escanear"
  /\ UNCHANGED <<contenido, fase, pendientes, ruta, merge, documentos, docLex>>

(* The document gets the next id; its term vector is stored under it.      *)
GrabarDocumento ==
  /\ pc = "grabar"
  /\ LET newDocId == Len(documentos) + 1 IN
       /\ documentos' = Append(documentos, [id |-> newDocId, ruta |-> ruta])
       /\ docLex' = Append(docLex, [id |-> newDocId, terminos |-> mergedItems])
  /\ pc' = "escanear"
  /\ UNCHANGED <<contenido, fase, pendientes, archivo, ruta, merge>>

(* buildIndex: the stop word lexicon is complete, on to the documents.     *)
IndexarDocumentos ==
  /\ pc = "escanear" /\ fase = "stop" /\ pendientes = {}
  /\ fase' = "lex"
  /\ pendientes' = Rutas
  /\ UNCHANGED <<contenido, archivo, pc, ruta, merge, documentos, docLex>>

Next ==
  \/ \E f \in Rutas \cup RutasStop : ArchivoRoto(f) \/ EmpezarMerge(f)
  \/ Coincide
  \/ ConservarViejo
  \/ AgregarNueva
  \/ Reemplazar
  \/ GrabarDocumento
  \/ IndexarDocumentos

(* The indexer is one sequential process: as long as it can take a step,   *)
(* it does.                                                                *)
Spec == Init /\ [][Next]_vars /\ WF_vars(Next)
-----------------------------------------------------------------------------
TypeOK ==
  /\ contenido \in [Rutas \cup RutasStop -> WordPair \cup {Roto}]
  /\ fase \in Fases
  /\ pendientes \subseteq Rutas \cup RutasStop
  /\ archivo \in [Fases -> Seq(RegistroLexico)]
  /\ pc \in {"escanear", "mezclar", "grabar"}
  /\ ruta \in Rutas \cup RutasStop \cup {Ninguna}
  /\ pos \in Nat /\ curr \subseteq Palabras /\ nextId \in Nat
  /\ tempLexico \in Seq(RegistroLexico)
  /\ EsVector(mergedItems)
  /\ documentos \in Seq([id : Nat, ruta : Rutas])
  /\ \A i \in DOMAIN docLex : docLex[i].id \in DOMAIN documentos /\ EsVector(docLex[i].terminos)

Ordenado(lexico) ==
  \A i, j \in DOMAIN lexico : i < j => lexico[i].termino < lexico[j].termino

(* A lexicon file is strictly sorted by word whenever it is closed, which  *)
(* the merge assumes of its input and buscarTermino of the file it probes. *)
LexicoOrdenado == \A f \in Fases : Ordenado(archivo[f])

(* A lexicon of n words uses the ids 1..n, each once: nextId, computed     *)
(* from the number of records, never collides with an id already given.    *)
IdsUnicos(lexico) ==
  /\ \A i \in DOMAIN lexico : lexico[i].id \in 1 .. Len(lexico)
  /\ \A i, j \in DOMAIN lexico : lexico[i].id = lexico[j].id => i = j
IdsDensos == \A f \in Fases : IdsUnicos(archivo[f])

PalabrasDe(lexico) == { lexico[i].termino : i \in DOMAIN lexico }
Indexables(f) == DOMAIN contenido[f] \ PalabrasDe(archivo["stop"])

(* The vector of a document has, under the ids of the lexicon as it is     *)
(* now, every word of its file that is not a stop word, with its number of *)
(* occurrences, and nothing else: later merges never change its meaning.   *)
VectoresFieles ==
  \A d \in DOMAIN docLex :
    LET f == documentos[docLex[d].id].ruta
        lexico == archivo["lex"]
        suyos == { i \in DOMAIN lexico : lexico[i].termino \in Indexables(f) }
    IN  /\ PalabrasDe(lexico) \cap DOMAIN contenido[f] = Indexables(f)
        /\ DOMAIN docLex[d].terminos = { lexico[i].id : i \in suyos }
        /\ \A i \in suyos : docLex[d].terminos[lexico[i].id] = contenido[f][lexico[i].termino]

Legibles(fs) == { f \in fs : contenido[f] # Roto }

Terminado == fase = "lex" /\ pendientes = {} /\ pc = "escanear"

(* When the indexer is done the lexicon holds the words of the readable    *)
(* files that are not stop words, whichever of mergeWith's two loops met   *)
(* them, and nothing of a rejected file; and every readable file with such *)
(* a word is a document, once, with the id of its position, in both files. *)
DocumentosCompletos ==
  Terminado =>
    /\ PalabrasDe(archivo["lex"]) = UNION { Indexables(f) : f \in Legibles(Rutas) }
    /\ Rango(documentos) = { [id |-> i, ruta |-> documentos[i].ruta] : i \in DOMAIN documentos }
    /\ { documentos[i].ruta : i \in DOMAIN documentos }
         = { f \in Legibles(Rutas) : Indexables(f) # {} }
    /\ Len(documentos) = Cardinality({ documentos[i].ruta : i \in DOMAIN documentos })
    /\ Len(docLex) = Len(documentos)
    /\ \A i \in DOMAIN docLex : docLex[i].id = documentos[i].id

(* Where the loop is: only files of the current phase are visited, and the *)
(* words left to merge are words of the file being indexed.                *)
RutasDeFase == IF fase = "stop" THEN RutasStop ELSE Rutas
Contexto ==
  /\ pendientes \subseteq RutasDeFase
  /\ pc # "escanear" =>
       ruta \in RutasDeFase /\ contenido[ruta] # Roto /\ curr \subseteq DOMAIN contenido[ruta]
  /\ pc = "grabar" => fase = "lex"
  /\ nextId > 0

(* In the middle of a merge the temporary file holds the records read so   *)
(* far, unchanged, and one record for each id handed out; it is sorted and *)
(* every record still to be written, old or new, goes after its last one.  *)
MezclaCorrecta ==
  pc = "mezclar" =>
    /\ pos \in 1 .. Len(archivo[fase]) + 1
    /\ nextId > Len(archivo[fase])
    /\ Len(tempLexico) = (pos - 1) + (nextId - 1 - Len(archivo[fase]))
    /\ \A i \in DOMAIN tempLexico :
         \/ tempLexico[i].id \in Len(archivo[fase]) + 1 .. nextId - 1
         \/ \E j \in 1 .. pos - 1 : tempLexico[i] = archivo[fase][j]
    /\ \A j \in 1 .. pos - 1 : \E i \in DOMAIN tempLexico : tempLexico[i] = archivo[fase][j]
    /\ \A i, j \in DOMAIN tempLexico : tempLexico[i].id = tempLexico[j].id => i = j
    /\ Ordenado(tempLexico)
    /\ \A i \in DOMAIN tempLexico :
         /\ HayDato => tempLexico[i].termino < Dato.termino
         /\ \A w \in curr : tempLexico[i].termino < w

(* Replacing the file never drops a word nor gives it another id: the      *)
(* vectors already written refer to words by id.                           *)
IdsEstables ==
  [][\A f \in Fases : Rango(archivo[f]) \subseteq Rango(archivo'[f])]_vars

(* Both merges end and every file is visited.                              *)
Termina == <>Terminado
=============================================================================
