---------------------------- MODULE LexicoProofs ----------------------------
(***************************************************************************)
(* Proofs about Lexico, for any set of words, counts, files and stop word  *)
(* files, any contents and any visiting order.  Inv is the inductive       *)
(* invariant of the lexicon files: types, the context of the loop, what a  *)
(* merge has done so far, and what a closed lexicon file satisfies.        *)
(*                                                                         *)
(* Then the vectors: the one recorded for a document says how many times   *)
(* each of its words was found in it, every document read whole is         *)
(* recorded once, and Lexico implements Vocabulario.  A vector is built    *)
(* during the merge, record by record, by the id the word has or is given  *)
(* then, and stays meaningful because no later merge changes an id.  Which *)
(* words are stop words is what a binary search answers: Hallado is its    *)
(* closed form.                                                            *)
(***************************************************************************)
EXTENDS Lexico, SequenceTheorems, ConteoProofs, LexicoVocabulario, TLAPS

(* TypeOK says the same of docLex in a form TLC can evaluate.              *)
LexicalPair == UNION { [S -> Pesos] : S \in SUBSET Nat }
RegistroDocLex == [id : Nat, terminos : LexicalPair]
DocLexOK == docLex \in Seq(RegistroDocLex)

Inv == TypeOK /\ DocLexOK /\ Contexto /\ MezclaCorrecta /\ LexicoOrdenado /\ IdsDensos

(* What one write at the end of a lexicon file does to it.                 *)
LEMMA EscribirAgrega ==
  ASSUME NEW s \in Seq(RegistroLexico), NEW id \in Nat, id > 0, NEW w \in Palabras
  PROVE  /\ Escribir(s, id, w) \in Seq(RegistroLexico)
         /\ Len(Escribir(s, id, w)) = Len(s) + 1
         /\ DOMAIN Escribir(s, id, w) = 1 .. Len(s) + 1
         /\ Escribir(s, id, w)[Len(s) + 1] = [id |-> id, termino |-> w]
         /\ \A i \in DOMAIN s : Escribir(s, id, w)[i] = s[i]
         /\ IdEscrito(s, id) = id
<1>1. IdEscrito(s, id) = id
  BY DEF IdEscrito
<1> DEFINE r == [id |-> id, termino |-> w]
<1>2. r \in RegistroLexico
  BY DEF RegistroLexico
<1>3. Escribir(s, id, w) = Append(s, r)
  BY <1>1 DEF Escribir
<1> HIDE DEF r
<1>4. /\ Append(s, r) \in Seq(RegistroLexico) /\ Len(Append(s, r)) = Len(s) + 1
      /\ \A i \in 1 .. Len(s) : Append(s, r)[i] = s[i]
      /\ Append(s, r)[Len(s) + 1] = r
  BY <1>2, AppendProperties
<1>5. DOMAIN s = 1 .. Len(s) /\ DOMAIN Append(s, r) = 1 .. Len(s) + 1
  BY <1>4
<1>6. r = [id |-> id, termino |-> w]
  BY DEF r
<1> QED
  BY <1>1, <1>3, <1>4, <1>5, <1>6, Zenon

LEMMA InicioInv == Init => Inv
<1> SUFFICES ASSUME Init PROVE Inv
  OBVIOUS
<1>1. archivo["stop"] = <<>> /\ archivo["lex"] = <<>> /\ archivo \in [Fases -> Seq(RegistroLexico)]
  BY DEF Init, Fases
<1>2. TypeOK
  BY <1>1 DEF Init, TypeOK, Fases, EsVector, Vacia
<1>3. Contexto /\ MezclaCorrecta /\ DocLexOK
  BY DEF Init, Contexto, MezclaCorrecta, RutasDeFase, DocLexOK
<1>4. LexicoOrdenado /\ IdsDensos
  BY <1>1 DEF LexicoOrdenado, IdsDensos, Ordenado, IdsUnicos, Fases
<1> QED
  BY <1>2, <1>3, <1>4 DEF Inv

(* The record in hand, during a merge.                                     *)
LEMMA DatoEsRegistro ==
  ASSUME Inv, pc = "mezclar", HayDato
  PROVE  /\ archivo[fase] \in Seq(RegistroLexico)
         /\ pos \in 1 .. Len(archivo[fase])
         /\ Dato = archivo[fase][pos]
         /\ Dato \in RegistroLexico /\ Dato.id \in Nat /\ Dato.termino \in Palabras
         /\ Dato.id \in 1 .. Len(archivo[fase])
<1>1. archivo[fase] \in Seq(RegistroLexico) /\ fase \in Fases
  BY DEF Inv, TypeOK
<1>2. pos \in 1 .. Len(archivo[fase])
  BY <1>1 DEF Inv, TypeOK, MezclaCorrecta, HayDato
<1>3. Dato \in RegistroLexico
  BY <1>1, <1>2 DEF Dato
<1>4. Dato.id \in 1 .. Len(archivo[fase])
  BY <1>1, <1>2 DEF Dato, Inv, IdsDensos, IdsUnicos
<1> QED
  BY <1>1, <1>2, <1>3, <1>4 DEF Dato, RegistroLexico

(* Starting a merge.                                                       *)
LEMMA EmpezarMergeConserva ==
  ASSUME Inv, NEW f \in Rutas \cup RutasStop, EmpezarMerge(f)
  PROVE  Inv'
<1>1. contenido[f] \in WordPair /\ DOMAIN contenido[f] \subseteq Palabras
  BY DEF Inv, TypeOK, EmpezarMerge, WordPair
<1>2. archivo[fase] \in Seq(RegistroLexico) /\ Len(archivo[fase]) \in Nat
  BY DEF Inv, TypeOK
<1>3. TypeOK'
  BY <1>1, <1>2 DEF Inv, TypeOK, EmpezarMerge, EsVector, Vacia, PrimerId
<1>4. Contexto'
  BY <1>2 DEF Inv, Contexto, EmpezarMerge, RutasDeFase, PrimerId
<1>5. MezclaCorrecta'
  BY <1>2 DEF MezclaCorrecta, EmpezarMerge, Ordenado, PrimerId
<1>6. LexicoOrdenado' /\ IdsDensos' /\ DocLexOK'
  BY DEF Inv, LexicoOrdenado, IdsDensos, DocLexOK, EmpezarMerge
<1> QED
  BY <1>3, <1>4, <1>5, <1>6 DEF Inv

(* Copying the record in hand, whether or not a word of the file matches.  *)
LEMMA CopiarDato ==
  ASSUME Inv, pc = "mezclar", HayDato,
         tempLexico' = Escribir(tempLexico, Dato.id, Dato.termino),
         pos' = pos + 1, pc' = pc,
         UNCHANGED <<archivo, fase, nextId>>,
         curr' \subseteq curr,
         \A w \in curr' : Dato.termino < w
  PROVE  /\ tempLexico' \in Seq(RegistroLexico)
         /\ MezclaCorrecta'
<1> DEFINE viejo == archivo[fase]
           n == Len(tempLexico)
<1>0. tempLexico \in Seq(RegistroLexico) /\ viejo \in Seq(RegistroLexico)
  BY DatoEsRegistro DEF Inv, TypeOK
<1>1. /\ n \in Nat /\ DOMAIN tempLexico = 1 .. n
      /\ Len(viejo) \in Nat /\ DOMAIN viejo = 1 .. Len(viejo) /\ nextId \in Nat
      /\ curr \subseteq Palabras /\ Palabras \subseteq Int
      /\ \A i \in 1 .. n : tempLexico[i] \in RegistroLexico
      /\ \A j \in 1 .. Len(viejo) : viejo[j] \in RegistroLexico
  BY <1>0, PalabrasSonOrdenadas DEF Inv, TypeOK
<1>2. /\ pos \in 1 .. Len(viejo) /\ Dato = viejo[pos] /\ Dato.id \in 1 .. Len(viejo)
      /\ Dato \in RegistroLexico /\ Dato.termino \in Palabras
      /\ Dato = [id |-> Dato.id, termino |-> Dato.termino]
  BY DatoEsRegistro DEF RegistroLexico
<1>3. /\ tempLexico' \in Seq(RegistroLexico) /\ Len(tempLexico') = n + 1
      /\ DOMAIN tempLexico' = 1 .. n + 1
      /\ tempLexico'[n + 1] = Dato
      /\ \A i \in 1 .. n : tempLexico'[i] = tempLexico[i]
  <2>1. Dato.id \in Nat /\ Dato.id > 0
    BY <1>1, <1>2
  <2>2. /\ tempLexico' \in Seq(RegistroLexico) /\ Len(tempLexico') = Len(tempLexico) + 1
        /\ DOMAIN tempLexico' = 1 .. Len(tempLexico) + 1
        /\ tempLexico'[Len(tempLexico) + 1] = [id |-> Dato.id, termino |-> Dato.termino]
        /\ \A i \in DOMAIN tempLexico : tempLexico'[i] = tempLexico[i]
    <3>1. tempLexico \in Seq(RegistroLexico) /\ Dato.termino \in Palabras
      BY <1>0, <1>2
    <3> DEFINE id == Dato.id
               w == Dato.termino
    <3>2. id \in Nat /\ id > 0 /\ w \in Palabras /\ tempLexico' = Escribir(tempLexico, id, w)
      BY <2>1, <3>1
    <3> HIDE DEF id, w
    <3>3. /\ tempLexico' \in Seq(RegistroLexico) /\ Len(tempLexico') = Len(tempLexico) + 1
          /\ DOMAIN tempLexico' = 1 .. Len(tempLexico) + 1
          /\ tempLexico'[Len(tempLexico) + 1] = [id |-> id, termino |-> w]
          /\ \A i \in DOMAIN tempLexico : tempLexico'[i] = tempLexico[i]
      <4>1. /\ Escribir(tempLexico, id, w) \in Seq(RegistroLexico)
            /\ Len(Escribir(tempLexico, id, w)) = Len(tempLexico) + 1
            /\ DOMAIN Escribir(tempLexico, id, w) = 1 .. Len(tempLexico) + 1
            /\ Escribir(tempLexico, id, w)[Len(tempLexico) + 1] = [id |-> id, termino |-> w]
            /\ \A i \in DOMAIN tempLexico : Escribir(tempLexico, id, w)[i] = tempLexico[i]
        BY <3>1, <3>2, EscribirAgrega
      <4> QED
        BY <3>2, <4>1, Zenon
    <3> QED
      BY <3>3 DEF id, w
  <2> QED
    BY <1>1, <1>2, <2>2, Zenon
<1>4. MezclaCorrecta
  BY DEF Inv
<1>5. Ordenado(viejo) /\ IdsUnicos(viejo)
  BY DEF Inv, LexicoOrdenado, IdsDensos, TypeOK
<1>6. \A i \in 1 .. n : tempLexico[i].id # Dato.id
  <2> SUFFICES ASSUME NEW i \in 1 .. n, tempLexico[i].id = Dato.id PROVE FALSE
    OBVIOUS
  <2>1. tempLexico[i].id \notin Len(viejo) + 1 .. nextId - 1
    BY <1>1, <1>2
  <2>2. PICK j \in 1 .. pos - 1 : tempLexico[i] = viejo[j]
    BY <1>1, <1>4, <2>1 DEF MezclaCorrecta
  <2>3. j \in DOMAIN viejo /\ pos \in DOMAIN viejo /\ viejo[j].id = viejo[pos].id
    BY <1>1, <1>2, <2>2
  <2> QED
    BY <1>2, <1>5, <2>3 DEF IdsUnicos
<1>7. HayDato' => Dato.termino < Dato'.termino
  <2> SUFFICES ASSUME HayDato' PROVE Dato.termino < Dato'.termino
    OBVIOUS
  <2>1. pos + 1 \in DOMAIN viejo /\ pos \in DOMAIN viejo /\ Dato' = viejo[pos + 1]
    BY <1>1, <1>2 DEF HayDato, Dato
  <2> QED
    BY <1>1, <1>2, <1>5, <2>1 DEF Ordenado
<1>8. \A i \in 1 .. n : tempLexico[i].termino < Dato.termino /\ tempLexico[i].termino \in Int
  <2>1. \A i \in 1 .. n : tempLexico[i] \in RegistroLexico
    BY <1>1
  <2>2. \A i \in 1 .. n : tempLexico[i].termino < Dato.termino
    BY <1>1, <1>4 DEF MezclaCorrecta
  <2> QED
    BY <1>1, <2>1, <2>2 DEF RegistroLexico
<1>9. Dato.termino \in Int /\ (HayDato' => Dato'.termino \in Int)
  <2>1. HayDato' => Dato' \in RegistroLexico
    BY <1>1, <1>2 DEF HayDato, Dato
  <2> QED
    BY <1>1, <1>2, <2>1 DEF RegistroLexico
<1>10. viejo' = viejo /\ nextId' = nextId /\ pos' = pos + 1 /\ fase' = fase /\ archivo' = archivo
  OBVIOUS
<1>11. MezclaCorrecta'
  <2>1. pos' \in 1 .. Len(viejo') + 1 /\ nextId' > Len(viejo')
        /\ Len(tempLexico') = (pos' - 1) + (nextId' - 1 - Len(viejo'))
    <3>1. nextId > Len(viejo) /\ n = (pos - 1) + (nextId - 1 - Len(viejo))
      BY <1>4 DEF MezclaCorrecta
    <3>2. pos \in 1 .. Len(viejo) /\ Len(tempLexico') = n + 1
      BY <1>2, <1>3
    <3> HIDE DEF viejo, n
    <3> QED
      BY <1>1, <1>10, <3>1, <3>2
  <2>2. \A i \in 1 .. n + 1 :
          \/ tempLexico'[i].id \in Len(viejo') + 1 .. nextId' - 1
          \/ \E j \in 1 .. pos' - 1 : tempLexico'[i] = viejo'[j]
    <3> SUFFICES ASSUME NEW i \in 1 .. n + 1
                 PROVE  \/ tempLexico'[i].id \in Len(viejo) + 1 .. nextId - 1
                        \/ \E j \in 1 .. pos : tempLexico'[i] = viejo[j]
      <4>1. pos' - 1 = pos
        BY <1>2, <1>10
      <4> QED
        BY <1>10, <4>1, Zenon
    <3>1. CASE i = n + 1
      <4>1. tempLexico'[i] = viejo[pos]
        BY <1>2, <1>3, <3>1, Zenon
      <4>2. pos \in 1 .. pos
        BY <1>2
      <4> QED
        BY <4>1, <4>2, Zenon
    <3>2. CASE i \in 1 .. n
      <4>1. \/ tempLexico[i].id \in Len(viejo) + 1 .. nextId - 1
            \/ \E j \in 1 .. pos - 1 : tempLexico[i] = viejo[j]
        BY <1>1, <1>4, <3>2 DEF MezclaCorrecta
      <4>2. tempLexico'[i] = tempLexico[i]
        BY <1>3, <3>2
      <4>3. \A j \in 1 .. pos - 1 : j \in 1 .. pos
        BY <1>2
      <4> QED
        BY <4>1, <4>2, <4>3, Zenon
    <3> QED
      BY <1>1, <3>1, <3>2
  <2>3. \A j \in 1 .. pos' - 1 : \E i \in 1 .. n + 1 : tempLexico'[i] = viejo'[j]
    <3> SUFFICES ASSUME NEW j \in 1 .. pos PROVE \E i \in 1 .. n + 1 : tempLexico'[i] = viejo[j]
      <4>1. pos' - 1 = pos
        BY <1>2, <1>10
      <4> QED
        BY <1>10, <4>1, Zenon
    <3>1. CASE j = pos
      BY <1>1, <1>2, <1>3, <3>1
    <3>2. CASE j \in 1 .. pos - 1
      <4>1. PICK i \in 1 .. n : tempLexico[i] = viejo[j]
        BY <1>1, <1>4, <3>2, Zenon DEF MezclaCorrecta
      <4>2. tempLexico'[i] = viejo[j] /\ i \in 1 .. n + 1
        BY <1>1, <1>3, <4>1
      <4> QED
        BY <4>2, Zenon
    <3> QED
      BY <1>1, <1>2, <3>1, <3>2
  <2>4. \A i, j \in 1 .. n + 1 : tempLexico'[i].id = tempLexico'[j].id => i = j
    <3>1. \A i, j \in 1 .. n : tempLexico[i].id = tempLexico[j].id => i = j
      BY <1>1, <1>4 DEF MezclaCorrecta
    <3> QED
      BY <1>1, <1>3, <1>6, <3>1
  <2>5. Ordenado(tempLexico')
    <3>1. Ordenado(tempLexico)
      BY <1>4 DEF MezclaCorrecta
    <3> QED
      BY <1>1, <1>3, <1>8, <3>1 DEF Ordenado
  <2>6. \A i \in 1 .. n + 1 :
          /\ HayDato' => tempLexico'[i].termino < Dato'.termino
          /\ \A w \in curr' : tempLexico'[i].termino < w
    <3>1. \A i \in 1 .. n : \A w \in curr : tempLexico[i].termino < w
      BY <1>1, <1>4 DEF MezclaCorrecta
    <3> QED
      BY <1>1, <1>3, <1>7, <1>8, <1>9, <3>1
  <2> QED
    BY <1>3, <1>10, <2>1, <2>2, <2>3, <2>4, <2>5, <2>6 DEF MezclaCorrecta
<1> QED
  BY <1>3, <1>11

LEMMA CoincideConserva == Inv /\ Coincide => Inv'
<1> SUFFICES ASSUME Inv, Coincide PROVE Inv'
  OBVIOUS
<1>1. PICK w \in curr :
        /\ EsActual(w) /\ Dato.termino = w
        /\ mergedItems' = Anotar(mergedItems, IdEscrito(tempLexico, Dato.id), contenido[ruta][w])
        /\ curr' = curr \ {w}
  BY DEF Coincide
<1>2. /\ pc = "mezclar" /\ HayDato /\ pos' = pos + 1
      /\ tempLexico' = Escribir(tempLexico, Dato.id, Dato.termino)
      /\ UNCHANGED <<contenido, fase, pendientes, archivo, pc, ruta, nextId, documentos, docLex>>
  BY DEF Coincide
<1>3. curr \subseteq Palabras /\ Palabras \subseteq Int
  BY PalabrasSonOrdenadas DEF Inv, TypeOK
<1>4. \A v \in curr' : Dato.termino < v
  BY <1>1, <1>3 DEF EsActual
<1>5. tempLexico' \in Seq(RegistroLexico) /\ MezclaCorrecta'
  BY <1>1, <1>2, <1>4, CopiarDato
<1>6. ruta \in DOMAIN contenido /\ contenido[ruta] \in WordPair /\ w \in DOMAIN contenido[ruta]
  <2>1. ruta \in Rutas \cup RutasStop /\ contenido[ruta] # Roto /\ curr \subseteq DOMAIN contenido[ruta]
    BY <1>2 DEF Inv, Contexto, RutasDeFase
  <2> QED
    BY <1>1, <2>1 DEF Inv, TypeOK
<1>7. contenido[ruta][w] \in Pesos
  BY <1>6 DEF WordPair
<1>8. IdEscrito(tempLexico, Dato.id) \in Nat /\ IdEscrito(tempLexico, Dato.id) > 0
  BY <1>2, DatoEsRegistro DEF IdEscrito
<1>9. EsVector(mergedItems')
  <2> DEFINE id == IdEscrito(tempLexico, Dato.id)
             peso == contenido[ruta][w]
  <2>1. EsVector(mergedItems) /\ mergedItems' = Anotar(mergedItems, id, peso)
    BY <1>1 DEF Inv, TypeOK
  <2>2. id \in Nat /\ id > 0 /\ peso \in Pesos
    BY <1>7, <1>8
  <2> HIDE DEF id, peso
  <2> QED
    BY <2>1, <2>2 DEF EsVector, Anotar
<1>10. TypeOK'
  BY <1>1, <1>2, <1>3, <1>5, <1>9 DEF Inv, TypeOK
<1>11. Contexto'
  BY <1>1, <1>2 DEF Inv, Contexto, RutasDeFase
<1>12. LexicoOrdenado' /\ IdsDensos' /\ DocLexOK'
  BY <1>2 DEF Inv, LexicoOrdenado, IdsDensos, DocLexOK
<1> QED
  BY <1>5, <1>10, <1>11, <1>12 DEF Inv

LEMMA ConservarViejoConserva == Inv /\ ConservarViejo => Inv'
<1> SUFFICES ASSUME Inv, ConservarViejo PROVE Inv'
  OBVIOUS
<1>1. tempLexico' \in Seq(RegistroLexico) /\ MezclaCorrecta'
  BY CopiarDato DEF ConservarViejo, EsViejo
<1>2. TypeOK'
  BY <1>1 DEF Inv, TypeOK, ConservarViejo
<1>3. Contexto'
  BY DEF Inv, Contexto, RutasDeFase, ConservarViejo
<1>4. LexicoOrdenado' /\ IdsDensos' /\ DocLexOK'
  BY DEF Inv, LexicoOrdenado, IdsDensos, DocLexOK, ConservarViejo
<1> QED
  BY <1>1, <1>2, <1>3, <1>4 DEF Inv

(* A word the lexicon lacks goes between the records written and the rest. *)
LEMMA EscribirNueva ==
  ASSUME Inv, pc = "mezclar",
         NEW w \in curr, EsNueva(w),
         curr' = curr \ {w},
         tempLexico' = Escribir(tempLexico, nextId, w), nextId' = nextId + 1,
         UNCHANGED <<archivo, fase, pc, pos>>
  PROVE  /\ tempLexico' \in Seq(RegistroLexico)
         /\ MezclaCorrecta'
<1> DEFINE viejo == archivo[fase]
           n == Len(tempLexico)
<1>0. tempLexico \in Seq(RegistroLexico) /\ viejo \in Seq(RegistroLexico)
  BY DEF Inv, TypeOK
<1>1. /\ n \in Nat /\ DOMAIN tempLexico = 1 .. n
      /\ Len(viejo) \in Nat /\ DOMAIN viejo = 1 .. Len(viejo)
      /\ \A i \in 1 .. n : tempLexico[i] \in RegistroLexico
      /\ nextId \in Nat /\ nextId > 0 /\ pos \in Nat
      /\ curr \subseteq Palabras /\ Palabras \subseteq Int /\ w \in Palabras
  BY <1>0, PalabrasSonOrdenadas DEF Inv, TypeOK, Contexto
<1>2. /\ tempLexico' \in Seq(RegistroLexico) /\ Len(tempLexico') = n + 1
      /\ DOMAIN tempLexico' = 1 .. n + 1
      /\ tempLexico'[n + 1].id = nextId /\ tempLexico'[n + 1].termino = w
      /\ \A i \in 1 .. n : tempLexico'[i] = tempLexico[i]
  <2>1. /\ tempLexico' \in Seq(RegistroLexico) /\ Len(tempLexico') = Len(tempLexico) + 1
        /\ DOMAIN tempLexico' = 1 .. Len(tempLexico) + 1
        /\ tempLexico'[Len(tempLexico) + 1] = [id |-> nextId, termino |-> w]
        /\ \A i \in DOMAIN tempLexico : tempLexico'[i] = tempLexico[i]
    <3>1. nextId \in Nat /\ nextId > 0 /\ w \in Palabras
      BY <1>1
    <3>2. /\ Escribir(tempLexico, nextId, w) \in Seq(RegistroLexico)
          /\ Len(Escribir(tempLexico, nextId, w)) = Len(tempLexico) + 1
          /\ DOMAIN Escribir(tempLexico, nextId, w) = 1 .. Len(tempLexico) + 1
          /\ Escribir(tempLexico, nextId, w)[Len(tempLexico) + 1] = [id |-> nextId, termino |-> w]
          /\ \A i \in DOMAIN tempLexico : Escribir(tempLexico, nextId, w)[i] = tempLexico[i]
      BY <1>0, <3>1, EscribirAgrega
    <3> QED
      BY <3>2, Zenon
  <2>2. tempLexico'[n + 1].id = nextId /\ tempLexico'[n + 1].termino = w
    BY <2>1
  <2> QED
    BY <1>1, <2>1, <2>2, Zenon
<1>3. MezclaCorrecta
  BY DEF Inv
<1>4. IdsUnicos(viejo)
  BY DEF Inv, IdsDensos, TypeOK
<1>5. viejo' = viejo /\ nextId' = nextId + 1 /\ pos' = pos /\ fase' = fase /\ archivo' = archivo
  OBVIOUS
<1>6. \A i \in 1 .. n : tempLexico[i].id # nextId
  <2> SUFFICES ASSUME NEW i \in 1 .. n, tempLexico[i].id = nextId PROVE FALSE
    OBVIOUS
  <2>1. nextId > Len(viejo)
    BY <1>3 DEF MezclaCorrecta
  <2>2. PICK j \in 1 .. pos - 1 : tempLexico[i] = viejo[j]
    BY <1>1, <1>3 DEF MezclaCorrecta
  <2>3. pos \in 1 .. Len(viejo) + 1
    BY <1>3 DEF MezclaCorrecta
  <2>4. j \in DOMAIN viejo
    <3> HIDE DEF viejo, n
    <3> QED
      BY <1>1, <2>2, <2>3
  <2>5. viejo[j].id \in 1 .. Len(viejo)
    BY <1>4, <2>4 DEF IdsUnicos
  <2> QED
    BY <1>1, <2>1, <2>2, <2>5
<1>7. \A i \in 1 .. n : tempLexico[i].termino < w /\ tempLexico[i].termino \in Int
  <2>1. \A i \in 1 .. n : tempLexico[i] \in RegistroLexico
    BY <1>1
  <2>2. \A i \in 1 .. n : tempLexico[i].termino < w
    BY <1>1, <1>3 DEF MezclaCorrecta
  <2> QED
    BY <1>1, <2>1, <2>2 DEF RegistroLexico
<1>8. HayDato => w < Dato.termino
  <2> SUFFICES ASSUME HayDato PROVE w < Dato.termino
    OBVIOUS
  <2>1. Dato.termino \in Palabras
    BY DatoEsRegistro
  <2>2. Dato.termino > w
    BY DEF EsNueva
  <2> QED
    BY <1>1, <2>1, <2>2
<1>9. \A v \in curr' : w < v
  BY <1>1 DEF EsNueva, EsActual
<1>10. pos \in 1 .. Len(viejo) + 1 /\ nextId > Len(viejo)
       /\ n = (pos - 1) + (nextId - 1 - Len(viejo))
  BY <1>3 DEF MezclaCorrecta
<1>11. \A i \in 1 .. n :
         \/ tempLexico[i].id \in Len(viejo) + 1 .. nextId - 1
         \/ \E j \in 1 .. pos - 1 : tempLexico[i] = viejo[j]
  BY <1>1, <1>3 DEF MezclaCorrecta
<1>12. \A j \in 1 .. pos - 1 : \E i \in 1 .. n : tempLexico[i] = viejo[j]
  BY <1>1, <1>3 DEF MezclaCorrecta
<1>13. \A i, j \in 1 .. n : tempLexico[i].id = tempLexico[j].id => i = j
  BY <1>1, <1>3 DEF MezclaCorrecta
<1>14. \A i, j \in 1 .. n : i < j => tempLexico[i].termino < tempLexico[j].termino
  BY <1>1, <1>3 DEF MezclaCorrecta, Ordenado
<1>15. \A i \in 1 .. n :
         /\ HayDato => tempLexico[i].termino < Dato.termino
         /\ \A v \in curr : tempLexico[i].termino < v
  BY <1>1, <1>3 DEF MezclaCorrecta
<1>16. MezclaCorrecta'
  <2>1. pos' \in 1 .. Len(viejo') + 1 /\ nextId' > Len(viejo')
        /\ Len(tempLexico') = (pos' - 1) + (nextId' - 1 - Len(viejo'))
    <3>1. Len(tempLexico') = n + 1
      BY <1>2
    <3> HIDE DEF viejo, n
    <3> QED
      BY <1>1, <1>5, <1>10, <3>1
  <2>2. \A i \in 1 .. n + 1 :
          \/ tempLexico'[i].id \in Len(viejo') + 1 .. nextId' - 1
          \/ \E j \in 1 .. pos' - 1 : tempLexico'[i] = viejo'[j]
    <3> SUFFICES ASSUME NEW i \in 1 .. n + 1
                 PROVE  \/ tempLexico'[i].id \in Len(viejo) + 1 .. nextId
                        \/ \E j \in 1 .. pos - 1 : tempLexico'[i] = viejo[j]
      BY <1>1, <1>5
    <3>1. CASE i = n + 1
      <4>1. tempLexico'[i].id = nextId
        BY <1>2, <3>1
      <4> HIDE DEF viejo
      <4> QED
        BY <1>1, <1>10, <4>1
    <3>2. CASE i \in 1 .. n
      <4>1. tempLexico'[i] = tempLexico[i]
        BY <1>2, <3>2
      <4>2. CASE tempLexico[i].id \in Len(viejo) + 1 .. nextId - 1
        BY <1>1, <4>1, <4>2
      <4>3. CASE \E j \in 1 .. pos - 1 : tempLexico[i] = viejo[j]
        BY <4>1, <4>3
      <4> QED
        BY <1>11, <3>2, <4>2, <4>3
    <3> QED
      BY <1>1, <3>1, <3>2
  <2>3. \A j \in 1 .. pos' - 1 : \E i \in 1 .. n + 1 : tempLexico'[i] = viejo'[j]
    <3>1. \A i \in 1 .. n : i \in 1 .. n + 1
      BY <1>1
    <3> QED
      BY <1>2, <1>5, <1>12, <3>1
  <2>4. \A i, j \in 1 .. n + 1 : tempLexico'[i].id = tempLexico'[j].id => i = j
    <3>1. \A i \in 1 .. n + 1 : i = n + 1 \/ i \in 1 .. n
      BY <1>1
    <3> HIDE DEF n
    <3> QED
      BY <1>2, <1>6, <1>13, <3>1
  <2>5. \A i, j \in 1 .. n + 1 : i < j => tempLexico'[i].termino < tempLexico'[j].termino
    <3>1. \A i, j \in 1 .. n + 1 : i < j => i \in 1 .. n /\ (j = n + 1 \/ j \in 1 .. n)
      BY <1>1
    <3> HIDE DEF n
    <3> QED
      BY <1>2, <1>7, <1>14, <3>1
  <2>6. \A i \in 1 .. n + 1 :
          /\ HayDato' => tempLexico'[i].termino < Dato'.termino
          /\ \A v \in curr' : tempLexico'[i].termino < v
    <3>1. (HayDato' <=> HayDato) /\ (HayDato => Dato' = Dato) /\ curr' \subseteq curr
      BY <1>5 DEF HayDato, Dato
    <3>2. \A i \in 1 .. n + 1 : i = n + 1 \/ i \in 1 .. n
      BY <1>1
    <3> HIDE DEF n
    <3> QED
      BY <1>2, <1>8, <1>9, <1>15, <3>1, <3>2
  <2> QED
    BY <1>2, <1>5, <2>1, <2>2, <2>3, <2>4, <2>5, <2>6 DEF MezclaCorrecta, Ordenado
<1> QED
  BY <1>2, <1>16

LEMMA AgregarNuevaConserva == Inv /\ AgregarNueva => Inv'
<1> SUFFICES ASSUME Inv, AgregarNueva PROVE Inv'
  OBVIOUS
<1>1. PICK w \in curr :
        /\ EsNueva(w) /\ curr' = curr \ {w}
        /\ \/ EsStop(w) /\ UNCHANGED <<tempLexico, mergedItems, nextId>>
           \/ /\ tempLexico' = Escribir(tempLexico, nextId, w)
              /\ mergedItems' = Anotar(mergedItems, nextId, contenido[ruta][w])
              /\ nextId' = nextId + 1
  BY DEF AgregarNueva
<1>2. /\ pc = "mezclar"
      /\ UNCHANGED <<contenido, fase, pendientes, archivo, pc, ruta, pos, documentos, docLex>>
  BY DEF AgregarNueva
<1>3. ruta \in DOMAIN contenido /\ contenido[ruta] \in WordPair /\ w \in DOMAIN contenido[ruta]
  <2>1. ruta \in Rutas \cup RutasStop /\ contenido[ruta] # Roto /\ curr \subseteq DOMAIN contenido[ruta]
    BY <1>2 DEF Inv, Contexto, RutasDeFase
  <2> QED
    BY <1>1, <2>1 DEF Inv, TypeOK
<1>4. contenido[ruta][w] \in Pesos
  BY <1>3 DEF WordPair
<1>5. LexicoOrdenado' /\ IdsDensos' /\ DocLexOK'
  BY <1>2 DEF Inv, LexicoOrdenado, IdsDensos, DocLexOK
<1>6. CASE UNCHANGED <<tempLexico, mergedItems, nextId>>
  <2>1. TypeOK' /\ Contexto'
    BY <1>1, <1>2, <1>6 DEF Inv, TypeOK, Contexto, RutasDeFase, EsVector
  <2>2. MezclaCorrecta'
    BY <1>1, <1>2, <1>6 DEF Inv, MezclaCorrecta, HayDato, Dato
  <2> QED
    BY <1>5, <2>1, <2>2 DEF Inv
<1>7. CASE /\ tempLexico' = Escribir(tempLexico, nextId, w)
           /\ mergedItems' = Anotar(mergedItems, nextId, contenido[ruta][w])
           /\ nextId' = nextId + 1
  <2>1. tempLexico' \in Seq(RegistroLexico) /\ MezclaCorrecta'
    BY <1>1, <1>2, <1>7, EscribirNueva
  <2>2. EsVector(mergedItems')
    BY <1>4, <1>7 DEF Inv, TypeOK, Contexto, EsVector, Anotar
  <2>3. TypeOK'
    BY <1>1, <1>2, <1>7, <2>1, <2>2 DEF Inv, TypeOK
  <2>4. Contexto'
    BY <1>1, <1>2, <1>7 DEF Inv, TypeOK, Contexto, RutasDeFase
  <2> QED
    BY <1>5, <2>1, <2>3, <2>4 DEF Inv
<1> QED
  BY <1>1, <1>6, <1>7

(* When the merge is over the temporary file is a correct lexicon, with    *)
(* every old record in it.                                                 *)
LEMMA MezclaTerminada ==
  ASSUME Inv, pc = "mezclar", ~HayDato
  PROVE  /\ Ordenado(tempLexico) /\ IdsUnicos(tempLexico)
         /\ Rango(archivo[fase]) \subseteq Rango(tempLexico)
<1> DEFINE viejo == archivo[fase]
           n == Len(tempLexico)
<1>1. /\ tempLexico \in Seq(RegistroLexico) /\ n \in Nat /\ DOMAIN tempLexico = 1 .. n
      /\ viejo \in Seq(RegistroLexico) /\ Len(viejo) \in Nat /\ DOMAIN viejo = 1 .. Len(viejo)
      /\ nextId \in Nat /\ pos \in Nat
  BY DEF Inv, TypeOK
<1>2. MezclaCorrecta /\ IdsUnicos(viejo)
  BY DEF Inv, IdsDensos, TypeOK
<1>3. pos - 1 = Len(viejo) /\ nextId - 1 = n /\ Len(viejo) <= n
  <2>1. pos \in 1 .. Len(viejo) + 1 /\ nextId > Len(viejo) /\ ~(pos <= Len(viejo))
        /\ n = (pos - 1) + (nextId - 1 - Len(viejo))
    BY <1>2 DEF MezclaCorrecta, HayDato
  <2> HIDE DEF viejo, n
  <2> QED
    BY <1>1, <2>1
<1>4. \A i \in 1 .. n : tempLexico[i].id \in 1 .. n
  <2> SUFFICES ASSUME NEW i \in 1 .. n PROVE tempLexico[i].id \in 1 .. n
    OBVIOUS
  <2>1. CASE tempLexico[i].id \in Len(viejo) + 1 .. nextId - 1
    <3> HIDE DEF viejo, n
    <3> QED
      BY <1>1, <1>3, <2>1
  <2>2. CASE \E j \in 1 .. pos - 1 : tempLexico[i] = viejo[j]
    <3>1. tempLexico[i].id \in 1 .. Len(viejo)
      BY <1>1, <1>2, <1>3, <2>2 DEF IdsUnicos
    <3> HIDE DEF viejo, n
    <3> QED
      BY <1>1, <1>3, <3>1
  <2> QED
    BY <1>1, <1>2, <2>1, <2>2 DEF MezclaCorrecta
<1>5. Ordenado(tempLexico) /\ IdsUnicos(tempLexico)
  BY <1>1, <1>2, <1>4 DEF MezclaCorrecta, IdsUnicos
<1>6. Rango(viejo) \subseteq Rango(tempLexico)
  BY <1>1, <1>2, <1>3 DEF MezclaCorrecta, Rango
<1> QED
  BY <1>5, <1>6

LEMMA ReemplazarConserva == Inv /\ Reemplazar => Inv'
<1> SUFFICES ASSUME Inv, Reemplazar PROVE Inv'
  OBVIOUS
<1>1. /\ pc = "mezclar" /\ ~HayDato
      /\ archivo' = [archivo EXCEPT ![fase] = tempLexico]
      /\ (pc' = "grabar" /\ fase = "lex") \/ pc' = "escanear"
      /\ UNCHANGED <<contenido, fase, pendientes, ruta, merge, documentos, docLex>>
  BY DEF Reemplazar, HayQueGrabar
<1>2. fase \in Fases /\ archivo \in [Fases -> Seq(RegistroLexico)] /\ tempLexico \in Seq(RegistroLexico)
  BY DEF Inv, TypeOK
<1>3. TypeOK'
  BY <1>1, <1>2 DEF Inv, TypeOK, merge
<1>4. Contexto'
  BY <1>1 DEF Inv, Contexto, RutasDeFase, merge
<1>5. MezclaCorrecta'
  BY <1>1 DEF MezclaCorrecta
<1>6. \A f \in Fases : archivo'[f] = IF f = fase THEN tempLexico ELSE archivo[f]
  BY <1>1, <1>2
<1>7. LexicoOrdenado' /\ IdsDensos' /\ DocLexOK'
  BY <1>1, <1>6, MezclaTerminada DEF Inv, LexicoOrdenado, IdsDensos, DocLexOK
<1> QED
  BY <1>3, <1>4, <1>5, <1>7 DEF Inv

LEMMA GrabarDocumentoConserva == Inv /\ GrabarDocumento => Inv'
<1> SUFFICES ASSUME Inv, GrabarDocumento PROVE Inv'
  OBVIOUS
<1> DEFINE newDocId == Len(documentos) + 1
<1>1. /\ documentos' = Append(documentos, [id |-> newDocId, ruta |-> ruta])
      /\ docLex' = Append(docLex, [id |-> newDocId, terminos |-> mergedItems])
      /\ pc = "grabar" /\ pc' = "escanear"
      /\ UNCHANGED <<contenido, fase, pendientes, archivo, ruta, merge>>
  BY DEF GrabarDocumento
<1>2. ruta \in Rutas
  BY <1>1 DEF Inv, Contexto, RutasDeFase
<1>3. documentos \in Seq([id : Nat, ruta : Rutas]) /\ newDocId \in Nat
  BY DEF Inv, TypeOK
<1>4. documentos' \in Seq([id : Nat, ruta : Rutas]) /\ DOMAIN documentos' = 1 .. newDocId
  BY <1>1, <1>2, <1>3
<1>5. docLex \in Seq(RegistroDocLex) /\ EsVector(mergedItems)
  BY DEF Inv, TypeOK, DocLexOK
<1>6. [id |-> newDocId, terminos |-> mergedItems] \in RegistroDocLex
  BY <1>3, <1>5 DEF RegistroDocLex, LexicalPair, EsVector
<1>7. DocLexOK' /\ DOMAIN docLex' = 1 .. Len(docLex) + 1
  BY <1>1, <1>5, <1>6 DEF DocLexOK
<1>8. \A i \in DOMAIN docLex' : docLex'[i].id \in DOMAIN documentos' /\ EsVector(docLex'[i].terminos)
  <2> SUFFICES ASSUME NEW i \in DOMAIN docLex'
               PROVE  docLex'[i].id \in DOMAIN documentos' /\ EsVector(docLex'[i].terminos)
    OBVIOUS
  <2>1. CASE i = Len(docLex) + 1
    <3>1. docLex'[i] = [id |-> newDocId, terminos |-> mergedItems]
      BY <1>1, <1>5, <2>1
    <3>2. docLex'[i].id = newDocId /\ docLex'[i].terminos = mergedItems
      BY <3>1
    <3> QED
      BY <1>3, <1>4, <1>5, <3>2
  <2>2. CASE i \in DOMAIN docLex
    <3>1. docLex'[i] = docLex[i]
      BY <1>1, <1>5, <2>2
    <3>2. docLex[i].id \in DOMAIN documentos /\ EsVector(docLex[i].terminos)
      BY <2>2 DEF Inv, TypeOK
    <3> QED
      BY <1>3, <1>4, <3>1, <3>2
  <2> QED
    BY <1>5, <1>7, <2>1, <2>2
<1>9. TypeOK'
  BY <1>1, <1>4, <1>8 DEF Inv, TypeOK, merge
<1>10. Contexto' /\ MezclaCorrecta' /\ LexicoOrdenado' /\ IdsDensos'
  BY <1>1 DEF Inv, Contexto, RutasDeFase, MezclaCorrecta, LexicoOrdenado, IdsDensos, merge
<1> QED
  BY <1>7, <1>9, <1>10 DEF Inv

LEMMA OtrosConservan ==
  ASSUME Inv
  PROVE  /\ \A f \in Rutas \cup RutasStop : ArchivoRoto(f) => Inv'
         /\ IndexarDocumentos => Inv'
         /\ UNCHANGED vars => Inv'
<1>1. ASSUME NEW f \in Rutas \cup RutasStop, ArchivoRoto(f) PROVE Inv'
  BY <1>1 DEF Inv, TypeOK, DocLexOK, Contexto, RutasDeFase, MezclaCorrecta, HayDato, Dato,
              LexicoOrdenado, IdsDensos, ArchivoRoto, merge
<1>2. ASSUME IndexarDocumentos PROVE Inv'
  BY <1>2 DEF Inv, TypeOK, DocLexOK, Contexto, RutasDeFase, MezclaCorrecta, Fases,
              LexicoOrdenado, IdsDensos, IndexarDocumentos, merge
<1>3. ASSUME UNCHANGED vars PROVE Inv'
  BY <1>3 DEF Inv, TypeOK, DocLexOK, Contexto, RutasDeFase, MezclaCorrecta, HayDato, Dato,
              LexicoOrdenado, IdsDensos, vars, merge
<1> QED
  BY <1>1, <1>2, <1>3

LEMMA PasoConserva == Inv /\ [Next]_vars => Inv'
<1> SUFFICES ASSUME Inv, [Next]_vars PROVE Inv'
  OBVIOUS
<1>1. CASE \E f \in Rutas \cup RutasStop : ArchivoRoto(f) \/ EmpezarMerge(f)
  BY <1>1, OtrosConservan, EmpezarMergeConserva
<1>2. CASE Coincide \/ ConservarViejo \/ AgregarNueva
  BY <1>2, CoincideConserva, ConservarViejoConserva, AgregarNuevaConserva
<1>3. CASE Reemplazar \/ GrabarDocumento
  BY <1>3, ReemplazarConserva, GrabarDocumentoConserva
<1>4. CASE IndexarDocumentos \/ UNCHANGED vars
  BY <1>4, OtrosConservan
<1> QED
  BY <1>1, <1>2, <1>3, <1>4 DEF Next

THEOREM InvSiempre == Spec => []Inv
<1>1. Init => Inv
  BY InicioInv
<1>2. Inv /\ [Next]_vars => Inv'
  BY PasoConserva
<1> QED
  BY <1>1, <1>2, PTL DEF Spec

(* Every variable keeps its type: no id 0, no record outside the lexicon's *)
(* words, no vector without a document.                                    *)
THEOREM TiposCorrectos == Spec => []TypeOK
<1>1. Inv => TypeOK
  BY DEF Inv
<1> QED
  BY <1>1, InvSiempre, PTL

(* Both lexicon files are strictly sorted whenever they are not being      *)
(* replaced, whatever files were merged and in whatever order.             *)
THEOREM SiempreOrdenado == Spec => []LexicoOrdenado
<1>1. Inv => LexicoOrdenado
  BY DEF Inv
<1> QED
  BY <1>1, InvSiempre, PTL

(* Ids are unique and dense in both files.                                 *)
THEOREM SiempreIdsDensos == Spec => []IdsDensos
<1>1. Inv => IdsDensos
  BY DEF Inv
<1> QED
  BY <1>1, InvSiempre, PTL

(* The invariant of mergeWith's loops.                                     *)
THEOREM SiempreMezclaCorrecta == Spec => []MezclaCorrecta
<1>1. Inv => MezclaCorrecta
  BY DEF Inv
<1> QED
  BY <1>1, InvSiempre, PTL

(* No step loses a record of a lexicon file or changes its id: what a      *)
(* document vector means never changes.                                    *)
THEOREM SiempreIdsEstables == Spec => IdsEstables
<1> DEFINE Estable == \A f \in Fases : Rango(archivo[f]) \subseteq Rango(archivo'[f])
<1>1. Inv /\ [Next]_vars => [Estable]_vars
  <2> SUFFICES ASSUME Inv, [Next]_vars PROVE Estable
    OBVIOUS
  <2>1. CASE Reemplazar
    <3>1. \A f \in Fases : archivo'[f] = IF f = fase THEN tempLexico ELSE archivo[f]
      BY <2>1 DEF Reemplazar, Inv, TypeOK
    <3>2. Rango(archivo[fase]) \subseteq Rango(tempLexico)
      BY <2>1, MezclaTerminada DEF Reemplazar
    <3> QED
      BY <3>1, <3>2
  <2>2. CASE UNCHANGED archivo
    BY <2>2
  <2>3. Reemplazar \/ UNCHANGED archivo
    BY DEF Next, vars, merge, ArchivoRoto, EmpezarMerge, Coincide, ConservarViejo, AgregarNueva,
           GrabarDocumento, IndexarDocumentos
  <2> QED
    BY <2>1, <2>2, <2>3
<1> QED
  BY <1>1, InvSiempre, PTL DEF Spec, IdsEstables

-----------------------------------------------------------------------------
(* The vectors of the documents.                                           *)

(* What buscarTermino is meant to answer for the records from minimo to    *)
(* maximo, counted from 0.                                                 *)
Hallado(lexico, word, minimo, maximo) ==
  IF \E i \in minimo + 1 .. maximo + 1 : lexico[i].termino = word
  THEN lexico[CHOOSE i \in minimo + 1 .. maximo + 1 : lexico[i].termino = word].id
  ELSE 0

LEMMA HalladoUnico ==
  ASSUME NEW lexico \in Seq(RegistroLexico), Ordenado(lexico), NEW word \in Palabras,
         NEW m \in 0 .. Len(lexico), NEW M \in -1 .. Len(lexico) - 1,
         NEW i \in m + 1 .. M + 1, lexico[i].termino = word
  PROVE  Hallado(lexico, word, m, M) = lexico[i].id
<1>1. \A j \in m + 1 .. M + 1 : lexico[j].termino = word => j = i
  <2> SUFFICES ASSUME NEW j \in m + 1 .. M + 1, lexico[j].termino = word, j # i PROVE FALSE
    OBVIOUS
  <2>1. i \in DOMAIN lexico /\ j \in DOMAIN lexico
    OBVIOUS
  <2>2. word \in Int
    BY PalabrasSonOrdenadas
  <2>3. i < j \/ j < i
    OBVIOUS
  <2> QED
    BY <2>1, <2>2, <2>3 DEF Ordenado
<1> DEFINE c == CHOOSE j \in m + 1 .. M + 1 : lexico[j].termino = word
<1>2. c \in m + 1 .. M + 1 /\ lexico[c].termino = word
  OBVIOUS
<1>3. c = i
  BY <1>1, <1>2
<1> QED
  BY <1>3 DEF Hallado

(* One probe: the answer for a stretch is the record in its middle or the  *)
(* answer for the half that can hold the word.                             *)
LEMMA Mitades ==
  ASSUME NEW lexico \in Seq(RegistroLexico), Ordenado(lexico), NEW word \in Palabras,
         NEW m \in 0 .. Len(lexico), NEW M \in -1 .. Len(lexico) - 1, m <= M,
         NEW p, p = (M + m) \div 2
  PROVE  /\ p \in m .. M /\ p + 1 \in DOMAIN lexico
         /\ lexico[p + 1].termino = word => Hallado(lexico, word, m, M) = lexico[p + 1].id
         /\ word > lexico[p + 1].termino => Hallado(lexico, word, m, M) = Hallado(lexico, word, p + 1, M)
         /\ (lexico[p + 1].termino # word /\ ~ (word > lexico[p + 1].termino))
               => Hallado(lexico, word, m, M) = Hallado(lexico, word, m, p - 1)
<1>1. p \in m .. M /\ p + 1 \in DOMAIN lexico /\ p + 1 \in m + 1 .. M + 1
  OBVIOUS
<1>2. \A i \in DOMAIN lexico : lexico[i].termino \in Int
  <2>1. \A i \in DOMAIN lexico : lexico[i] \in RegistroLexico
    OBVIOUS
  <2> QED
    BY <2>1, PalabrasSonOrdenadas DEF RegistroLexico
<1>3. word \in Int
  BY PalabrasSonOrdenadas
<1>4. ASSUME lexico[p + 1].termino = word PROVE Hallado(lexico, word, m, M) = lexico[p + 1].id
  BY <1>1, <1>4, HalladoUnico
<1>5. ASSUME word > lexico[p + 1].termino PROVE Hallado(lexico, word, m, M) = Hallado(lexico, word, p + 1, M)
  <2>1. p + 1 \in 0 .. Len(lexico)
    BY <1>1
  <2>2. \A i \in m + 1 .. M + 1 : lexico[i].termino = word => i \in p + 2 .. M + 1
    <3> SUFFICES ASSUME NEW i \in m + 1 .. M + 1, lexico[i].termino = word, i < p + 2 PROVE FALSE
      BY <1>1
    <3>1. i \in DOMAIN lexico /\ (i < p + 1 \/ i = p + 1)
      BY <1>1
    <3> QED
      BY <1>1, <1>2, <1>3, <1>5, <3>1 DEF Ordenado
  <2>3. CASE \E i \in m + 1 .. M + 1 : lexico[i].termino = word
    <3>1. PICK i \in m + 1 .. M + 1 : lexico[i].termino = word
      BY <2>3
    <3>2. i \in (p + 1) + 1 .. M + 1
      BY <1>1, <2>2, <3>1
    <3>3. Hallado(lexico, word, m, M) = lexico[i].id
      BY <3>1, HalladoUnico
    <3>4. Hallado(lexico, word, p + 1, M) = lexico[i].id
      BY <2>1, <3>1, <3>2, HalladoUnico
    <3> QED
      BY <3>3, <3>4
  <2>4. CASE ~ \E i \in m + 1 .. M + 1 : lexico[i].termino = word
    <3>1. ~ \E i \in (p + 1) + 1 .. M + 1 : lexico[i].termino = word
      BY <1>1, <2>4
    <3> QED
      BY <2>4, <3>1 DEF Hallado
  <2> QED
    BY <2>3, <2>4
<1>6. ASSUME lexico[p + 1].termino # word, ~ (word > lexico[p + 1].termino)
      PROVE  Hallado(lexico, word, m, M) = Hallado(lexico, word, m, p - 1)
  <2>0. word < lexico[p + 1].termino
    BY <1>1, <1>2, <1>3, <1>6
  <2>1. p - 1 \in -1 .. Len(lexico) - 1
    BY <1>1
  <2>2. \A i \in m + 1 .. M + 1 : lexico[i].termino = word => i \in m + 1 .. (p - 1) + 1
    <3> SUFFICES ASSUME NEW i \in m + 1 .. M + 1, lexico[i].termino = word, i > p PROVE FALSE
      BY <1>1
    <3>1. i \in DOMAIN lexico /\ (i > p + 1 \/ i = p + 1)
      BY <1>1
    <3> QED
      BY <1>1, <1>2, <1>3, <2>0, <3>1 DEF Ordenado
  <2>3. CASE \E i \in m + 1 .. M + 1 : lexico[i].termino = word
    <3>1. PICK i \in m + 1 .. M + 1 : lexico[i].termino = word
      BY <2>3
    <3>2. i \in m + 1 .. (p - 1) + 1
      BY <1>1, <2>2, <3>1
    <3>3. Hallado(lexico, word, m, M) = lexico[i].id
      BY <3>1, HalladoUnico
    <3>4. Hallado(lexico, word, m, p - 1) = lexico[i].id
      BY <2>1, <3>1, <3>2, HalladoUnico
    <3> QED
      BY <3>3, <3>4
  <2>4. CASE ~ \E i \in m + 1 .. M + 1 : lexico[i].termino = word
    <3>1. ~ \E i \in m + 1 .. (p - 1) + 1 : lexico[i].termino = word
      BY <1>1, <2>4
    <3> QED
      BY <2>4, <3>1 DEF Hallado
  <2> QED
    BY <2>3, <2>4
<1> QED
  BY <1>1, <1>4, <1>5, <1>6

(* The binary search over a sorted file answers the id of the word's       *)
(* record, 0 when there is none.  The function that answers Hallado        *)
(* satisfies the recursive equation, and only one function does: two that  *)
(* differ would differ on a shortest stretch.                              *)
LEMMA BuscarTerminoHalla ==
  ASSUME NEW lexico \in Seq(RegistroLexico), Ordenado(lexico), NEW word \in Palabras
  PROVE  BuscarTermino(lexico, word) = Hallado(lexico, word, 0, Len(lexico) - 1)
<1> DEFINE D == (0 .. Len(lexico)) \X (-1 .. Len(lexico) - 1)
           medio(r) == (r[2] + r[1]) \div 2
           F(f, r) == IF r[1] > r[2] THEN 0
                      ELSE IF lexico[medio(r) + 1].termino = word THEN lexico[medio(r) + 1].id
                      ELSE IF word > lexico[medio(r) + 1].termino THEN f[<<medio(r) + 1, r[2]>>]
                      ELSE f[<<r[1], medio(r) - 1>>]
           g == [r \in D |-> Hallado(lexico, word, r[1], r[2])]
           impl == CHOOSE f : f = [r \in D |-> F(f, r)]
<1>0. Len(lexico) \in Nat
  OBVIOUS
<1>1. BuscarTermino(lexico, word) = impl[<<0, Len(lexico) - 1>>]
  BY DEF BuscarTermino
<1>2. ASSUME NEW r \in D, r[1] <= r[2]
      PROVE  /\ medio(r) \in r[1] .. r[2]
             /\ <<medio(r) + 1, r[2]>> \in D /\ <<r[1], medio(r) - 1>> \in D
             /\ r[1] \in 0 .. Len(lexico) /\ r[2] \in -1 .. Len(lexico) - 1
  BY <1>0, <1>2
<1>3. \A r \in D : g[r] = F(g, r)
  <2> SUFFICES ASSUME NEW r \in D PROVE g[r] = F(g, r)
    OBVIOUS
  <2>1. CASE r[1] > r[2]
    BY <1>0, <2>1 DEF Hallado
  <2>2. CASE r[1] <= r[2]
    <3> DEFINE p == medio(r)
               m == r[1]
               M == r[2]
    <3>1. /\ p \in m .. M /\ <<p + 1, M>> \in D /\ <<m, p - 1>> \in D
          /\ m \in 0 .. Len(lexico) /\ M \in -1 .. Len(lexico) - 1 /\ m <= M /\ p = (M + m) \div 2
      BY <1>2, <2>2
    <3>2. g[<<p + 1, M>>] = Hallado(lexico, word, p + 1, M) /\ g[<<m, p - 1>>] = Hallado(lexico, word, m, p - 1)
          /\ g[r] = Hallado(lexico, word, m, M)
      BY <3>1
    <3> HIDE DEF p, m, M, g
    <3>3. /\ p \in m .. M /\ p + 1 \in DOMAIN lexico
          /\ lexico[p + 1].termino = word => Hallado(lexico, word, m, M) = lexico[p + 1].id
          /\ word > lexico[p + 1].termino => Hallado(lexico, word, m, M) = Hallado(lexico, word, p + 1, M)
          /\ (lexico[p + 1].termino # word /\ ~ (word > lexico[p + 1].termino))
               => Hallado(lexico, word, m, M) = Hallado(lexico, word, m, p - 1)
      <4> HIDE DEF D, F, medio
      <4>1. m \in 0 .. Len(lexico) /\ M \in -1 .. Len(lexico) - 1 /\ m <= M /\ p = (M + m) \div 2
        BY <3>1
      <4>2. PICK m0, M0, p0 : m0 = m /\ M0 = M /\ p0 = p
        OBVIOUS
      <4>3. m0 \in 0 .. Len(lexico) /\ M0 \in -1 .. Len(lexico) - 1 /\ m0 <= M0 /\ p0 = (M0 + m0) \div 2
        BY <4>1, <4>2
      <4>4. /\ p0 \in m0 .. M0 /\ p0 + 1 \in DOMAIN lexico
            /\ lexico[p0 + 1].termino = word => Hallado(lexico, word, m0, M0) = lexico[p0 + 1].id
            /\ word > lexico[p0 + 1].termino => Hallado(lexico, word, m0, M0) = Hallado(lexico, word, p0 + 1, M0)
            /\ (lexico[p0 + 1].termino # word /\ ~ (word > lexico[p0 + 1].termino))
                 => Hallado(lexico, word, m0, M0) = Hallado(lexico, word, m0, p0 - 1)
        BY <4>3, Mitades
      <4> QED
        BY <4>2, <4>4
    <3>4. ~ (r[1] > r[2])
      BY <1>0, <2>2
    <3> QED
      BY <3>2, <3>3, <3>4 DEF p, m, M
  <2> QED
    BY <1>0, <2>1, <2>2
<1>4. g = [r \in D |-> F(g, r)]
  BY <1>3, Zenon
<1>5. impl = [r \in D |-> F(impl, r)]
  <2> HIDE DEF g, F, D
  <2> QED
    BY <1>4, Zenon
<1>6. \A r \in D : impl[r] = F(impl, r)
  <2> HIDE DEF impl, F, D
  <2> QED
    BY <1>5, Zenon
<1>7. \A r \in D : impl[r] = g[r]
  <2> SUFFICES ASSUME NEW r \in D, impl[r] # g[r] PROVE FALSE
    OBVIOUS
  <2> DEFINE largo(s) == s[2] - s[1] + 1
             T == { k \in Nat : \E s \in D : impl[s] # g[s] /\ s[1] <= s[2] /\ largo(s) = k }
  <2> HIDE DEF impl, g
  <2>1. \A s \in D : s[1] > s[2] => impl[s] = g[s]
    BY <1>3, <1>6
  <2>2. \A s \in D : s[1] <= s[2] => largo(s) \in Nat
    BY <1>0
  <2>3. T \subseteq Nat /\ T # {}
    <3>1. r[1] <= r[2]
      BY <1>0, <2>1
    <3> QED
      BY <2>2, <3>1
  <2>4. PICK k \in T : \A j \in T : k <= j
    <3> HIDE DEF T
    <3> QED
      BY <2>3, MenorNatural
  <2>5. PICK s \in D : impl[s] # g[s] /\ s[1] <= s[2] /\ largo(s) = k
    OBVIOUS
  <2> DEFINE a == <<medio(s) + 1, s[2]>>
             b == <<s[1], medio(s) - 1>>
  <2>6. a \in D /\ b \in D /\ (a[1] <= a[2] => largo(a) < k) /\ (b[1] <= b[2] => largo(b) < k)
    <3>1. s[1] \in Int /\ s[2] \in Int /\ k = s[2] - s[1] + 1
      BY <1>0, <2>5
    <3>2. medio(s) \in s[1] .. s[2] /\ a \in D /\ b \in D
      <4> HIDE DEF D, medio
      <4> QED
        BY <1>2, <2>5
    <3>3. a[1] = medio(s) + 1 /\ a[2] = s[2] /\ b[1] = s[1] /\ b[2] = medio(s) - 1
      OBVIOUS
    <3>4. (a[1] <= a[2] => a[2] - a[1] + 1 < k) /\ (b[1] <= b[2] => b[2] - b[1] + 1 < k)
      <4>1. \A i, j \in Int : \A q \in i .. j : j - (q + 1) + 1 < j - i + 1 /\ (q - 1) - i + 1 < j - i + 1
        OBVIOUS
      <4> HIDE DEF a, b, medio
      <4>2. s[2] - (medio(s) + 1) + 1 < k /\ (medio(s) - 1) - s[1] + 1 < k
        BY <3>1, <3>2, <4>1
      <4> QED
        BY <3>3, <4>2
    <3> QED
      BY <3>2, <3>4
  <2>7. \A c \in D : (c[1] <= c[2] => largo(c) < k) => impl[c] = g[c]
    <3> SUFFICES ASSUME NEW c \in D, c[1] <= c[2] => largo(c) < k, impl[c] # g[c] PROVE FALSE
      OBVIOUS
    <3>1. c[1] \in Int /\ c[2] \in Int
      BY <1>0
    <3>2. c[1] <= c[2]
      BY <2>1, <3>1
    <3>3. largo(c) \in T
      BY <2>2, <3>2
    <3>4. k <= largo(c)
      <4> HIDE DEF T, largo
      <4> QED
        BY <2>4, <3>3
    <3>5. k \in Int /\ largo(c) \in Int
      BY <3>1
    <3> QED
      BY <3>2, <3>4, <3>5
  <2>8. impl[a] = g[a] /\ impl[b] = g[b]
    BY <2>6, <2>7
  <2>9. F(impl, s) = F(g, s)
    BY <2>8
  <2> QED
    BY <1>3, <1>6, <2>5, <2>9
<1>8. <<0, Len(lexico) - 1>> \in D
  BY <1>0
<1>9. g[<<0, Len(lexico) - 1>>] = Hallado(lexico, word, 0, Len(lexico) - 1)
  BY <1>8
<1> HIDE DEF impl, g
<1> QED
  BY <1>1, <1>7, <1>8, <1>9

(* What mergeWith asks of a closed stop list.                              *)
LEMMA BusquedaExacta ==
  ASSUME NEW lexico \in Seq(RegistroLexico), Ordenado(lexico), IdsUnicos(lexico), NEW word \in Palabras
  PROVE  BuscarTermino(lexico, word) # 0 <=> word \in PalabrasDe(lexico)
<1>1. Len(lexico) \in Nat /\ DOMAIN lexico = 1 .. Len(lexico)
  OBVIOUS
<1>2. BuscarTermino(lexico, word) = Hallado(lexico, word, 0, Len(lexico) - 1)
  BY BuscarTerminoHalla
<1>3. CASE word \in PalabrasDe(lexico)
  <2>1. PICK i \in 1 .. Len(lexico) : lexico[i].termino = word
    BY <1>1, <1>3 DEF PalabrasDe
  <2>2. Hallado(lexico, word, 0, Len(lexico) - 1) = lexico[i].id
    BY <1>1, <2>1, HalladoUnico
  <2>3. lexico[i].id # 0
    BY <1>1 DEF IdsUnicos
  <2> QED
    BY <1>2, <1>3, <2>2, <2>3
<1>4. CASE word \notin PalabrasDe(lexico)
  <2>1. ~ \E i \in 0 + 1 .. (Len(lexico) - 1) + 1 : lexico[i].termino = word
    BY <1>1, <1>4 DEF PalabrasDe
  <2> QED
    BY <1>2, <1>4, <2>1 DEF Hallado
<1> QED
  BY <1>3, <1>4

-----------------------------------------------------------------------------
(* What the documents recorded, and the one being merged, have to do with  *)
(* the lexicon.                                                            *)

DeParada == PalabrasDe(archivo["stop"])

(* t is the vector, under the ids of a lexicon file, of the words of ws    *)
(* with the counts of c; and the file has all of them but the stop words.  *)
EsVectorDe(t, c, ws, lexico) ==
  /\ DOMAIN t = { r.id : r \in { s \in Rango(lexico) : s.termino \in ws } }
  /\ \A r \in Rango(lexico) : r.termino \in ws => t[r.id] = c[r.termino]
  /\ ws \ DeParada \subseteq PalabrasDe(lexico)

(* The words of the file in hand that the merge is done with.              *)
Hechas == DOMAIN contenido[ruta] \ curr

VectorEnCurso ==
  /\ (pc = "mezclar" /\ fase = "lex") =>
       /\ PalabrasDe(tempLexico) \cap DeParada = {}
       /\ PalabrasDe(tempLexico) \subseteq PalabrasDe(archivo["lex"]) \cup Hechas
       /\ EsVectorDe(mergedItems, contenido[ruta], Hechas, tempLexico)
  /\ pc = "grabar" =>
       /\ DOMAIN mergedItems # {}
       /\ EsVectorDe(mergedItems, contenido[ruta], DOMAIN contenido[ruta], archivo["lex"])

VectoresGrabados ==
  /\ fase = "stop" => archivo["lex"] = <<>> /\ documentos = <<>> /\ docLex = <<>>
  /\ PalabrasDe(archivo["lex"]) \cap DeParada = {} \/ fase = "stop"
  /\ Len(docLex) = Len(documentos)
  /\ \A d \in DOMAIN docLex :
       /\ docLex[d].id = d /\ documentos[d].id = d
       /\ contenido[documentos[d].ruta] # Roto
       /\ LET c == contenido[documentos[d].ruta]
          IN  EsVectorDe(docLex[d].terminos, c, DOMAIN c, archivo["lex"])

(* The files whose words are all in the lexicon, and those whose document, *)
(* if they have one, is recorded.                                          *)
Mezclados == { f \in Legibles(Rutas \ pendientes) : pc = "mezclar" => f # ruta }
Recorridos == { f \in Legibles(Rutas \ pendientes) : pc # "escanear" => f # ruta }
RutasGrabadas == { documentos[i].ruta : i \in DOMAIN documentos }

DocumentosEnCurso ==
  fase = "lex" =>
    /\ PalabrasDe(archivo["lex"]) = UNION { Indexables(f) : f \in Mezclados }
    /\ RutasGrabadas = { f \in Recorridos : Indexables(f) # {} }
    /\ \A i, j \in DOMAIN documentos : documentos[i].ruta = documentos[j].ruta => i = j
    /\ pc # "escanear" => ruta \notin pendientes

InvVectores == Inv /\ VectorEnCurso /\ VectoresGrabados /\ DocumentosEnCurso

-----------------------------------------------------------------------------
(* Lexicon files as sets of records.                                       *)

LEMMA PalabrasDelRango ==
  ASSUME NEW s
  PROVE  PalabrasDe(s) = { r.termino : r \in Rango(s) }
BY DEF PalabrasDe, Rango

LEMMA RangoDeRegistros ==
  ASSUME NEW s \in Seq(RegistroLexico)
  PROVE  /\ Rango(s) \subseteq RegistroLexico /\ PalabrasDe(s) \subseteq Palabras
         /\ \A r \in Rango(s) : r.id \in Nat /\ r.termino \in Palabras
<1>1. \A i \in DOMAIN s : s[i] \in RegistroLexico
  OBVIOUS
<1> QED
  BY <1>1 DEF Rango, PalabrasDe, RegistroLexico

LEMMA RangoDeEscribir ==
  ASSUME NEW s \in Seq(RegistroLexico), NEW id \in Nat, id > 0, NEW w \in Palabras
  PROVE  /\ Rango(Escribir(s, id, w)) = Rango(s) \cup {[id |-> id, termino |-> w]}
         /\ PalabrasDe(Escribir(s, id, w)) = PalabrasDe(s) \cup {w}
<1> DEFINE t == Escribir(s, id, w)
           r == [id |-> id, termino |-> w]
<1>1. /\ DOMAIN t = 1 .. Len(s) + 1 /\ DOMAIN s = 1 .. Len(s) /\ Len(s) \in Nat
      /\ t[Len(s) + 1] = r /\ \A i \in DOMAIN s : t[i] = s[i]
  BY EscribirAgrega
<1>2. r.termino = w
  OBVIOUS
<1> HIDE DEF t, r
<1>3. Rango(t) = Rango(s) \cup {r}
  BY <1>1 DEF Rango
<1>4. PalabrasDe(t) = PalabrasDe(s) \cup {w}
  BY <1>2, <1>3, PalabrasDelRango
<1> QED
  BY <1>3, <1>4 DEF t, r

LEMMA TerminosUnicos ==
  ASSUME NEW s \in Seq(RegistroLexico), Ordenado(s), NEW q \in Rango(s), NEW r \in Rango(s),
         q.termino = r.termino
  PROVE  q = r
<1>1. PICK i \in DOMAIN s, j \in DOMAIN s : q = s[i] /\ r = s[j]
  BY DEF Rango
<1>2. i \in Int /\ j \in Int /\ s[i].termino \in Int
  <2>1. DOMAIN s = 1 .. Len(s) /\ Len(s) \in Nat
    OBVIOUS
  <2>2. q.termino \in Palabras
    BY RangoDeRegistros
  <2>3. i \in Int /\ j \in Int
    BY <2>1
  <2>4. s[i].termino \in Int
    BY <1>1, <2>2, PalabrasSonOrdenadas
  <2> QED
    BY <2>3, <2>4
<1>3. ~ (i < j) /\ ~ (j < i)
  BY <1>1, <1>2 DEF Ordenado
<1> QED
  BY <1>1, <1>2, <1>3

LEMMA IdsDelRango ==
  ASSUME NEW s \in Seq(RegistroLexico), \A i, j \in DOMAIN s : s[i].id = s[j].id => i = j,
         NEW q \in Rango(s), NEW r \in Rango(s), q.id = r.id
  PROVE  q = r
BY DEF Rango

(* A write of a word of ws, of another word, and of none.                  *)
LEMMA VectorConPalabra ==
  ASSUME NEW s \in Seq(RegistroLexico), NEW t, NEW c, NEW ws, NEW id \in Nat, id > 0, NEW w \in Palabras,
         EsVectorDe(t, c, ws, s),
         w \notin PalabrasDe(s), \A r \in Rango(s) : r.id # id
  PROVE  EsVectorDe(Anotar(t, id, c[w]), c, ws \cup {w}, Escribir(s, id, w))
<1> DEFINE e == Escribir(s, id, w)
           n == [id |-> id, termino |-> w]
           u == Anotar(t, id, c[w])
<1>1. Rango(e) = Rango(s) \cup {n} /\ PalabrasDe(e) = PalabrasDe(s) \cup {w}
  BY RangoDeEscribir
<1>2. n.id = id /\ n.termino = w
  OBVIOUS
<1>3. \A r \in Rango(s) : r.termino # w
  BY PalabrasDelRango
<1>4. DOMAIN u = DOMAIN t \cup {id} /\ u[id] = c[w] /\ \A i \in DOMAIN t : i # id => u[i] = t[i]
  BY DEF Anotar
<1> HIDE DEF e, n, u
<1>5. DOMAIN u = { r.id : r \in { q \in Rango(e) : q.termino \in ws \cup {w} } }
  BY <1>1, <1>2, <1>3, <1>4 DEF EsVectorDe
<1>6. ASSUME NEW r \in Rango(e), r.termino \in ws \cup {w} PROVE u[r.id] = c[r.termino]
  <2>1. CASE r = n
    BY <1>2, <1>4, <2>1
  <2>2. CASE r \in Rango(s)
    <3>1. r.termino \in ws /\ r.id \in DOMAIN t /\ t[r.id] = c[r.termino] /\ r.id # id
      BY <1>3, <1>6, <2>2 DEF EsVectorDe
    <3> QED
      BY <1>4, <3>1
  <2> QED
    BY <1>1, <1>6, <2>1, <2>2
<1>7. (ws \cup {w}) \ DeParada \subseteq PalabrasDe(e)
  BY <1>1 DEF EsVectorDe
<1> QED
  BY <1>5, <1>6, <1>7 DEF EsVectorDe, e, u

LEMMA VectorConOtra ==
  ASSUME NEW s \in Seq(RegistroLexico), NEW t, NEW c, NEW ws, NEW id \in Nat, id > 0, NEW w \in Palabras,
         EsVectorDe(t, c, ws, s), w \notin ws
  PROVE  EsVectorDe(t, c, ws, Escribir(s, id, w))
<1> DEFINE e == Escribir(s, id, w)
           n == [id |-> id, termino |-> w]
<1>1. Rango(e) = Rango(s) \cup {n} /\ PalabrasDe(e) = PalabrasDe(s) \cup {w}
  BY RangoDeEscribir
<1>2. n.termino = w
  OBVIOUS
<1> HIDE DEF e, n
<1>3. { q \in Rango(e) : q.termino \in ws } = { q \in Rango(s) : q.termino \in ws }
  BY <1>1, <1>2
<1> QED
  BY <1>1, <1>2, <1>3 DEF EsVectorDe, e

LEMMA VectorConParada ==
  ASSUME NEW s, NEW t, NEW c, NEW ws, NEW w,
         EsVectorDe(t, c, ws, s), w \in DeParada, w \notin PalabrasDe(s)
  PROVE  EsVectorDe(t, c, ws \cup {w}, s)
<1>1. \A r \in Rango(s) : r.termino # w
  BY PalabrasDelRango
<1>2. { q \in Rango(s) : q.termino \in ws \cup {w} } = { q \in Rango(s) : q.termino \in ws }
  BY <1>1
<1> QED
  BY <1>1, <1>2 DEF EsVectorDe

(* A vector means the same in a lexicon that keeps the records and adds no *)
(* stop word: what it adds is not of the vector's file, all of whose words *)
(* it had.                                                                 *)
LEMMA VectorPermanece ==
  ASSUME NEW s \in Seq(RegistroLexico), NEW e \in Seq(RegistroLexico), Ordenado(e), NEW t, NEW c, NEW ws,
         EsVectorDe(t, c, ws, s), Rango(s) \subseteq Rango(e), PalabrasDe(e) \cap DeParada = {}
  PROVE  EsVectorDe(t, c, ws, e)
<1>1. PalabrasDe(s) \subseteq PalabrasDe(e)
  BY PalabrasDelRango
<1>2. ASSUME NEW r \in Rango(e), r.termino \in ws PROVE r \in Rango(s)
  <2>1. r.termino \in PalabrasDe(e)
    BY PalabrasDelRango
  <2>2. r.termino \in PalabrasDe(s)
    BY <1>2, <2>1 DEF EsVectorDe
  <2>3. PICK q \in Rango(s) : q.termino = r.termino
    BY <2>2, PalabrasDelRango
  <2>4. q = r
    BY <2>3, TerminosUnicos
  <2> QED
    BY <2>3, <2>4
<1>3. { q \in Rango(e) : q.termino \in ws } = { q \in Rango(s) : q.termino \in ws }
  BY <1>2
<1> QED
  BY <1>1, <1>2, <1>3 DEF EsVectorDe

-----------------------------------------------------------------------------
(* The writes of mergeWith while the documents are indexed.                *)

(* A word written is not in the temporary file yet, nor its id.            *)
LEMMA EscrituraNueva ==
  ASSUME Inv, Inv', pc' = "mezclar",
         NEW id \in Nat, id > 0, NEW w \in Palabras, tempLexico' = Escribir(tempLexico, id, w)
  PROVE  /\ w \notin PalabrasDe(tempLexico)
         /\ \A r \in Rango(tempLexico) : r.id # id
         /\ PalabrasDe(tempLexico') = PalabrasDe(tempLexico) \cup {w}
<1> DEFINE e == tempLexico'
           n == Len(tempLexico)
<1>1. tempLexico \in Seq(RegistroLexico) /\ e \in Seq(RegistroLexico)
  BY DEF Inv, TypeOK
<1>2. /\ DOMAIN e = 1 .. n + 1 /\ DOMAIN tempLexico = 1 .. n /\ n \in Nat
      /\ e[n + 1] = [id |-> id, termino |-> w] /\ \A i \in 1 .. n : e[i] = tempLexico[i]
  BY <1>1, EscribirAgrega
<1>3. Ordenado(e) /\ \A i, j \in DOMAIN e : e[i].id = e[j].id => i = j
  BY DEF Inv, MezclaCorrecta
<1>4. \A i \in 1 .. n : tempLexico[i].termino \in Int /\ w \in Int
  <2>1. \A i \in 1 .. n : tempLexico[i] \in RegistroLexico
    BY <1>1
  <2> QED
    BY <2>1, PalabrasSonOrdenadas DEF RegistroLexico
<1>5. ASSUME NEW i \in 1 .. n PROVE tempLexico[i].termino # w /\ tempLexico[i].id # id
  <2>1. i < n + 1 /\ i \in DOMAIN e /\ n + 1 \in DOMAIN e /\ i # n + 1
    BY <1>2
  <2>2. e[i].termino < e[n + 1].termino /\ e[i].id # e[n + 1].id
    BY <1>3, <2>1 DEF Ordenado
  <2>3. e[i] = tempLexico[i] /\ e[n + 1].termino = w /\ e[n + 1].id = id
    BY <1>2
  <2> QED
    BY <1>4, <2>2, <2>3
<1> HIDE DEF e
<1> QED
  <2>1. PalabrasDe(tempLexico') = PalabrasDe(tempLexico) \cup {w}
    BY <1>1, RangoDeEscribir
  <2>2. w \notin PalabrasDe(tempLexico) /\ \A r \in Rango(tempLexico) : r.id # id
    BY <1>2, <1>5 DEF PalabrasDe, Rango
  <2> QED
    BY <2>1, <2>2

(* What mergeWith asks of the stop list while the documents are indexed.   *)
LEMMA PreguntaExacta ==
  ASSUME Inv, fase = "lex", NEW w \in Palabras
  PROVE  EsStop(w) <=> w \in DeParada
<1>1. archivo["stop"] \in Seq(RegistroLexico) /\ Ordenado(archivo["stop"]) /\ IdsUnicos(archivo["stop"])
  BY DEF Inv, TypeOK, LexicoOrdenado, IdsDensos, Fases
<1> QED
  BY <1>1, BusquedaExacta DEF EsStop, DeParada

(* Types of what a merge works on.                                         *)
LEMMA EnMezcla ==
  ASSUME Inv, pc = "mezclar"
  PROVE  /\ tempLexico \in Seq(RegistroLexico) /\ archivo["lex"] \in Seq(RegistroLexico)
         /\ archivo["stop"] \in Seq(RegistroLexico)
         /\ curr \subseteq DOMAIN contenido[ruta] /\ curr \subseteq Palabras
         /\ DOMAIN contenido[ruta] \subseteq Palabras
         /\ nextId \in Nat /\ nextId > 0 /\ fase \in Fases
<1>1. ruta \in Rutas \cup RutasStop /\ contenido[ruta] # Roto /\ curr \subseteq DOMAIN contenido[ruta]
  BY DEF Inv, Contexto, RutasDeFase
<1>2. contenido[ruta] \in WordPair
  BY <1>1 DEF Inv, TypeOK
<1> QED
  BY <1>1, <1>2 DEF Inv, TypeOK, Contexto, Fases, WordPair

LEMMA CoincideEnCurso ==
  ASSUME Inv, Inv', VectorEnCurso, VectoresGrabados, Coincide
  PROVE  VectorEnCurso'
<1>1. PICK w \in curr :
        /\ EsActual(w) /\ Dato.termino = w
        /\ mergedItems' = Anotar(mergedItems, IdEscrito(tempLexico, Dato.id), contenido[ruta][w])
        /\ curr' = curr \ {w}
  BY DEF Coincide
<1>2. /\ pc = "mezclar" /\ HayDato
      /\ tempLexico' = Escribir(tempLexico, Dato.id, Dato.termino)
      /\ UNCHANGED <<contenido, fase, archivo, pc, ruta>>
  BY DEF Coincide
<1> SUFFICES ASSUME fase = "lex"
             PROVE  /\ PalabrasDe(tempLexico') \cap DeParada = {}
                    /\ PalabrasDe(tempLexico') \subseteq PalabrasDe(archivo["lex"]) \cup Hechas'
                    /\ EsVectorDe(mergedItems', contenido[ruta], Hechas', tempLexico')
  BY <1>2 DEF VectorEnCurso, DeParada, EsVectorDe
<1> DEFINE id == Dato.id
<1>3. id \in Nat /\ id > 0 /\ w \in Palabras /\ IdEscrito(tempLexico, id) = id
  BY <1>1, <1>2, DatoEsRegistro DEF IdEscrito
<1>4. Hechas' = Hechas \cup {w}
  BY <1>1, <1>2, EnMezcla DEF Hechas
<1>5. /\ PalabrasDe(tempLexico) \cap DeParada = {}
      /\ PalabrasDe(tempLexico) \subseteq PalabrasDe(archivo["lex"]) \cup Hechas
      /\ EsVectorDe(mergedItems, contenido[ruta], Hechas, tempLexico)
  BY <1>2 DEF VectorEnCurso
<1>6. tempLexico' = Escribir(tempLexico, id, w) /\ mergedItems' = Anotar(mergedItems, id, contenido[ruta][w])
  BY <1>1, <1>2, <1>3
<1> HIDE DEF id
<1>7. /\ w \notin PalabrasDe(tempLexico) /\ \A r \in Rango(tempLexico) : r.id # id
      /\ PalabrasDe(tempLexico') = PalabrasDe(tempLexico) \cup {w}
  BY <1>2, <1>3, <1>6, EscrituraNueva
<1>8. EsVectorDe(mergedItems', contenido[ruta], Hechas', tempLexico')
  <2>1. tempLexico \in Seq(RegistroLexico)
    BY <1>2, EnMezcla
  <2>2. EsVectorDe(Anotar(mergedItems, id, contenido[ruta][w]), contenido[ruta], Hechas \cup {w}, Escribir(tempLexico, id, w))
    BY <1>3, <1>5, <1>7, <2>1, VectorConPalabra
  <2> QED
    BY <1>4, <1>6, <2>2
<1>9. w \in PalabrasDe(archivo["lex"])
  BY <1>1, <1>2, DatoEsRegistro DEF PalabrasDe
<1>10. w \notin DeParada
  BY <1>9 DEF VectoresGrabados
<1> QED
  BY <1>4, <1>5, <1>7, <1>8, <1>9, <1>10

LEMMA ConservarViejoEnCurso ==
  ASSUME Inv, Inv', VectorEnCurso, VectoresGrabados, ConservarViejo
  PROVE  VectorEnCurso'
<1>1. /\ pc = "mezclar" /\ HayDato /\ EsViejo
      /\ tempLexico' = Escribir(tempLexico, Dato.id, Dato.termino)
      /\ UNCHANGED <<contenido, fase, archivo, pc, ruta, curr, mergedItems>>
  BY DEF ConservarViejo
<1> SUFFICES ASSUME fase = "lex"
             PROVE  /\ PalabrasDe(tempLexico') \cap DeParada = {}
                    /\ PalabrasDe(tempLexico') \subseteq PalabrasDe(archivo["lex"]) \cup Hechas
                    /\ EsVectorDe(mergedItems, contenido[ruta], Hechas, tempLexico')
  BY <1>1 DEF VectorEnCurso, DeParada, EsVectorDe, Hechas
<1> DEFINE id == Dato.id
           w == Dato.termino
<1>2. id \in Nat /\ id > 0 /\ w \in Palabras /\ w \in PalabrasDe(archivo["lex"])
  BY <1>1, DatoEsRegistro DEF PalabrasDe
<1>3. /\ PalabrasDe(tempLexico) \cap DeParada = {}
      /\ PalabrasDe(tempLexico) \subseteq PalabrasDe(archivo["lex"]) \cup Hechas
      /\ EsVectorDe(mergedItems, contenido[ruta], Hechas, tempLexico)
  BY <1>1 DEF VectorEnCurso
<1> HIDE DEF id, w
<1>4. tempLexico' = Escribir(tempLexico, id, w)
  BY <1>1 DEF id, w
<1>5. /\ w \notin PalabrasDe(tempLexico)
      /\ PalabrasDe(tempLexico') = PalabrasDe(tempLexico) \cup {w}
  BY <1>1, <1>2, <1>4, EscrituraNueva
<1>6. w \notin DeParada
  BY <1>2 DEF VectoresGrabados
<1>7. w \notin Hechas
  BY <1>3, <1>5, <1>6 DEF EsVectorDe
<1>8. EsVectorDe(mergedItems, contenido[ruta], Hechas, tempLexico')
  BY <1>1, <1>2, <1>3, <1>4, <1>7, EnMezcla, VectorConOtra
<1> QED
  BY <1>2, <1>3, <1>5, <1>6, <1>8

LEMMA AgregarNuevaEnCurso ==
  ASSUME Inv, Inv', VectorEnCurso, AgregarNueva
  PROVE  VectorEnCurso'
<1>1. PICK w \in curr :
        /\ EsNueva(w) /\ curr' = curr \ {w}
        /\ IF EsStop(w)
           THEN UNCHANGED <<tempLexico, mergedItems, nextId>>
           ELSE /\ tempLexico' = Escribir(tempLexico, nextId, w)
                /\ mergedItems' = Anotar(mergedItems, nextId, contenido[ruta][w])
  BY DEF AgregarNueva
<1>2. pc = "mezclar" /\ UNCHANGED <<contenido, fase, archivo, pc, ruta>>
  BY DEF AgregarNueva
<1> SUFFICES ASSUME fase = "lex"
             PROVE  /\ PalabrasDe(tempLexico') \cap DeParada = {}
                    /\ PalabrasDe(tempLexico') \subseteq PalabrasDe(archivo["lex"]) \cup Hechas'
                    /\ EsVectorDe(mergedItems', contenido[ruta], Hechas', tempLexico')
  BY <1>2 DEF VectorEnCurso, DeParada, EsVectorDe
<1>3. Hechas' = Hechas \cup {w} /\ w \in Palabras
  BY <1>1, <1>2, EnMezcla DEF Hechas
<1>4. /\ PalabrasDe(tempLexico) \cap DeParada = {}
      /\ PalabrasDe(tempLexico) \subseteq PalabrasDe(archivo["lex"]) \cup Hechas
      /\ EsVectorDe(mergedItems, contenido[ruta], Hechas, tempLexico)
  BY <1>2 DEF VectorEnCurso
<1>5. EsStop(w) <=> w \in DeParada
  BY <1>3, PreguntaExacta
<1>6. CASE EsStop(w)
  <2>1. tempLexico' = tempLexico /\ mergedItems' = mergedItems /\ w \notin PalabrasDe(tempLexico)
    BY <1>1, <1>4, <1>5, <1>6
  <2> QED
    BY <1>3, <1>4, <1>5, <1>6, <2>1, VectorConParada
<1>7. CASE ~ EsStop(w)
  <2>1. tempLexico' = Escribir(tempLexico, nextId, w) /\ mergedItems' = Anotar(mergedItems, nextId, contenido[ruta][w])
    BY <1>1, <1>7
  <2>2. /\ w \notin PalabrasDe(tempLexico) /\ \A r \in Rango(tempLexico) : r.id # nextId
        /\ PalabrasDe(tempLexico') = PalabrasDe(tempLexico) \cup {w}
    BY <1>2, <1>3, <2>1, EnMezcla, EscrituraNueva
  <2>3. EsVectorDe(mergedItems', contenido[ruta], Hechas', tempLexico')
    BY <1>2, <1>3, <1>4, <2>1, <2>2, EnMezcla, VectorConPalabra
  <2> QED
    BY <1>3, <1>4, <1>5, <1>7, <2>2, <2>3
<1> QED
  BY <1>6, <1>7

LEMMA EmpezarMergeEnCurso ==
  ASSUME Inv, VectoresGrabados, NEW f \in Rutas \cup RutasStop, EmpezarMerge(f)
  PROVE  VectorEnCurso'
<1>1. /\ curr' = DOMAIN contenido[f] /\ ruta' = f /\ tempLexico' = <<>> /\ mergedItems' = Vacia
      /\ pc' = "mezclar" /\ UNCHANGED <<contenido, fase, archivo>>
  BY DEF EmpezarMerge
<1>2. Hechas' = {} /\ Rango(tempLexico') = {} /\ PalabrasDe(tempLexico') = {}
  BY <1>1 DEF Hechas, Rango, PalabrasDe
<1>3. DOMAIN mergedItems' = {}
  BY <1>1 DEF Vacia
<1> QED
  BY <1>1, <1>2, <1>3 DEF VectorEnCurso, EsVectorDe

(* The words of a file in hand, when its merge is over, are all done with, *)
(* and the new lexicon keeps the records of the old one.                   *)
LEMMA LexicoReemplazado ==
  ASSUME Inv, Inv', VectorEnCurso, VectoresGrabados, Reemplazar, fase = "lex"
  PROVE  /\ archivo'["lex"] = tempLexico /\ DeParada' = DeParada
         /\ archivo'["lex"] \in Seq(RegistroLexico) /\ Ordenado(archivo'["lex"])
         /\ Rango(archivo["lex"]) \subseteq Rango(archivo'["lex"])
         /\ PalabrasDe(archivo'["lex"]) \cap DeParada = {}
         /\ EsVectorDe(mergedItems, contenido[ruta], DOMAIN contenido[ruta], archivo'["lex"])
         /\ PalabrasDe(archivo'["lex"]) = PalabrasDe(archivo["lex"]) \cup (DOMAIN contenido[ruta] \ DeParada)
<1>1. /\ pc = "mezclar" /\ ~HayDato /\ curr = {} /\ archivo' = [archivo EXCEPT ![fase] = tempLexico]
      /\ UNCHANGED <<contenido, fase, ruta>>
  BY DEF Reemplazar
<1>2. archivo'["lex"] = tempLexico /\ archivo'["stop"] = archivo["stop"]
  BY <1>1 DEF Inv, TypeOK, Fases
<1>3. DeParada' = DeParada
  BY <1>2 DEF DeParada
<1>4. tempLexico \in Seq(RegistroLexico) /\ Ordenado(tempLexico) /\ Rango(archivo["lex"]) \subseteq Rango(tempLexico)
  BY <1>1, MezclaTerminada, EnMezcla
<1>5. Hechas = DOMAIN contenido[ruta]
  BY <1>1 DEF Hechas
<1>6. /\ PalabrasDe(tempLexico) \cap DeParada = {}
      /\ PalabrasDe(tempLexico) \subseteq PalabrasDe(archivo["lex"]) \cup Hechas
      /\ EsVectorDe(mergedItems, contenido[ruta], Hechas, tempLexico)
  BY <1>1 DEF VectorEnCurso
<1>7. PalabrasDe(archivo["lex"]) \subseteq PalabrasDe(tempLexico)
  BY <1>4, PalabrasDelRango
<1>8. PalabrasDe(tempLexico) = PalabrasDe(archivo["lex"]) \cup (DOMAIN contenido[ruta] \ DeParada)
  BY <1>5, <1>6, <1>7 DEF EsVectorDe
<1> QED
  BY <1>2, <1>3, <1>4, <1>5, <1>6, <1>8

LEMMA ReemplazarEnCurso ==
  ASSUME Inv, Inv', VectorEnCurso, VectoresGrabados, Reemplazar
  PROVE  VectorEnCurso'
<1>1. /\ pc' = IF HayQueGrabar THEN "grabar" ELSE "escanear"
      /\ UNCHANGED <<contenido, fase, ruta, mergedItems>>
  BY DEF Reemplazar, merge
<1> SUFFICES ASSUME pc' = "grabar"
             PROVE  /\ DOMAIN mergedItems' # {}
                    /\ EsVectorDe(mergedItems, contenido[ruta], DOMAIN contenido[ruta], archivo["lex"])'
  BY <1>1 DEF VectorEnCurso
<1>2. fase = "lex" /\ DOMAIN mergedItems # {}
  BY <1>1 DEF HayQueGrabar
<1>3. EsVectorDe(mergedItems, contenido[ruta], DOMAIN contenido[ruta], archivo'["lex"]) /\ DeParada' = DeParada
  BY <1>2, LexicoReemplazado
<1> QED
  BY <1>1, <1>2, <1>3 DEF EsVectorDe

LEMMA PasoEnCurso ==
  ASSUME InvVectores, Inv', [Next]_vars
  PROVE  VectorEnCurso'
<1>0. Inv /\ VectorEnCurso /\ VectoresGrabados
  BY DEF InvVectores
<1>1. CASE \E f \in Rutas \cup RutasStop : EmpezarMerge(f)
  BY <1>0, <1>1, EmpezarMergeEnCurso
<1>2. CASE Coincide \/ ConservarViejo \/ AgregarNueva \/ Reemplazar
  BY <1>0, <1>2, CoincideEnCurso, ConservarViejoEnCurso, AgregarNuevaEnCurso, ReemplazarEnCurso
<1>3. CASE GrabarDocumento
  BY <1>3 DEF GrabarDocumento, VectorEnCurso
<1>4. CASE IndexarDocumentos
  BY <1>4 DEF IndexarDocumentos, VectorEnCurso
<1>5. CASE (\E f \in Rutas \cup RutasStop : ArchivoRoto(f)) \/ UNCHANGED vars
  BY <1>0, <1>5 DEF ArchivoRoto, vars, merge, VectorEnCurso, EsVectorDe, DeParada, Hechas
<1> QED
  BY <1>1, <1>2, <1>3, <1>4, <1>5 DEF Next

-----------------------------------------------------------------------------
(* The vectors on disk.                                                    *)

LEMMA ReemplazarVectores ==
  ASSUME InvVectores, Inv', Reemplazar
  PROVE  VectoresGrabados'
<1>0. Inv /\ VectorEnCurso /\ VectoresGrabados
  BY DEF InvVectores
<1>1. UNCHANGED <<contenido, fase, documentos, docLex>>
  BY DEF Reemplazar
<1>2. CASE fase = "stop"
  <2>1. archivo'["lex"] = archivo["lex"]
    BY <1>0, <1>2 DEF Reemplazar, Inv, TypeOK, Fases
  <2>2. documentos = <<>> /\ docLex = <<>> /\ archivo["lex"] = <<>>
    BY <1>0, <1>2 DEF VectoresGrabados
  <2> QED
    BY <1>1, <1>2, <2>1, <2>2 DEF VectoresGrabados
<1>3. CASE fase = "lex"
  <2>1. /\ DeParada' = DeParada /\ archivo'["lex"] \in Seq(RegistroLexico) /\ Ordenado(archivo'["lex"])
        /\ Rango(archivo["lex"]) \subseteq Rango(archivo'["lex"]) /\ PalabrasDe(archivo'["lex"]) \cap DeParada = {}
    BY <1>0, <1>3, LexicoReemplazado
  <2>2. archivo["lex"] \in Seq(RegistroLexico)
    BY <1>0 DEF Inv, TypeOK, Fases
  <2>3. ASSUME NEW d \in DOMAIN docLex, NEW c, EsVectorDe(docLex[d].terminos, c, DOMAIN c, archivo["lex"])
        PROVE  EsVectorDe(docLex[d].terminos, c, DOMAIN c, archivo["lex"])'
    <3>1. EsVectorDe(docLex[d].terminos, c, DOMAIN c, archivo'["lex"])
      BY <2>1, <2>2, <2>3, VectorPermanece
    <3> QED
      BY <1>1, <2>1, <3>1 DEF EsVectorDe
  <2>4. fase' # "stop"
    BY <1>1, <1>3
  <2> QED
    BY <1>0, <1>1, <1>3, <2>1, <2>3, <2>4 DEF VectoresGrabados
<1> QED
  BY <1>0, <1>2, <1>3 DEF Inv, TypeOK, Fases

LEMMA GrabarDocumentoVectores ==
  ASSUME InvVectores, GrabarDocumento
  PROVE  VectoresGrabados'
<1> DEFINE n == Len(documentos)
           nuevo == [id |-> n + 1, ruta |-> ruta]
           vector == [id |-> n + 1, terminos |-> mergedItems]
<1>0. Inv /\ VectorEnCurso /\ VectoresGrabados
  BY DEF InvVectores
<1>1. /\ pc = "grabar" /\ documentos' = Append(documentos, nuevo) /\ docLex' = Append(docLex, vector)
      /\ UNCHANGED <<contenido, fase, archivo>>
  BY DEF GrabarDocumento
<1>2. documentos \in Seq([id : Nat, ruta : Rutas]) /\ docLex \in Seq(RegistroDocLex) /\ n \in Nat /\ Len(docLex) = n
  BY <1>0 DEF Inv, TypeOK, DocLexOK, VectoresGrabados
<1>3. fase = "lex" /\ contenido[ruta] # Roto
  BY <1>0, <1>1 DEF Inv, Contexto
<1>4. /\ DOMAIN documentos = 1 .. n /\ DOMAIN docLex = 1 .. n /\ DOMAIN docLex' = 1 .. n + 1
      /\ Len(documentos') = n + 1 /\ Len(docLex') = n + 1
      /\ documentos'[n + 1] = nuevo /\ docLex'[n + 1] = vector
      /\ \A d \in 1 .. n : documentos'[d] = documentos[d] /\ docLex'[d] = docLex[d]
  BY <1>1, <1>2
<1>5. EsVectorDe(mergedItems, contenido[ruta], DOMAIN contenido[ruta], archivo["lex"])
  BY <1>0, <1>1 DEF VectorEnCurso
<1>6. ASSUME NEW d \in 1 .. n + 1
      PROVE  /\ docLex'[d].id = d /\ documentos'[d].id = d
             /\ contenido'[documentos'[d].ruta] # Roto
             /\ EsVectorDe(docLex'[d].terminos, contenido'[documentos'[d].ruta], DOMAIN contenido'[documentos'[d].ruta], archivo'["lex"])
  <2>1. CASE d = n + 1
    <3>1. docLex'[d] = vector /\ documentos'[d] = nuevo
      BY <1>4, <2>1
    <3>2. docLex'[d].id = d /\ documentos'[d].id = d /\ documentos'[d].ruta = ruta /\ docLex'[d].terminos = mergedItems
      BY <2>1, <3>1
    <3> QED
      BY <1>1, <1>3, <1>5, <3>2
  <2>2. CASE d \in 1 .. n
    <3>1. documentos'[d] = documentos[d] /\ docLex'[d] = docLex[d]
      BY <1>4, <2>2
    <3> QED
      BY <1>0, <1>1, <1>4, <2>2, <3>1 DEF VectoresGrabados
  <2> QED
    BY <1>2, <2>1, <2>2
<1>7. PalabrasDe(archivo["lex"]) \cap DeParada = {}
  BY <1>0, <1>3 DEF VectoresGrabados
<1> HIDE DEF nuevo, vector, n
<1> QED
  BY <1>1, <1>3, <1>4, <1>6, <1>7 DEF VectoresGrabados, EsVectorDe, DeParada

LEMMA PasoVectores ==
  ASSUME InvVectores, Inv', [Next]_vars
  PROVE  VectoresGrabados'
<1>0. VectoresGrabados
  BY DEF InvVectores
<1>1. CASE Reemplazar
  BY <1>1, ReemplazarVectores
<1>2. CASE GrabarDocumento
  BY <1>2, GrabarDocumentoVectores
<1>3. CASE IndexarDocumentos
  <2>1. /\ fase = "stop" /\ fase' = "lex" /\ UNCHANGED <<contenido, archivo, documentos, docLex>>
    BY <1>3 DEF IndexarDocumentos
  <2>2. archivo["lex"] = <<>> /\ documentos = <<>> /\ docLex = <<>>
    BY <1>0, <2>1 DEF VectoresGrabados
  <2>3. PalabrasDe(archivo["lex"]) = {}
    BY <2>2 DEF PalabrasDe
  <2> QED
    BY <2>1, <2>2, <2>3 DEF VectoresGrabados, DeParada
<1>4. CASE UNCHANGED <<contenido, fase, archivo, documentos, docLex>>
  BY <1>0, <1>4 DEF VectoresGrabados, EsVectorDe, DeParada
<1>5. Reemplazar \/ GrabarDocumento \/ IndexarDocumentos \/ UNCHANGED <<contenido, fase, archivo, documentos, docLex>>
  BY DEF Next, vars, merge, ArchivoRoto, EmpezarMerge, Coincide, ConservarViejo, AgregarNueva
<1> QED
  BY <1>1, <1>2, <1>3, <1>4, <1>5

-----------------------------------------------------------------------------
(* The words of the lexicon and the documents recorded.                    *)

LEMMA EmpezarMergeDocumentos ==
  ASSUME InvVectores, NEW f \in Rutas \cup RutasStop, EmpezarMerge(f)
  PROVE  DocumentosEnCurso'
<1>1. /\ pc = "escanear" /\ pc' = "mezclar" /\ f \in pendientes /\ contenido[f] # Roto
      /\ pendientes' = pendientes \ {f} /\ ruta' = f
      /\ UNCHANGED <<contenido, fase, archivo, documentos>>
  BY DEF EmpezarMerge
<1> SUFFICES ASSUME fase = "lex" PROVE DocumentosEnCurso'
  BY <1>1 DEF DocumentosEnCurso
<1>2. Mezclados' = Mezclados /\ Recorridos' = Recorridos
  BY <1>1 DEF Mezclados, Recorridos, Legibles
<1>3. \A g : Indexables(g)' = Indexables(g)
  BY <1>1 DEF Indexables
<1>4. RutasGrabadas' = RutasGrabadas
  BY <1>1 DEF RutasGrabadas
<1> QED
  BY <1>1, <1>2, <1>3, <1>4 DEF InvVectores, DocumentosEnCurso

LEMMA ReemplazarDocumentos ==
  ASSUME InvVectores, Inv', Reemplazar
  PROVE  DocumentosEnCurso'
<1>0. Inv /\ VectorEnCurso /\ VectoresGrabados /\ DocumentosEnCurso
  BY DEF InvVectores
<1>1. /\ pc = "mezclar" /\ pc' = IF HayQueGrabar THEN "grabar" ELSE "escanear"
      /\ UNCHANGED <<contenido, fase, pendientes, ruta, mergedItems, documentos>>
  BY DEF Reemplazar, merge
<1> SUFFICES ASSUME fase = "lex" PROVE DocumentosEnCurso'
  BY <1>1 DEF DocumentosEnCurso
<1>2. /\ DeParada' = DeParada
      /\ EsVectorDe(mergedItems, contenido[ruta], DOMAIN contenido[ruta], archivo'["lex"])
      /\ PalabrasDe(archivo'["lex"]) = PalabrasDe(archivo["lex"]) \cup (DOMAIN contenido[ruta] \ DeParada)
      /\ PalabrasDe(archivo'["lex"]) \cap DeParada = {}
  BY <1>0, LexicoReemplazado
<1>3. \A g : Indexables(g)' = Indexables(g) /\ Indexables(g) = DOMAIN contenido[g] \ DeParada
  BY <1>1, <1>2 DEF Indexables, DeParada
<1>4. ruta \in Legibles(Rutas \ pendientes)
  BY <1>0, <1>1 DEF Inv, Contexto, RutasDeFase, DocumentosEnCurso, Legibles
<1>5. Mezclados' = Mezclados \cup {ruta}
  BY <1>1, <1>4 DEF Mezclados, Legibles
<1>6. PalabrasDe(archivo'["lex"]) = UNION { Indexables(g) : g \in Mezclados \cup {ruta} }
  BY <1>0, <1>2, <1>3 DEF DocumentosEnCurso
<1>7. DOMAIN mergedItems # {} <=> Indexables(ruta) # {}
  <2>1. ASSUME NEW i \in DOMAIN mergedItems PROVE Indexables(ruta) # {}
    <3>1. PICK r \in Rango(archivo'["lex"]) : r.termino \in DOMAIN contenido[ruta]
      BY <1>2, <2>1 DEF EsVectorDe
    <3>2. r.termino \notin DeParada
      BY <1>2, <3>1, PalabrasDelRango
    <3> QED
      BY <1>3, <3>1, <3>2
  <2>2. ASSUME NEW w \in Indexables(ruta) PROVE DOMAIN mergedItems # {}
    <3>1. w \in DOMAIN contenido[ruta] /\ w \in PalabrasDe(archivo'["lex"])
      BY <1>2, <1>3, <2>2
    <3>2. PICK r \in Rango(archivo'["lex"]) : r.termino = w
      BY <3>1, PalabrasDelRango
    <3> QED
      BY <1>2, <3>1, <3>2 DEF EsVectorDe
  <2> QED
    BY <2>1, <2>2
<1>8. { g \in Recorridos' : Indexables(g) # {} } = { g \in Recorridos : Indexables(g) # {} }
  BY <1>1, <1>4, <1>7 DEF Recorridos, Legibles, HayQueGrabar
<1>9. RutasGrabadas' = RutasGrabadas
  BY <1>1 DEF RutasGrabadas
<1> QED
  BY <1>0, <1>1, <1>3, <1>5, <1>6, <1>8, <1>9 DEF DocumentosEnCurso

LEMMA GrabarDocumentoDocumentos ==
  ASSUME InvVectores, GrabarDocumento
  PROVE  DocumentosEnCurso'
<1> DEFINE n == Len(documentos)
           nuevo == [id |-> n + 1, ruta |-> ruta]
<1>0. Inv /\ VectorEnCurso /\ VectoresGrabados /\ DocumentosEnCurso
  BY DEF InvVectores
<1>1. /\ pc = "grabar" /\ pc' = "escanear" /\ documentos' = Append(documentos, nuevo)
      /\ UNCHANGED <<contenido, fase, pendientes, archivo, ruta>>
  BY DEF GrabarDocumento
<1>2. documentos \in Seq([id : Nat, ruta : Rutas]) /\ n \in Nat
  BY <1>0 DEF Inv, TypeOK
<1>3. /\ DOMAIN documentos = 1 .. n /\ DOMAIN documentos' = 1 .. n + 1
      /\ documentos'[n + 1].ruta = ruta /\ \A d \in 1 .. n : documentos'[d] = documentos[d]
  BY <1>1, <1>2
<1>4. fase = "lex" /\ ruta \in Rutas /\ contenido[ruta] # Roto /\ ruta \notin pendientes
  BY <1>0, <1>1 DEF Inv, Contexto, RutasDeFase, DocumentosEnCurso
<1>5. \A g : Indexables(g)' = Indexables(g)
  BY <1>1 DEF Indexables
<1> HIDE DEF n, nuevo
<1>6. RutasGrabadas' = RutasGrabadas \cup {ruta}
  BY <1>2, <1>3 DEF RutasGrabadas
<1>7. Recorridos' = Recorridos \cup {ruta} /\ Mezclados' = Mezclados /\ ruta \notin Recorridos
  BY <1>1, <1>4 DEF Recorridos, Mezclados, Legibles
<1>8. Indexables(ruta) # {}
  <2>1. DOMAIN mergedItems # {} /\ EsVectorDe(mergedItems, contenido[ruta], DOMAIN contenido[ruta], archivo["lex"])
    BY <1>0, <1>1 DEF VectorEnCurso
  <2>2. PICK r \in Rango(archivo["lex"]) : r.termino \in DOMAIN contenido[ruta]
    BY <2>1 DEF EsVectorDe
  <2>3. r.termino \notin DeParada
    BY <1>0, <1>4, <2>2, PalabrasDelRango DEF VectoresGrabados
  <2> QED
    BY <2>2, <2>3 DEF Indexables, DeParada
<1>9. ruta \notin RutasGrabadas
  BY <1>0, <1>4, <1>7 DEF DocumentosEnCurso
<1>10. \A i, j \in 1 .. n + 1 : documentos'[i].ruta = documentos'[j].ruta => i = j
  <2>1. \A i \in 1 .. n : documentos[i].ruta # ruta
    BY <1>3, <1>9 DEF RutasGrabadas
  <2>2. \A i \in 1 .. n + 1 : i = n + 1 \/ i \in 1 .. n
    BY <1>2
  <2>3. \A i, j \in 1 .. n : documentos[i].ruta = documentos[j].ruta => i = j
    BY <1>0, <1>3, <1>4 DEF DocumentosEnCurso
  <2> QED
    BY <1>3, <2>1, <2>2, <2>3
<1> QED
  <2>1. { f \in Recorridos' : Indexables(f) # {} } = { f \in Recorridos : Indexables(f) # {} } \cup {ruta}
    BY <1>7, <1>8
  <2>2. RutasGrabadas' = { f \in Recorridos : Indexables(f) # {} } \cup {ruta}
    BY <1>0, <1>4, <1>6 DEF DocumentosEnCurso
  <2>3. PalabrasDe(archivo["lex"])' = UNION { Indexables(f)' : f \in Mezclados' }
    <3>1. PalabrasDe(archivo["lex"]) = UNION { Indexables(f) : f \in Mezclados }
      BY <1>0, <1>4 DEF DocumentosEnCurso
    <3>2. PalabrasDe(archivo["lex"])' = PalabrasDe(archivo["lex"])
      BY <1>1 DEF PalabrasDe
    <3>3. { Indexables(f)' : f \in Mezclados' } = { Indexables(f) : f \in Mezclados }
      BY <1>5, <1>7
    <3> QED
      BY <3>1, <3>2, <3>3
  <2>4. { f \in Recorridos' : Indexables(f)' # {} } = { f \in Recorridos' : Indexables(f) # {} }
    BY <1>5
  <2>5. RutasGrabadas' = { f \in Recorridos' : Indexables(f)' # {} }
    BY <2>1, <2>2, <2>4
  <2>6. \A i, j \in DOMAIN documentos' : documentos'[i].ruta = documentos'[j].ruta => i = j
    BY <1>3, <1>10
  <2> QED
    BY <1>1, <2>3, <2>5, <2>6 DEF DocumentosEnCurso

LEMMA PasoDocumentos ==
  ASSUME InvVectores, Inv', [Next]_vars
  PROVE  DocumentosEnCurso'
<1>0. Inv /\ VectoresGrabados /\ DocumentosEnCurso
  BY DEF InvVectores
<1>1. CASE \E f \in Rutas \cup RutasStop : EmpezarMerge(f)
  BY <1>1, EmpezarMergeDocumentos
<1>2. CASE Reemplazar
  BY <1>2, ReemplazarDocumentos
<1>3. CASE GrabarDocumento
  BY <1>3, GrabarDocumentoDocumentos
<1>4. CASE IndexarDocumentos
  <2>1. /\ fase = "stop" /\ pc = "escanear" /\ pendientes' = Rutas /\ UNCHANGED <<contenido, archivo, pc, ruta, documentos>>
    BY <1>4 DEF IndexarDocumentos
  <2>2. archivo["lex"] = <<>> /\ documentos = <<>>
    BY <1>0, <2>1 DEF VectoresGrabados
  <2>3. Mezclados' = {} /\ Recorridos' = {}
    BY <2>1 DEF Mezclados, Recorridos, Legibles
  <2>4. PalabrasDe(archivo["lex"]) = {} /\ RutasGrabadas = {}
    BY <2>2 DEF PalabrasDe, RutasGrabadas
  <2> QED
    BY <2>1, <2>2, <2>3, <2>4 DEF DocumentosEnCurso, RutasGrabadas
<1>5. CASE \E f \in Rutas \cup RutasStop : ArchivoRoto(f)
  <2>1. PICK f \in Rutas \cup RutasStop : ArchivoRoto(f)
    BY <1>5
  <2>2. /\ pc = "escanear" /\ contenido[f] = Roto /\ pendientes' = pendientes \ {f}
        /\ UNCHANGED <<contenido, fase, archivo, pc, ruta, documentos>>
    BY <2>1 DEF ArchivoRoto
  <2>3. Mezclados' = Mezclados /\ Recorridos' = Recorridos
    BY <2>2 DEF Mezclados, Recorridos, Legibles
  <2> QED
    BY <1>0, <2>2, <2>3 DEF DocumentosEnCurso, RutasGrabadas, Indexables
<1>6. CASE UNCHANGED <<contenido, fase, pendientes, archivo, pc, ruta, documentos>>
  BY <1>0, <1>6 DEF DocumentosEnCurso, RutasGrabadas, Indexables, Mezclados, Recorridos, Legibles
<1>7. \/ Reemplazar \/ GrabarDocumento \/ IndexarDocumentos
      \/ \E f \in Rutas \cup RutasStop : ArchivoRoto(f) \/ EmpezarMerge(f)
      \/ UNCHANGED <<contenido, fase, pendientes, archivo, pc, ruta, documentos>>
  BY DEF Next, vars, merge, Coincide, ConservarViejo, AgregarNueva
<1> QED
  BY <1>1, <1>2, <1>3, <1>4, <1>5, <1>6, <1>7

LEMMA InicioInvVectores == Init => InvVectores
<1> SUFFICES ASSUME Init PROVE InvVectores
  OBVIOUS
<1>1. archivo["lex"] = <<>> /\ fase = "stop" /\ pc = "escanear" /\ documentos = <<>> /\ docLex = <<>>
  BY DEF Init, Fases
<1> QED
  BY <1>1, InicioInv DEF InvVectores, VectorEnCurso, VectoresGrabados, DocumentosEnCurso

(* The invariant of the vectors: the one being built, those recorded, and  *)
(* which documents have one.                                               *)
THEOREM InvVectoresSiempre == Spec => []InvVectores
<1>1. Init => InvVectores
  BY InicioInvVectores
<1>2. InvVectores /\ [Next]_vars => InvVectores'
  <2> SUFFICES ASSUME InvVectores, [Next]_vars PROVE InvVectores'
    OBVIOUS
  <2>1. Inv'
    BY PasoConserva DEF InvVectores
  <2> QED
    BY <2>1, PasoEnCurso, PasoVectores, PasoDocumentos DEF InvVectores
<1> QED
  BY <1>1, <1>2, PTL DEF Spec

(* At any moment the vector of a document has, under the ids the lexicon   *)
(* has then, the words of its file that are not stop words, and no other.  *)
THEOREM SiempreVectoresFieles == Spec => []VectoresFieles
<1>1. InvVectores => VectoresFieles
  <2> SUFFICES ASSUME InvVectores, NEW d \in DOMAIN docLex
               PROVE  LET f == documentos[docLex[d].id].ruta
                          lexico == archivo["lex"]
                          suyos == { i \in DOMAIN lexico : lexico[i].termino \in Indexables(f) }
                      IN  /\ PalabrasDe(lexico) \cap DOMAIN contenido[f] = Indexables(f)
                          /\ DOMAIN docLex[d].terminos = { lexico[i].id : i \in suyos }
                          /\ \A i \in suyos : docLex[d].terminos[lexico[i].id] = contenido[f][lexico[i].termino]
    BY DEF VectoresFieles
  <2> DEFINE f == documentos[d].ruta
             lexico == archivo["lex"]
             suyos == { i \in DOMAIN lexico : lexico[i].termino \in Indexables(f) }
  <2>1. /\ docLex[d].id = d /\ EsVectorDe(docLex[d].terminos, contenido[f], DOMAIN contenido[f], lexico)
        /\ fase # "stop" /\ PalabrasDe(lexico) \cap DeParada = {}
    BY DEF InvVectores, VectoresGrabados
  <2>2. PalabrasDe(lexico) \cap DOMAIN contenido[f] = Indexables(f)
    BY <2>1 DEF EsVectorDe, Indexables, DeParada
  <2>3. { lexico[i].id : i \in suyos } = { r.id : r \in { q \in Rango(lexico) : q.termino \in DOMAIN contenido[f] } }
    BY <2>2 DEF Rango, PalabrasDe
  <2>4. \A i \in suyos : lexico[i] \in Rango(lexico) /\ lexico[i].termino \in DOMAIN contenido[f]
    BY <2>2 DEF Rango
  <2> HIDE DEF suyos, lexico, f
  <2>5. /\ DOMAIN docLex[d].terminos = { lexico[i].id : i \in suyos }
        /\ \A i \in suyos : docLex[d].terminos[lexico[i].id] = contenido[f][lexico[i].termino]
    BY <2>1, <2>3, <2>4 DEF EsVectorDe
  <2> QED
    BY <2>1, <2>2, <2>5 DEF suyos, lexico, f
<1> QED
  BY <1>1, InvVectoresSiempre, PTL

(* A sequence whose elements have different names has as many names.       *)
LEMMA RutasDistintas ==
  ASSUME NEW S, NEW s \in Seq(S), \A i, j \in DOMAIN s : s[i].ruta = s[j].ruta => i = j
  PROVE  Len(s) = Cardinality({ s[i].ruta : i \in DOMAIN s })
<1> DEFINE n == Len(s)
           T == { s[i].ruta : i \in 1 .. n }
           f == [i \in 1 .. n |-> s[i].ruta]
<1>1. n \in Nat /\ DOMAIN s = 1 .. n
  OBVIOUS
<1>2. f \in Surjection(1 .. n, T)
  BY <1>1 DEF Surjection
<1>2a. f \in [1 .. n -> T]
  OBVIOUS
<1>2b. IsInjective(f)
  BY <1>1 DEF IsInjective
<1>3. IsFiniteSet(1 .. n) /\ Cardinality(1 .. n) = n
  BY <1>1, FS_Interval
<1> HIDE DEF f, T
<1>4. Cardinality(T) = n
  <2>1. f \in Injection(1 .. n, T)
    BY <1>2a, <1>2b DEF Injection
  <2> QED
    BY <1>2, <1>3, <2>1, FS_Surjection
<1> QED
  BY <1>1, <1>4 DEF T

(* When the indexer is done the lexicon has the words of the readable      *)
(* files but the stop words, and every readable file with such a word is a *)
(* document, once, under the number of its place in both files.            *)
THEOREM SiempreDocumentosCompletos == Spec => []DocumentosCompletos
<1>1. InvVectores => DocumentosCompletos
  <2> SUFFICES ASSUME InvVectores, Terminado
               PROVE  /\ PalabrasDe(archivo["lex"]) = UNION { Indexables(f) : f \in Legibles(Rutas) }
                      /\ Rango(documentos) = { [id |-> i, ruta |-> documentos[i].ruta] : i \in DOMAIN documentos }
                      /\ RutasGrabadas = { f \in Legibles(Rutas) : Indexables(f) # {} }
                      /\ Len(documentos) = Cardinality(RutasGrabadas)
                      /\ Len(docLex) = Len(documentos)
                      /\ \A i \in DOMAIN docLex : docLex[i].id = documentos[i].id
    BY DEF DocumentosCompletos, RutasGrabadas
  <2>1. Inv /\ VectoresGrabados /\ DocumentosEnCurso
    BY DEF InvVectores
  <2>2. fase = "lex" /\ pendientes = {} /\ pc = "escanear"
    BY DEF Terminado
  <2>3. Mezclados = Legibles(Rutas) /\ Recorridos = Legibles(Rutas)
    BY <2>2 DEF Mezclados, Recorridos, Legibles
  <2>4. documentos \in Seq([id : Nat, ruta : Rutas]) /\ docLex \in Seq(RegistroDocLex)
    BY <2>1 DEF Inv, TypeOK, DocLexOK
  <2>5. Len(documentos) = Cardinality(RutasGrabadas)
    BY <2>1, <2>2, <2>4, RutasDistintas DEF DocumentosEnCurso, RutasGrabadas
  <2>6. \A i \in DOMAIN documentos : documentos[i] = [id |-> i, ruta |-> documentos[i].ruta]
    <3> SUFFICES ASSUME NEW i \in DOMAIN documentos PROVE documentos[i] = [id |-> i, ruta |-> documentos[i].ruta]
      OBVIOUS
    <3>1. i \in DOMAIN docLex
      BY <2>1, <2>4 DEF VectoresGrabados
    <3>2. documentos[i].id = i
      BY <2>1, <3>1 DEF VectoresGrabados
    <3>3. documentos \in Seq([id : Nat, ruta : Rutas])
      BY <2>4
    <3>4. documentos[i] \in [id : Nat, ruta : Rutas]
      <4>1. DOMAIN documentos = 1 .. Len(documentos)
        BY <3>3
      <4>2. i \in 1 .. Len(documentos)
        BY <4>1
      <4> DEFINE S == [id : Nat, ruta : Rutas]
      <4>3. documentos \in Seq(S)
        BY <3>3
      <4> HIDE DEF S
      <4>4. documentos[i] \in S
        BY <4>2, <4>3
      <4> QED
        BY <4>4 DEF S
    <3> QED
      BY <3>2, <3>4
  <2>7. Rango(documentos) = { [id |-> i, ruta |-> documentos[i].ruta] : i \in DOMAIN documentos }
    BY <2>6, Zenon DEF Rango
  <2> QED
    BY <2>1, <2>2, <2>3, <2>5, <2>7 DEF VectoresGrabados, DocumentosEnCurso
<1> QED
  BY <1>1, InvVectoresSiempre, PTL

-----------------------------------------------------------------------------
(* The abstract vocabulary.  The rename at the end of a merge is one step  *)
(* of it, or none.  For that the ids of the new words have to be known in  *)
(* the middle of a merge: the k-th new word in word order got the k-th id  *)
(* after those of the old file.                                            *)

Nuevas == PalabrasDe(tempLexico) \ PalabrasDe(archivo["lex"])
NuevasHasta(w) == { v \in Nuevas : v <= w }

NumerosNuevos ==
  (pc = "mezclar" /\ fase = "lex") =>
    /\ IsFiniteSet(Nuevas)
    /\ nextId = Len(archivo["lex"]) + Cardinality(Nuevas) + 1
    /\ \A r \in Rango(tempLexico) :
         r.termino \in Nuevas => r.id = Len(archivo["lex"]) + Cardinality(NuevasHasta(r.termino))

InvVocabulario == InvVectores /\ NumerosNuevos

(* A record copied from the old lexicon brings no new word.                *)
LEMMA CopiaNumeros ==
  ASSUME Inv, Inv', NumerosNuevos, pc = "mezclar", pc' = "mezclar", HayDato, fase = "lex",
         tempLexico' = Escribir(tempLexico, Dato.id, Dato.termino),
         UNCHANGED <<archivo, fase, nextId>>
  PROVE  NumerosNuevos'
<1> DEFINE id == Dato.id
           w == Dato.termino
<1>1. id \in Nat /\ id > 0 /\ w \in Palabras
  BY DatoEsRegistro
<1>2. w \in PalabrasDe(archivo["lex"])
  <2>1. pos \in DOMAIN archivo["lex"] /\ Dato = archivo["lex"][pos]
    BY DatoEsRegistro
  <2> QED
    BY <2>1 DEF PalabrasDe
<1>3. /\ Rango(tempLexico') = Rango(tempLexico) \cup {[id |-> id, termino |-> w]}
      /\ PalabrasDe(tempLexico') = PalabrasDe(tempLexico) \cup {w}
  <2>1. tempLexico \in Seq(RegistroLexico) /\ tempLexico' = Escribir(tempLexico, id, w)
    BY EnMezcla
  <2> HIDE DEF id, w
  <2> QED
    BY <1>1, <2>1, RangoDeEscribir
<1>4. [id |-> id, termino |-> w].termino = w
  OBVIOUS
<1> HIDE DEF id, w
<1>5. Nuevas' = Nuevas
  BY <1>2, <1>3 DEF Nuevas
<1>6. \A v : NuevasHasta(v)' = NuevasHasta(v)
  BY <1>5 DEF NuevasHasta
<1>7. \A r \in Rango(tempLexico') : r.termino \in Nuevas => r \in Rango(tempLexico)
  BY <1>2, <1>3, <1>4 DEF Nuevas
<1> QED
  BY <1>5, <1>6, <1>7 DEF NumerosNuevos

(* A new word is not in the old lexicon: its records up to the one in hand *)
(* are before it and the others after.                                     *)
LEMMA NuevaNoEsVieja ==
  ASSUME Inv, pc = "mezclar", fase = "lex", NEW w \in curr, EsNueva(w)
  PROVE  w \notin PalabrasDe(archivo["lex"]) /\ \A v \in PalabrasDe(tempLexico) : v < w
<1> DEFINE viejo == archivo["lex"]
<1>1. /\ viejo \in Seq(RegistroLexico) /\ DOMAIN viejo = 1 .. Len(viejo) /\ Len(viejo) \in Nat
      /\ w \in Palabras /\ w \in Int
  <2>1. viejo \in Seq(RegistroLexico) /\ curr \subseteq Palabras
    BY EnMezcla
  <2>2. DOMAIN viejo = 1 .. Len(viejo) /\ Len(viejo) \in Nat
    BY <2>1
  <2>3. w \in Palabras /\ w \in Int
    BY <2>1, PalabrasSonOrdenadas
  <2> QED
    BY <2>1, <2>2, <2>3
<1>2. /\ pos \in 1 .. Len(viejo) + 1 /\ Ordenado(viejo)
      /\ \A j \in 1 .. pos - 1 : \E i \in DOMAIN tempLexico : tempLexico[i] = viejo[j]
      /\ \A i \in DOMAIN tempLexico : tempLexico[i].termino < w
  BY DEF Inv, MezclaCorrecta, LexicoOrdenado, Fases
<1>3. \A j \in DOMAIN viejo : viejo[j].termino \in Int
  <2>1. \A j \in DOMAIN viejo : viejo[j] \in RegistroLexico
    BY <1>1
  <2> QED
    BY <2>1, PalabrasSonOrdenadas DEF RegistroLexico
<1>4. HayDato => viejo[pos].termino > w
  BY DEF EsNueva, Dato
<1> HIDE DEF viejo
<1>5. ASSUME NEW j \in DOMAIN viejo, viejo[j].termino = w PROVE FALSE
  <2>1. CASE j < pos
    <3>1. j \in 1 .. pos - 1
      BY <1>1, <1>2, <2>1
    <3>2. viejo[j].termino < w
      BY <1>2, <3>1
    <3> QED
      BY <1>1, <1>5, <3>2
  <2>2. CASE j = pos
    BY <1>1, <1>2, <1>4, <1>5, <2>2 DEF HayDato, viejo
  <2>3. CASE j > pos
    <3>1. pos \in DOMAIN viejo /\ pos <= Len(viejo)
      BY <1>1, <1>2, <2>3
    <3>2. viejo[pos].termino > w /\ viejo[pos].termino < viejo[j].termino
      BY <1>2, <1>4, <2>3, <3>1 DEF HayDato, Ordenado, viejo
    <3> QED
      BY <1>1, <1>3, <1>5, <3>1, <3>2
  <2> QED
    BY <1>1, <1>2, <2>1, <2>2, <2>3
<1> QED
  BY <1>2, <1>5 DEF PalabrasDe, viejo

LEMMA AgregarNuevaNumeros ==
  ASSUME Inv, Inv', VectorEnCurso, NumerosNuevos, AgregarNueva
  PROVE  NumerosNuevos'
<1>1. PICK w \in curr :
        /\ EsNueva(w)
        /\ IF EsStop(w)
           THEN UNCHANGED <<tempLexico, mergedItems, nextId>>
           ELSE /\ tempLexico' = Escribir(tempLexico, nextId, w)
                /\ nextId' = nextId + 1
  BY DEF AgregarNueva
<1>2. pc = "mezclar" /\ pc' = "mezclar" /\ UNCHANGED <<contenido, fase, archivo, ruta>>
  BY DEF AgregarNueva
<1> SUFFICES ASSUME fase = "lex", ~ EsStop(w) PROVE NumerosNuevos'
  <2>1. CASE fase # "lex"
    BY <1>2, <2>1 DEF NumerosNuevos
  <2>2. CASE fase = "lex" /\ EsStop(w)
    BY <1>1, <1>2, <2>2 DEF NumerosNuevos, Nuevas, NuevasHasta
  <2> QED
    BY <2>1, <2>2
<1> DEFINE n == Len(archivo["lex"])
           nuevo == [id |-> nextId, termino |-> w]
<1>3. tempLexico' = Escribir(tempLexico, nextId, w) /\ nextId' = nextId + 1 /\ n \in Nat /\ nextId \in Nat
      /\ nextId > 0 /\ w \in Palabras /\ tempLexico \in Seq(RegistroLexico)
  BY <1>1, <1>2, EnMezcla
<1>4. w \notin PalabrasDe(archivo["lex"]) /\ \A v \in PalabrasDe(tempLexico) : v < w
  BY <1>1, <1>2, NuevaNoEsVieja
<1>5. /\ Rango(tempLexico') = Rango(tempLexico) \cup {nuevo}
      /\ PalabrasDe(tempLexico') = PalabrasDe(tempLexico) \cup {w}
  BY <1>3, RangoDeEscribir
<1>6. w \notin PalabrasDe(tempLexico)
  BY <1>2, <1>3, EscrituraNueva
<1>7. /\ IsFiniteSet(Nuevas) /\ nextId = n + Cardinality(Nuevas) + 1
      /\ \A r \in Rango(tempLexico) : r.termino \in Nuevas => r.id = n + Cardinality(NuevasHasta(r.termino))
  BY <1>2 DEF NumerosNuevos
<1>8. Nuevas' = Nuevas \cup {w} /\ w \notin Nuevas /\ n' = n
  BY <1>2, <1>4, <1>5, <1>6 DEF Nuevas
<1>9. IsFiniteSet(Nuevas') /\ Cardinality(Nuevas') = Cardinality(Nuevas) + 1 /\ Cardinality(Nuevas) \in Nat
  BY <1>7, <1>8, FS_AddElement, FS_CardinalityType
<1>10. \A v \in Nuevas : v \in PalabrasDe(tempLexico) /\ v \in Int /\ w \in Int /\ v < w
  BY <1>3, <1>4, RangoDeRegistros, PalabrasSonOrdenadas DEF Nuevas
<1>11. \A v \in Nuevas : NuevasHasta(v)' = NuevasHasta(v)
  BY <1>8, <1>10 DEF NuevasHasta
<1>12. NuevasHasta(w)' = Nuevas'
  <2>1. w \in Int
    BY <1>3, PalabrasSonOrdenadas
  <2> QED
    BY <1>8, <1>10, <2>1 DEF NuevasHasta
<1>13. nuevo.id = nextId /\ nuevo.termino = w
  OBVIOUS
<1> HIDE DEF nuevo
<1>14. ASSUME NEW r \in Rango(tempLexico'), r.termino \in Nuevas'
       PROVE  r.id = n + Cardinality(NuevasHasta(r.termino)')
  <2>1. CASE r = nuevo
    <3>1. r.id = n + Cardinality(Nuevas) + 1
      BY <1>7, <1>13, <2>1
    <3>2. NuevasHasta(r.termino)' = Nuevas'
      BY <1>12, <1>13, <2>1
    <3> QED
      BY <1>3, <1>9, <3>1, <3>2
  <2>2. CASE r \in Rango(tempLexico)
    <3>1. r.termino \in PalabrasDe(tempLexico)
      BY <2>2, PalabrasDelRango
    <3>2. r.termino \in Nuevas
      BY <1>6, <1>8, <1>14, <3>1
    <3> QED
      BY <1>7, <1>11, <2>2, <3>2
  <2> QED
    BY <1>5, <2>1, <2>2
<1>15. nextId' = n + Cardinality(Nuevas') + 1
  BY <1>3, <1>7, <1>9
<1> QED
  BY <1>8, <1>9, <1>14, <1>15 DEF NumerosNuevos

LEMMA PasoNumeros ==
  ASSUME InvVectores, Inv', NumerosNuevos, [Next]_vars
  PROVE  NumerosNuevos'
<1>0. Inv /\ VectorEnCurso
  BY DEF InvVectores
<1>1. CASE \E f \in Rutas \cup RutasStop : EmpezarMerge(f)
  <2>1. PICK f \in Rutas \cup RutasStop : EmpezarMerge(f)
    BY <1>1
  <2>2. tempLexico' = <<>> /\ archivo' = archivo /\ fase' = fase /\ nextId' = Len(archivo[fase]) + 1
    BY <2>1 DEF EmpezarMerge, PrimerId
  <2>3. Rango(tempLexico') = {} /\ Nuevas' = {}
    BY <2>2 DEF Rango, Nuevas, PalabrasDe
  <2>4. IsFiniteSet({}) /\ Cardinality({}) = 0
    BY FS_EmptySet
  <2>5. ASSUME fase = "lex" PROVE nextId' = Len(archivo["lex"]) + 0 + 1
    <3>1. Len(archivo["lex"]) \in Nat
      BY <1>0 DEF Inv, TypeOK, Fases
    <3> QED
      BY <2>2, <2>5, <3>1
  <2> QED
    BY <2>2, <2>3, <2>4, <2>5 DEF NumerosNuevos
<1>2. CASE Coincide
  <2>1. fase # "lex" => NumerosNuevos'
    BY <1>2 DEF Coincide, NumerosNuevos
  <2>2. /\ pc = "mezclar" /\ pc' = "mezclar" /\ HayDato /\ tempLexico' = Escribir(tempLexico, Dato.id, Dato.termino)
        /\ UNCHANGED <<archivo, fase, nextId>>
    BY <1>2 DEF Coincide
  <2> QED
    BY <1>0, <2>1, <2>2, CopiaNumeros
<1>3. CASE ConservarViejo
  <2>1. fase # "lex" => NumerosNuevos'
    BY <1>3 DEF ConservarViejo, NumerosNuevos
  <2>2. /\ pc = "mezclar" /\ pc' = "mezclar" /\ HayDato /\ tempLexico' = Escribir(tempLexico, Dato.id, Dato.termino)
        /\ UNCHANGED <<archivo, fase, nextId>>
    BY <1>3 DEF ConservarViejo
  <2> QED
    BY <1>0, <2>1, <2>2, CopiaNumeros
<1>4. CASE AgregarNueva
  BY <1>0, <1>4, AgregarNuevaNumeros
<1>5. CASE Reemplazar \/ GrabarDocumento
  <2>1. pc' # "mezclar"
    BY <1>5 DEF Reemplazar, GrabarDocumento
  <2> QED
    BY <2>1 DEF NumerosNuevos
<1>6. CASE IndexarDocumentos \/ \E f \in Rutas \cup RutasStop : ArchivoRoto(f)
  <2>1. pc' = "escanear"
    BY <1>6 DEF IndexarDocumentos, ArchivoRoto
  <2> QED
    BY <2>1 DEF NumerosNuevos
<1>7. CASE UNCHANGED vars
  BY <1>7 DEF NumerosNuevos, Nuevas, NuevasHasta, vars, merge
<1> QED
  BY <1>1, <1>2, <1>3, <1>4, <1>5, <1>6, <1>7 DEF Next

-----------------------------------------------------------------------------
(* The mapping.                                                            *)

(* The id of a word of a sorted lexicon file.                              *)
LEMMA IdDeRegistro ==
  ASSUME NEW s \in Seq(RegistroLexico), Ordenado(s), NEW r \in Rango(s)
  PROVE  (CHOOSE q \in Rango(s) : q.termino = r.termino).id = r.id
<1> DEFINE c == CHOOSE q \in Rango(s) : q.termino = r.termino
<1>1. c \in Rango(s) /\ c.termino = r.termino
  OBVIOUS
<1> HIDE DEF c
<1>2. c = r
  BY <1>1, TerminosUnicos
<1> QED
  BY <1>2 DEF c

(* A sorted lexicon file has as many words as records.                     *)
LEMMA CuantasPalabras ==
  ASSUME NEW s \in Seq(RegistroLexico), Ordenado(s)
  PROVE  IsFiniteSet(PalabrasDe(s)) /\ Cardinality(PalabrasDe(s)) = Len(s)
<1> DEFINE n == Len(s)
           T == PalabrasDe(s)
           f == [i \in 1 .. n |-> s[i].termino]
<1>1. n \in Nat /\ DOMAIN s = 1 .. n
  OBVIOUS
<1>2. f \in Surjection(1 .. n, T)
  BY <1>1 DEF Surjection, PalabrasDe
<1>3. \A i, j \in 1 .. n : s[i].termino = s[j].termino => i = j
  <2>1. \A i \in 1 .. n : s[i].termino \in Int
    <3>1. \A i \in 1 .. n : s[i] \in RegistroLexico
      BY <1>1
    <3> QED
      BY <3>1, PalabrasSonOrdenadas DEF RegistroLexico
  <2>2. SUFFICES ASSUME NEW i \in 1 .. n, NEW j \in 1 .. n, s[i].termino = s[j].termino, i < j PROVE FALSE
    BY <1>1
  <2>3. s[i].termino < s[j].termino
    BY <1>1, <2>2 DEF Ordenado
  <2> QED
    BY <2>1, <2>2, <2>3
<1>4. f \in [1 .. n -> T]
  BY <1>1 DEF PalabrasDe
<1>5. IsInjective(f)
  BY <1>3 DEF IsInjective
<1>6. IsFiniteSet(1 .. n) /\ Cardinality(1 .. n) = n
  BY <1>1, FS_Interval
<1> HIDE DEF f, T
<1>7. f \in Injection(1 .. n, T)
  BY <1>4, <1>5 DEF Injection
<1>8. Cardinality(T) = n /\ IsFiniteSet(T)
  BY <1>2, <1>6, <1>7, FS_Surjection
<1> QED
  BY <1>8 DEF T

LEMMA InicioVocabulario == Init => V!Init
<1> SUFFICES ASSUME Init PROVE V!Init
  OBVIOUS
<1>1. archivo["lex"] = <<>> /\ docLex = <<>>
  BY DEF Init, Fases
<1>2. PalabrasDe(archivo["lex"]) = {}
  BY <1>1 DEF PalabrasDe
<1>3. idsActuales = [w \in {} |-> 0]
  BY <1>2 DEF idsActuales
<1>4. vectoresActuales = <<>>
  BY <1>1 DEF vectoresActuales
<1> QED
  BY <1>3, <1>4 DEF V!Init

LEMMA MismoCardinal == \A S : V!Cardinality(S) = Cardinality(S)
BY DEF V!Cardinality, Cardinality

(* The rename of a merge of a document: the new words get their ids.       *)
LEMMA ReemplazarAprende ==
  ASSUME InvVocabulario, Inv', Reemplazar, fase = "lex"
  PROVE  [V!Next]_(V!vars)
<1> DEFINE viejo == archivo["lex"]
           n == Len(viejo)
           i0 == idsActuales
           i1 == idsActuales'
<1>0. Inv /\ VectorEnCurso /\ VectoresGrabados /\ NumerosNuevos /\ pc = "mezclar" /\ docLex' = docLex
  BY DEF InvVocabulario, InvVectores, Reemplazar
<1>1. /\ archivo'["lex"] = tempLexico /\ tempLexico \in Seq(RegistroLexico) /\ Ordenado(tempLexico)
      /\ Rango(viejo) \subseteq Rango(tempLexico)
  BY <1>0, LexicoReemplazado
<1>2. viejo \in Seq(RegistroLexico) /\ Ordenado(viejo)
  BY <1>0, EnMezcla DEF Inv, LexicoOrdenado, Fases
<1>3. vectoresActuales' = vectoresActuales
  BY <1>0 DEF vectoresActuales
<1>4. /\ DOMAIN i0 = PalabrasDe(viejo) /\ DOMAIN i1 = PalabrasDe(tempLexico)
      /\ i0 = [w \in DOMAIN i0 |-> i0[w]] /\ i1 = [w \in DOMAIN i1 |-> i1[w]]
  BY <1>1 DEF idsActuales
<1>5. ASSUME NEW r \in Rango(viejo) PROVE i0[r.termino] = r.id
  <2>1. r.termino \in PalabrasDe(viejo)
    BY PalabrasDelRango
  <2>2. (CHOOSE q \in Rango(viejo) : q.termino = r.termino).id = r.id
    BY <1>2, IdDeRegistro
  <2> QED
    BY <2>1, <2>2 DEF idsActuales
<1>6. ASSUME NEW r \in Rango(tempLexico) PROVE i1[r.termino] = r.id
  <2>1. r.termino \in PalabrasDe(tempLexico)
    BY PalabrasDelRango
  <2>2. (CHOOSE q \in Rango(tempLexico) : q.termino = r.termino).id = r.id
    BY <1>1, IdDeRegistro
  <2> QED
    BY <1>1, <2>1, <2>2 DEF idsActuales
<1> HIDE DEF i0, i1
<1>7. PalabrasDe(viejo) \subseteq PalabrasDe(tempLexico)
  BY <1>1, PalabrasDelRango
<1>8. \A w \in DOMAIN i0 : i1[w] = i0[w]
  <2> SUFFICES ASSUME NEW w \in PalabrasDe(viejo) PROVE i1[w] = i0[w]
    BY <1>4
  <2>1. PICK r \in Rango(viejo) : r.termino = w
    BY PalabrasDelRango
  <2> QED
    BY <1>1, <1>5, <1>6, <2>1
<1>9. /\ DOMAIN i1 = DOMAIN i0 \cup Nuevas /\ Nuevas \cap DOMAIN i0 = {}
      /\ Nuevas \subseteq Palabras
  BY <1>1, <1>4, <1>7, RangoDeRegistros DEF Nuevas
<1>10. Cardinality(DOMAIN i0) = n
  BY <1>2, <1>4, CuantasPalabras
<1>11. \A w \in Nuevas : i1[w] = Cardinality(DOMAIN i0) + Cardinality({ v \in Nuevas : v <= w })
  <2> SUFFICES ASSUME NEW w \in Nuevas PROVE i1[w] = n + Cardinality(NuevasHasta(w))
    BY <1>10 DEF NuevasHasta
  <2>1. PICK r \in Rango(tempLexico) : r.termino = w
    BY PalabrasDelRango DEF Nuevas
  <2>2. r.id = n + Cardinality(NuevasHasta(w))
    BY <1>0, <2>1 DEF NumerosNuevos
  <2> QED
    BY <1>6, <2>1, <2>2
<1>12. CASE Nuevas = {}
  <2>1. i1 = i0
    BY <1>4, <1>8, <1>9, <1>12
  <2> QED
    BY <1>3, <2>1 DEF V!vars, i0, i1
<1>13. CASE Nuevas # {}
  <2>1. i1 = [w \in DOMAIN i0 \cup Nuevas |->
                IF w \in Nuevas THEN Cardinality(DOMAIN i0) + Cardinality({ v \in Nuevas : v <= w })
                ELSE i0[w]]
    BY <1>4, <1>8, <1>9, <1>11
  <2>2. V!Aprender(Nuevas)
    BY <1>3, <1>9, <1>13, <2>1, MismoCardinal DEF V!Aprender, i0, i1
  <2> QED
    BY <1>9, <2>2 DEF V!Next
<1> QED
  BY <1>12, <1>13

(* A document is recorded: with the words of its file that are not stop    *)
(* words, all of them learnt.                                              *)
LEMMA GrabarDocumentoRegistra ==
  ASSUME InvVocabulario, GrabarDocumento
  PROVE  V!Next
<1> DEFINE lexico == archivo["lex"]
           c == contenido[ruta]
           conteo == [w \in Indexables(ruta) |-> c[w]]
           i0 == idsActuales
           n == Len(docLex)
<1>0. Inv /\ VectorEnCurso /\ VectoresGrabados
  BY DEF InvVocabulario, InvVectores
<1>1. /\ pc = "grabar" /\ archivo' = archivo
      /\ docLex' = Append(docLex, [id |-> Len(documentos) + 1, terminos |-> mergedItems])
  BY DEF GrabarDocumento
<1>2. fase = "lex" /\ ruta \in Rutas /\ contenido[ruta] # Roto
  BY <1>0, <1>1 DEF Inv, Contexto, RutasDeFase
<1>3. c \in WordPair
  BY <1>0, <1>2 DEF Inv, TypeOK
<1>4. /\ lexico \in Seq(RegistroLexico) /\ Ordenado(lexico) /\ PalabrasDe(lexico) \cap DeParada = {}
      /\ \A q, r \in Rango(lexico) : q.id = r.id => q = r
  <2>1. lexico \in Seq(RegistroLexico) /\ Ordenado(lexico) /\ IdsUnicos(lexico)
    BY <1>0 DEF Inv, TypeOK, LexicoOrdenado, IdsDensos, Fases
  <2>2. PalabrasDe(lexico) \cap DeParada = {}
    BY <1>0, <1>2 DEF VectoresGrabados
  <2> QED
    BY <2>1, <2>2, IdsDelRango DEF IdsUnicos
<1>5. DOMAIN mergedItems # {} /\ EsVectorDe(mergedItems, c, DOMAIN c, lexico)
  BY <1>0, <1>1 DEF VectorEnCurso
<1>6. i0' = i0
  BY <1>1 DEF idsActuales
<1>7. DOMAIN i0 = PalabrasDe(lexico)
  BY DEF idsActuales
<1>8. \A r \in Rango(lexico) : i0[r.termino] = r.id
  <2> SUFFICES ASSUME NEW r \in Rango(lexico) PROVE i0[r.termino] = r.id
    OBVIOUS
  <2>1. r.termino \in PalabrasDe(lexico)
    BY PalabrasDelRango
  <2>2. (CHOOSE q \in Rango(lexico) : q.termino = r.termino).id = r.id
    BY <1>4, IdDeRegistro
  <2> QED
    BY <2>1, <2>2 DEF idsActuales
<1> HIDE DEF i0, lexico
<1>9. Indexables(ruta) = DOMAIN c \ DeParada
  BY DEF Indexables, DeParada
<1>10. PalabrasDe(lexico) \cap DOMAIN c = Indexables(ruta)
  BY <1>4, <1>5, <1>9 DEF EsVectorDe
<1>11. Indexables(ruta) \in SUBSET Palabras /\ conteo \in [Indexables(ruta) -> Pesos]
  BY <1>3, <1>9 DEF WordPair
<1>12. DOMAIN mergedItems = { r.id : r \in { q \in Rango(lexico) : q.termino \in Indexables(ruta) } }
  <2>1. \A q \in Rango(lexico) : q.termino \in DOMAIN c <=> q.termino \in Indexables(ruta)
    BY <1>10, PalabrasDelRango
  <2>2. { q \in Rango(lexico) : q.termino \in DOMAIN c } = { q \in Rango(lexico) : q.termino \in Indexables(ruta) }
    BY <2>1
  <2> QED
    BY <1>5, <2>2 DEF EsVectorDe
<1>13. DOMAIN conteo = Indexables(ruta) /\ \A w \in Indexables(ruta) : conteo[w] = c[w]
  OBVIOUS
<1> HIDE DEF conteo, c
<1>14. DOMAIN conteo # {} /\ DOMAIN conteo \subseteq DOMAIN i0
  BY <1>5, <1>7, <1>10, <1>12, <1>13
<1> DEFINE suyos == { i0[w] : w \in DOMAIN conteo }
           palabra(id) == CHOOSE w \in DOMAIN conteo : i0[w] = id
<1>15. suyos = DOMAIN mergedItems
  <2>1. \A w \in Indexables(ruta) : \E r \in Rango(lexico) : r.termino = w
    BY <1>10, PalabrasDelRango
  <2> QED
    BY <1>8, <1>12, <1>13, <2>1
<1>16. ASSUME NEW id \in suyos PROVE mergedItems[id] = conteo[palabra(id)]
  <2>1. palabra(id) \in Indexables(ruta) /\ i0[palabra(id)] = id
    BY <1>13
  <2>2. PICK r \in Rango(lexico) : r.termino = palabra(id)
    BY <1>10, <2>1, PalabrasDelRango
  <2>3. r.id = id /\ r.termino \in DOMAIN c
    BY <1>8, <1>10, <2>1, <2>2
  <2>4. mergedItems[r.id] = c[r.termino]
    BY <1>5, <2>3 DEF EsVectorDe
  <2> HIDE DEF palabra
  <2> QED
    BY <1>13, <2>1, <2>2, <2>3, <2>4
<1>17. mergedItems = [id \in suyos |-> conteo[palabra(id)]]
  <2>1. mergedItems = [id \in DOMAIN mergedItems |-> mergedItems[id]]
    BY <1>0 DEF Inv, TypeOK, EsVector
  <2> HIDE DEF suyos, palabra
  <2> QED
    BY <1>15, <1>16, <2>1
<1>18. vectoresActuales' = Append(vectoresActuales, mergedItems)
  <2>1. docLex \in Seq(RegistroDocLex) /\ n \in Nat
    BY <1>0 DEF Inv, DocLexOK
  <2>2. /\ DOMAIN docLex = 1 .. n /\ DOMAIN docLex' = 1 .. n + 1
        /\ docLex'[n + 1].terminos = mergedItems /\ \A d \in 1 .. n : docLex'[d] = docLex[d]
    BY <1>1, <2>1
  <2>3. vectoresActuales = [d \in 1 .. n |-> docLex[d].terminos]
    BY <2>2 DEF vectoresActuales
  <2>4. vectoresActuales' = [d \in 1 .. n + 1 |-> IF d = n + 1 THEN mergedItems ELSE docLex[d].terminos]
    <3>1. vectoresActuales' = [d \in 1 .. n + 1 |-> docLex'[d].terminos]
      BY <2>2 DEF vectoresActuales
    <3>2. \A d \in 1 .. n + 1 : docLex'[d].terminos = IF d = n + 1 THEN mergedItems ELSE docLex[d].terminos
      BY <2>1, <2>2
    <3> QED
      BY <3>1, <3>2
  <2>5. Len(vectoresActuales) = n
    BY <2>1, <2>3
  <2> QED
    BY <2>1, <2>3, <2>4, <2>5
<1>19. V!Registrar(conteo)
  BY <1>6, <1>14, <1>17, <1>18 DEF V!Registrar, i0
<1> QED
  BY <1>11, <1>19 DEF V!Next

LEMMA PasoImplementa ==
  ASSUME InvVocabulario, Inv', [Next]_vars
  PROVE  [V!Next]_(V!vars)
<1>1. CASE Reemplazar /\ fase = "lex"
  BY <1>1, ReemplazarAprende
<1>2. CASE GrabarDocumento
  BY <1>2, GrabarDocumentoRegistra
<1>3. CASE archivo'["lex"] = archivo["lex"] /\ docLex' = docLex
  <2>1. idsActuales' = idsActuales /\ vectoresActuales' = vectoresActuales
    BY <1>3 DEF idsActuales, vectoresActuales
  <2> QED
    BY <2>1 DEF V!vars
<1>4. CASE Reemplazar /\ fase = "stop"
  <2>1. archivo'["lex"] = archivo["lex"] /\ docLex' = docLex
    BY <1>4 DEF Reemplazar, InvVocabulario, InvVectores, Inv, TypeOK, Fases
  <2> QED
    BY <1>3, <2>1
<1>5. fase \in {"stop", "lex"}
  BY DEF InvVocabulario, InvVectores, Inv, TypeOK, Fases
<1>6. Reemplazar \/ GrabarDocumento \/ (archivo' = archivo /\ docLex' = docLex)
  BY DEF Next, vars, ArchivoRoto, EmpezarMerge, Coincide, ConservarViejo, AgregarNueva, IndexarDocumentos
<1> QED
  BY <1>1, <1>2, <1>3, <1>4, <1>5, <1>6

(* The ids of the new words are known in the middle of a merge too.        *)
THEOREM InvVocabularioSiempre == Spec => []InvVocabulario
<1>1. Init => InvVocabulario
  <2>1. Init => NumerosNuevos
    BY DEF Init, NumerosNuevos
  <2> QED
    BY <2>1, InicioInvVectores DEF InvVocabulario
<1>2. InvVocabulario /\ InvVectores' /\ [Next]_vars => InvVocabulario'
  BY PasoNumeros DEF InvVocabulario, InvVectores
<1> QED
  BY <1>1, <1>2, InvVectoresSiempre, PTL DEF Spec

(* The indexer, with its temporary files, its renames and its two document *)
(* files, keeps the promise of the vocabulary: a word gets an id once, the *)
(* next free one, in word order within a document.                         *)
THEOREM LexicoImplementaVocabulario == Spec => ImplementaVocabulario
<1>1. Init => V!Init
  BY InicioVocabulario
<1>2. InvVocabulario /\ InvVocabulario' /\ [Next]_vars => [V!Next]_(V!vars)
  BY PasoImplementa DEF InvVocabulario, InvVectores
<1> QED
  BY <1>1, <1>2, InvVocabularioSiempre, PTL DEF Spec, ImplementaVocabulario, V!Spec
=============================================================================
