------------------------------ MODULE Busqueda ------------------------------
(***************************************************************************)
(* Search: a query over the index that buildLeaders wrote, with the two    *)
(* methods of the engine, doSearch ("lead": the best leader, its followers *)
(* and the documents without leader) and doSearchAll ("all").  One step    *)
(* per word of the query and per document ranked; the text of the query    *)
(* goes through the parser of Consulta.                                    *)
(*                                                                         *)
(* A rank is [num, den], the number      *)
(* num / sqrt(den): ranks are compared without rounding.                   *)
(***************************************************************************)
EXTENDS Lideres, Consulta

CONSTANTS
  Textos(_),   \* the texts asked of an index of that many documents
  Terminos,    \* lexical.dat, word -> id, without the words no text has
  StopWords    \* the words of the stop list

(* What Lexico shows of the files buildIndex leaves: ids are positive and  *)
(* different, and no stop word has one.                                    *)
ASSUME PalabrasDelLexico ==
  /\ \A w \in DOMAIN Terminos : Terminos[w] \in Nat \ {0} /\ w \notin StopWords
  /\ \A v, w \in DOMAIN Terminos : v # w => Terminos[v] # Terminos[w]
(* A text is of characters.                                                *)
ASSUME TextosDeCaracteres == \A s \in Entradas : \A t \in Textos(Len(s)) : t \in Seq(STRING)
(* documents.dat has a record for each document indexed, by id.            *)
ASSUME DocumentosEnOrden == \A s \in Entradas : { s[i].id : i \in 1..Len(s) } = 1..Len(s)

VARIABLES
  paso,         \* where the search is
  texto,        \* the text asked
  query,        \* the words asked for
  queryIt,      \* how many of them were looked up
  useLeader,    \* the method
  queryPair,    \* id -> weight
  include, exclude,
  mustExcludeNotInLex,
  pos,          \* how many documents of the current file were ranked
  best,         \* doSearch: the position of the best leader so far, 0 for none
  encontrados,  \* the multimap, in order: records [id, rank]
  result        \* the paths answered, as the ids of their documents

palabras == <<texto, query, queryIt, useLeader, queryPair, include, exclude, mustExcludeNotInLex>>
busca == <<paso, palabras, pos, best, encontrados, result>>
todo == <<vars, busca>>

InitBusqueda ==
  /\ Init
  /\ paso = "espera" /\ texto = <<>> /\ query = <<>> /\ queryIt = 0 /\ useLeader = FALSE
  /\ queryPair = [t \in {} |-> 0] /\ include = {} /\ exclude = {} /\ mustExcludeNotInLex = FALSE
  /\ pos = 0 /\ best = 0 /\ encontrados = <<>> /\ result = <<>>

-----------------------------------------------------------------------------
(* Ranks.                                                                  *)

Fijo(n) == [num |-> n, den |-> 1]
Coseno(d) ==
  LET n == Numerador(d, queryPair) IN
  IF n = 0 THEN Fijo(0) ELSE [num |-> n, den |-> Norma2(d) * Norma2(queryPair)]

doCosine(d) ==
  IF exclude \cap DOMAIN d # {} \/ (include # {} /\ include \cap DOMAIN d = {}) THEN Fijo(-1)
  ELSE IF DOMAIN queryPair = {} THEN Fijo(1) ELSE Coseno(d)

Rank(d) == doCosine(d.terminos)

ConSigno2(n) == IF n < 0 THEN -(n * n) ELSE n * n
Supera(r, s) == ConSigno2(r.num) * s.den > ConSigno2(s.num) * r.den

(* Equal ranks got from other numbers may differ once rounded.             *)
PuedeSuperar(r, s) == r # s /\ ~ Supera(s, r)

(* Fault: the key is the rank.                                             *)
Lugares_AlReves(r) ==
  { p \in 0..Len(encontrados) :
      /\ \A i \in 1..p : ~ Supera(encontrados[i].rank, r)
      /\ \A i \in (p + 1)..Len(encontrados) : PuedeSuperar(encontrados[i].rank, r) }

(* Where the multimap puts 1 - r: after the keys that are not greater.     *)
Lugares(r) ==
  { p \in 0..Len(encontrados) :
      /\ \A i \in 1..p : ~ Supera(r, encontrados[i].rank)
      /\ \A i \in (p + 1)..Len(encontrados) : PuedeSuperar(r, encontrados[i].rank) }

(* if ( rankCos > 0 ) encontrados.insert( ... ).                           *)
Agregar(d) ==
  IF Rank(d).num > 0
  THEN \E p \in Lugares(Rank(d)) :
         encontrados' = InsertAt(encontrados, p + 1, [id |-> d.id, rank |-> Rank(d)])
  ELSE UNCHANGED encontrados

-----------------------------------------------------------------------------
Indexado == leidos = docCount /\ (docCount > 0 => aLeaders # <<>>)

(* procesar: a text the parser does not take is answered with an error.    *)
Preguntar ==
  /\ paso = "espera" /\ Indexado
  /\ texto' \in Textos(docCount) /\ useLeader' \in BOOLEAN
  /\ \E cxx11 \in BOOLEAN : query' = Parse(texto', cxx11)
  /\ paso' = IF EsInvalida(query') THEN "error" ELSE "consulta"
  /\ UNCHANGED <<vars, queryIt, queryPair, include, exclude, mustExcludeNotInLex, pos, best, encontrados, result>>

(* buscarTermino on the lexicon: -1 when the word is not found.            *)
Id(word) == IF word \in DOMAIN Terminos THEN Terminos[word] ELSE -1

(* A word of the query: a stop word is skipped, one the lexicon does not   *)
(* have gets the id -1.                                                    *)
BuscarPalabra ==
  LET q == query[queryIt + 1]
      found == q.word \in DOMAIN Terminos
      id == Id(q.word)
      isStop == q.word \in StopWords
  IN  /\ paso = "consulta" /\ queryIt < Len(query)
      /\ queryIt' = queryIt + 1
      /\ exclude' = exclude \cup (IF ~isStop /\ q.excluded THEN {id} ELSE {})
      /\ mustExcludeNotInLex' = (mustExcludeNotInLex \/ (~isStop /\ q.excluded))
      /\ include' = include \cup (IF ~isStop /\ q.included THEN {id} ELSE {})
      /\ queryPair' = IF ~isStop /\ ~q.excluded /\ found
                      THEN [t \in DOMAIN queryPair \cup {id} |-> IF t = id THEN q.weight ELSE queryPair[t]]
                      ELSE queryPair
      /\ UNCHANGED <<vars, paso, texto, query, useLeader, pos, best, encontrados, result>>

(* A query of words that do not count or that no document has ends here.   *)
Abrir ==
  /\ paso = "consulta" /\ queryIt = Len(query)
  /\ paso' = IF DOMAIN queryPair # {} \/ mustExcludeNotInLex THEN "lideres" ELSE "fin"
  /\ UNCHANGED <<vars, palabras, pos, best, encontrados, result>>

bestCos == IF best = 0 THEN Fijo(-1) ELSE Rank(aLeaders[best])

(* Fault: of the leaders that rank, the last one read wins.                *)
ElegirLider_ElUltimo(d) ==
  IF Rank(d).num >= 0 THEN best' = pos + 1 ELSE UNCHANGED best

(* if ( rankCos > bestCos ).                                               *)
ElegirLider(d) ==
  \/ PuedeSuperar(Rank(d), bestCos) /\ best' = pos + 1
  \/ ~ Supera(Rank(d), bestCos) /\ UNCHANGED best

RankearLider ==
  /\ paso = "lideres" /\ pos < Len(aLeaders)
  /\ pos' = pos + 1
  /\ IF useLeader THEN ElegirLider(aLeaders[pos + 1]) /\ UNCHANGED encontrados
                  ELSE Agregar(aLeaders[pos + 1]) /\ UNCHANGED best
  /\ UNCHANGED <<vars, paso, palabras, result>>

(* doSearch goes on to the followers of the best leader, when its rank is  *)
(* 0 or more; doSearchAll, to all of them.                                 *)
FinLideres ==
  /\ paso = "lideres" /\ pos = Len(aLeaders)
  /\ pos' = 0
  /\ IF useLeader /\ bestCos.num < 0
     THEN paso' = "sinLider" /\ UNCHANGED encontrados
     ELSE paso' = "seguidores" /\ (IF useLeader THEN Agregar(aLeaders[best]) ELSE UNCHANGED encontrados)
  /\ UNCHANGED <<vars, palabras, best, result>>

(* The offsets to read: those of the best leader, by id, or the whole file.*)
Offsets ==
  IF useLeader
  THEN LET suyos == aLeaders[best].seguidores
           ids == EnOrden(DOMAIN suyos)
       IN  [i \in 1..Len(ids) |-> suyos[ids[i]]]
  ELSE [i \in 1..Len(followers) |-> _tamanio * (i - 1)]

RankearSeguidor ==
  /\ paso = "seguidores" /\ pos < Len(Offsets)
  /\ pos' = pos + 1
  /\ Agregar(leerOffset(Offsets[pos + 1]))
  /\ UNCHANGED <<vars, paso, palabras, best, result>>

FinSeguidores ==
  /\ paso = "seguidores" /\ pos = Len(Offsets)
  /\ pos' = 0 /\ paso' = "sinLider"
  /\ UNCHANGED <<vars, palabras, best, encontrados, result>>

RankearSinLider ==
  /\ paso = "sinLider" /\ pos < Len(withoutLeader)
  /\ pos' = pos + 1
  /\ Agregar(withoutLeader[pos + 1])
  /\ UNCHANGED <<vars, paso, palabras, best, result>>

-----------------------------------------------------------------------------
(* Fault: the half that is kept does not have its last record.             *)
buscarPorId_Corta(docId) ==
  LET impl[r \in (0..docCount) \X (-1..docCount - 1) \X (0..docCount)] ==
        LET minimo == r[1]
            maximo == r[2]
            posToRead == (maximo + minimo) \div 2
        IN  IF minimo >= maximo THEN r[3]
            ELSE IF posToRead + 1 = docId THEN posToRead + 1
            ELSE IF docId > posToRead + 1 THEN impl[<<posToRead + 1, maximo, posToRead + 1>>]
            ELSE impl[<<minimo, posToRead - 1, posToRead + 1>>]
  IN  impl[<<0, docCount - 1, 0>>]

(* The record that foundData is left with, the last one read; that at p is *)
(* of id p + 1.  The caller does not look at whether it was found.         *)
buscarPorId(docId) ==
  LET impl[r \in (0..docCount) \X (-1..docCount - 1) \X (0..docCount)] ==
        LET minimo == r[1]
            maximo == r[2]
            posToRead == (maximo + minimo) \div 2
        IN  IF minimo > maximo THEN r[3]
            ELSE IF posToRead + 1 = docId THEN posToRead + 1
            ELSE IF docId > posToRead + 1 THEN impl[<<posToRead + 1, maximo, posToRead + 1>>]
            ELSE impl[<<minimo, posToRead - 1, posToRead + 1>>]
  IN  impl[<<0, docCount - 1, 0>>]

Responder ==
  /\ paso = "sinLider" /\ pos = Len(withoutLeader)
  /\ result' = [i \in 1..Len(encontrados) |-> buscarPorId(encontrados[i].id)]
  /\ paso' = "fin"
  /\ UNCHANGED <<vars, palabras, pos, best, encontrados>>

Buscar ==
  \/ Preguntar \/ BuscarPalabra \/ Abrir \/ RankearLider \/ FinLideres
  \/ RankearSeguidor \/ FinSeguidores \/ RankearSinLider \/ Responder

NextBusqueda == (Next /\ UNCHANGED busca) \/ Buscar

SpecBusqueda == InitBusqueda /\ [][NextBusqueda]_todo

-----------------------------------------------------------------------------
(* Properties                                                              *)

Doc(id) == CHOOSE d \in Registros(entrada) : d.id = id

(* A document answers when it has none of the excluded words, one of the   *)
(* required, if any, and more weight in favour than against; it is enough  *)
(* not to be excluded when nothing else is asked for.                      *)
Utiles == { i \in 1..Len(query) : query[i].word \notin StopWords }
Incluidas == { Id(query[i].word) : i \in { j \in Utiles : query[j].included } }
Excluidas == { Id(query[i].word) : i \in { j \in Utiles : query[j].excluded } }
Pesadas == { Id(query[i].word) : i \in { j \in Utiles : ~query[j].excluded } } \ {-1}
Peso(w) == query[Max({ i \in Utiles : Id(query[i].word) = w /\ ~query[i].excluded })].weight
Responde(d) ==
  /\ Excluidas \cap DOMAIN d.terminos = {}
  /\ Incluidas = {} \/ Incluidas \cap DOMAIN d.terminos # {}
  /\ IF Pesadas = {} THEN Excluidas # {}
     ELSE Producto(d.terminos, [w \in Pesadas |-> Peso(w)]) > 0
Respuestas(ids) == { id \in ids : Responde(Doc(id)) }
Respondidos == { result[i] : i \in 1..Len(result) }

(* The loops of tokenize give what can be said of the text alone: a word   *)
(* of the query for each run of characters between spaces, in their order, *)
(* with the sign the run begins with and what is left as the word and,     *)
(* after a group of `^', its weight; a text is refused when one of its     *)
(* runs cannot be read so, or weighs nothing.  This is how the code reads  *)
(* a text, not what its test program would refuse: see InvalidosRechazados.*)
Inicios(s, d) == { i \in 1..Len(s) : s[i] # d /\ (i = 1 \/ s[i - 1] = d) }
Trozo(s, d, k) ==
  LET i == CHOOSE i \in Inicios(s, d) : Cardinality({ h \in Inicios(s, d) : h <= i }) = k
  IN  SubSeq(s, i, Max({ j \in i..Len(s) : \A h \in i..j : s[h] # d }))
Cuerpo(t) == IF t[1] \in {"+", "-"} THEN Tail(t) ELSE t
Legible(t) == Cardinality(Inicios(Cuerpo(t), "^")) \in {1, 2}
Peso0(t) == Cardinality(Inicios(Cuerpo(t), "^")) = 2 /\ Trozo(Cuerpo(t), "^", 2)[1] \notin {"1", "2"}
Entendida(q, t) ==
  LET c == Cuerpo(t) IN
  /\ Legible(t) /\ q.weight # 0
  /\ q.included = (t[1] = "+") /\ q.excluded = (t[1] = "-")
  /\ IF Cardinality(Inicios(c, "^")) = 1
     THEN q.weight = 1 /\ q.word = EnMinusculas(c)
     ELSE q.word = EnMinusculas(Trozo(c, "^", 1))
ConsultaExacta ==
  LET n == Cardinality(Inicios(texto, " ")) IN
  /\ paso = "consulta" =>
       Len(query) = n /\ \A k \in 1..n : Entendida(query[k], Trozo(texto, " ", k))
  /\ paso = "error" =>
       \E k \in 1..n : LET t == Trozo(texto, " ", k) IN ~Legible(t) \/ Peso0(t)

(* A search of all finds exactly the documents of the index that answer    *)
(* the query, wherever buildLeaders put them, and answers each one's path. *)
TodasLasRespuestas ==
  (paso = "fin" /\ ~useLeader) => Respondidos = Respuestas(Leidas)

(* The results come with the most relevant first, each document once,      *)
(* though they are gathered from three files.                              *)
PorRelevancia ==
  paso = "fin" =>
  /\ Cardinality(Respondidos) = Len(result)
  /\ \A i, j \in 1..Len(result) : i < j =>
    ~ Supera(Rank(Doc(result[j])), Rank(Doc(result[i])))

(* A search by leaders takes a leader that no other ranks above, and finds *)
(* what it, its followers and the documents without leader have to answer; *)
(* with every leader filtered out, only the last.                          *)
RespuestasDelMejor ==
  (paso = "fin" /\ useLeader /\ Pesadas \cup exclude # {}) =>
    LET lideres == { l \in DOMAIN leaders : Rank(Doc(l)).num >= 0 }
        mejores == { l \in lideres : \A m \in lideres : ~ Supera(Rank(Doc(m)), Rank(Doc(l))) }
        sueltos == IdsDe(withoutLeader)
    IN  \/ lideres = {} /\ Respondidos = Respuestas(sueltos)
        \/ \E l \in mejores : Respondidos = Respuestas({l} \cup SeguidoresDe(l) \cup sueltos)
=============================================================================
