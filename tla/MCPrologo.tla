----------------------------- MODULE MCPrologo -----------------------------
(***************************************************************************)
(* Documents for Prologo, written as declarations, and what they say by    *)
(* the recommendation: the declarations in the order in which the          *)
(* parameter entities, replaced by their text, bring them.                 *)
(***************************************************************************)
EXTENDS Prologo, TLC
LOCAL INSTANCE SequencesExt
LOCAL INSTANCE FiniteSetsExt

-----------------------------------------------------------------------------
(* Tokens.                                                                 *)
Tok(c) == [tok |-> c, txt |-> "", val |-> Nada]
Abre(k) == [tok |-> "DECL_OPEN", txt |-> k, val |-> Nada]
Palabra(k) == [tok |-> "NAME", txt |-> k, val |-> k]
Con(c, v) == [tok |-> c, txt |-> "", val |-> v]
Nombre(n) == Con("NAME", n)
Lit(v) == Con("LITERAL", v)
Cierra == Tok("DECL_CLOSE")

(* Declarations of entities, with the pieces of the text they give.  A     *)
(* piece is a declaration, or the reference [que |-> "pieza"] in the       *)
(* literal, replaced when the declaration is read.                         *)
General(n, v) == [que |-> "entidad", donde |-> "general", nombre |-> n, valor |-> v, sistema |-> Nada]
Param(n, v) == [que |-> "entidad", donde |-> "param", nombre |-> n, valor |-> v, sistema |-> Nada]
Externa(donde, n, sys) == [que |-> "entidad", donde |-> donde, nombre |-> n, valor |-> <<>>, sistema |-> sys]
Seccion(k, ds) == [que |-> "seccion", nombre |-> k, valor |-> ds]
Ref(n) == [que |-> "ref", nombre |-> n]
Pieza(n) == [que |-> "pieza", nombre |-> n]
Letra(n) == [que |-> "texto", nombre |-> n]
Defecto(n) == [que |-> "defecto", nombre |-> n]   \* an attribute: by default, a reference

(* The text of a default value that is a reference.                        *)
Referencia(n) == "&" \o n \o ";"
MCReferencias == [v \in { Referencia(n) : n \in {"f", "g", "h", "w", "x", "z", "lt", MalCaracter} } |->
                    <<CHOOSE n \in {"f", "g", "h", "w", "x", "z", "lt", MalCaracter} : v = Referencia(n)>>]

RECURSIVE Tokens(_)
Tokens(ds) ==
  FlattenSeq([i \in 1..Len(ds) |->
    LET d == ds[i] IN
    CASE d.que = "ref" -> <<Con("PARAM_ENTITY_REF", d.nombre)>>
      [] d.que = "pieza" -> <<Con("%", d.nombre)>>
      [] d.que = "texto" -> <<Nombre(d.nombre)>>
      [] d.que = "seccion" -> <<Tok("COND_SECT_OPEN"), Palabra(d.nombre), Tok("OPEN_BRACKET")>>
                              \o Tokens(d.valor) \o <<Tok("COND_SECT_CLOSE")>>
      [] d.que = "entidad" ->
           <<Abre("ENTITY")>> \o (IF d.donde = "param" THEN <<Tok("PERCENT")>> ELSE <<>>) \o <<Nombre(d.nombre)>>
           \o (IF d.sistema = Nada THEN <<Lit(Tokens(d.valor))>> ELSE <<Palabra("SYSTEM"), Lit(d.sistema)>>)
           \o <<Cierra>>
      [] d.que = "defecto" ->
           <<Abre("ATTLIST"), Nombre("e"), Nombre("a"), Palabra("CDATA"), Lit(Referencia(d.nombre)), Cierra>>])

Doctype(externo, interno) ==
  <<Abre("DOCTYPE"), Nombre("d")>>
  \o (IF externo THEN <<Palabra("SYSTEM"), Lit("S")>> ELSE <<>>)
  \o (IF interno = <<>> THEN <<>> ELSE <<Tok("OPEN_BRACKET")>> \o interno \o <<Tok("CLOSE_BRACKET")>>)
  \o <<Cierra>>
Raices == <<Tok("INSTANCE_START")>>
XmlDecl(standalone) == IF standalone THEN <<Con("XML_DECL", "yes")>> ELSE <<>>

-----------------------------------------------------------------------------
(* What the declarations of a document say.  m holds the entities declared *)
(* so far, their order, whether declarations still count, whether there    *)
(* may be others elsewhere and whether the document is wrong; abiertas,    *)
(* the entities being replaced by their text; propio, whether the text is  *)
(* the document's own.                                                     *)
SinDeclarar == [entidades |-> <<>>, orden |-> <<>>, cuentan |-> TRUE, otras |-> FALSE, mal |-> FALSE]

RECURSIVE Valor(_, _, _, _, _), Leer(_, _, _, _, _)

(* The value of a literal, or of the text of an entity in it: nothing after a *)
(* reference to what is unknown; % alone stands only in markup.            *)
Valor(piezas, doc, m, abiertas, adentro) ==
  IF piezas = <<>> \/ m.mal THEN [piezas |-> <<>>, m |-> m]
  ELSE
  LET p == Head(piezas)
      k == <<"param", p.nombre>>
      Hasta(n) == [piezas |-> <<>>, m |-> n]
      Seguir(n, mas) == LET r == Valor(Tail(piezas), doc, n, abiertas, adentro) IN [r EXCEPT !.piezas = mas \o @]
      Reemplazo(texto) ==
        LET r == Valor(texto, doc, m, abiertas \cup {p.nombre}, TRUE) IN Seguir(r.m, r.piezas)
  IN
  IF adentro /\ p.que = "entidad" /\ p.donde = "param" THEN Hasta([m EXCEPT !.mal = TRUE])
  ELSE IF ~(p.que = "pieza" \/ (adentro /\ p.que = "ref")) THEN Seguir(m, <<p>>)
  ELSE IF p.nombre \in abiertas THEN Hasta([m EXCEPT !.mal = TRUE])
  ELSE IF k \notin DOMAIN m.entidades THEN Hasta([m EXCEPT !.cuentan = doc.standalone])
  ELSE IF m.entidades[k].sistema = Nada THEN Reemplazo(m.entidades[k].piezas)
  ELSE LET x == doc.externos[m.entidades[k].sistema]
       IN  CASE x.que = "falla" -> Hasta([m EXCEPT !.mal = TRUE])
             [] x.que = "noLee" -> Seguir([m EXCEPT !.cuentan = doc.standalone], <<>>)
             [] x.que = "lee" -> Reemplazo(x.declara)

Declarar(d, doc, m, abiertas, propio) ==
  LET k == <<d.donde, d.nombre>>
      nueva == k \notin DOMAIN m.entidades /\ k \notin ({"general"} \X Predefinidas)
      e == [piezas |-> <<>>, sistema |-> d.sistema, propia |-> propio]
      con == IF nueva THEN [m EXCEPT !.entidades = (k :> e) @@ @] ELSE m
      v == Valor(d.valor, doc, con, abiertas, FALSE)
  IN  IF ~m.cuentan THEN m
      ELSE IF propio /\ \E i \in DOMAIN d.valor : d.valor[i].que = "pieza" THEN [m EXCEPT !.mal = TRUE]
      ELSE IF ~nueva THEN v.m
      ELSE [v.m EXCEPT !.entidades[k].piezas = v.piezas, !.orden = Append(@, k)]

(* In a default value an entity must be declared, in the document's own    *)
(* text, unless it may be elsewhere; and it has to have a text.            *)
Referir(n, doc, m, propio) ==
  LET k == <<"general", n>>
      hay == k \in DOMAIN m.entidades
      exigida == propio /\ (doc.standalone \/ ~m.otras)
      mal == \/ n = MalCaracter
             \/ ~hay /\ exigida
             \/ hay /\ (m.entidades[k].sistema # Nada \/ (exigida /\ ~m.entidades[k].propia))
  IN  [m EXCEPT !.mal = m.cuentan /\ n \notin Predefinidas /\ mal]

(* What the code adds: inside an included section an internal entity is    *)
(* taken to end with that section open, and the document is rejected.      *)
EnSeccion(doc) == [doc EXCEPT !.enSeccion = TRUE]

Leer(ds, doc, m, abiertas, propio) ==
  IF ds = <<>> \/ m.mal THEN m
  ELSE
  LET d == Head(ds)
      k == <<"param", d.nombre>>
      mal == [m EXCEPT !.mal = TRUE]
      conOtras == [m EXCEPT !.otras = TRUE]
      noLeida == [conOtras EXCEPT !.cuentan = doc.standalone]
      estricta == propio /\ doc.standalone
      Seguir(n) == Leer(Tail(ds), doc, n, abiertas, propio)
      Reemplazo(texto, dentro) == Seguir(Leer(texto, dentro, conOtras, abiertas \cup {d.nombre}, FALSE))
  IN
  IF d.que = "entidad" THEN Seguir(Declarar(d, doc, m, abiertas, propio))
  ELSE IF d.que = "defecto" THEN Seguir(Referir(d.nombre, doc, m, propio))
  ELSE IF d.que = "seccion"
       THEN Seguir(IF d.nombre = "INCLUDE" THEN Leer(d.valor, EnSeccion(doc), m, abiertas, propio) ELSE m)
  ELSE IF ~doc.leePE THEN Seguir(noLeida)
  ELSE IF k \notin DOMAIN m.entidades THEN (IF estricta THEN mal ELSE Seguir(noLeida))
  ELSE IF d.nombre \in abiertas \/ (estricta /\ ~m.entidades[k].propia) THEN mal
  ELSE IF m.entidades[k].sistema = Nada
       THEN IF doc.enSeccion THEN mal ELSE Reemplazo(m.entidades[k].piezas, doc)
  ELSE LET x == doc.externos[m.entidades[k].sistema]
       IN  CASE x.que = "falla" -> mal
             [] x.que = "noLee" -> Seguir(noLeida)
             [] x.que = "lee" -> Reemplazo(x.declara, [doc EXCEPT !.enSeccion = FALSE])

(* The internal subset is read first, then the external one.               *)
LeerDocumento(doc) ==
  LET m == Leer(doc.interno, doc, [SinDeclarar EXCEPT !.otras = doc.externo], {}, TRUE)
  IN  IF m.mal \/ ~doc.externo \/ ~doc.leePE THEN m
      ELSE Leer(doc.externos["S"].declara, doc, m, {}, FALSE)

-----------------------------------------------------------------------------
(* Documents of entities.                                                  *)
TodosLosHandlers ==
  {"startDoctypeDecl", "endDoctypeDecl", "entityDecl", "unparsedEntityDecl", "attlistDecl",
   "notationDecl", "elementDecl", "comment", "processingInstruction", "skippedEntity"}
Opciones(parsing, externos, handlers) ==
  [paramEntityParsing |-> parsing, useForeignDTD |-> FALSE, externalEntityRefHandler |-> TRUE,
   externos |-> externos, notStandaloneHandler |-> "no hay", handlers |-> handlers]
SinDocumento == [que |-> "nada"]
Caso(opcs, texto, libre, doc) == [opciones |-> opcs, texto |-> texto, libres |-> libre, documento |-> doc]

Sale(que, ds) == [que |-> que, declara |-> ds, texto |-> Tokens(ds)]
ConTextDecl(x) == [x EXCEPT !.texto = <<Con("XML_DECL", "no")>> \o @]
Externos(subset_) ==
  ("S" :> Sale("lee", subset_)) @@ ("E1" :> ConTextDecl(Sale("lee", <<General("g", <<Letra("v")>>), Ref("p")>>)))
  @@ ("E2" :> Sale("noLee", <<>>)) @@ ("E3" :> Sale("falla", <<>>))

G(letra) == General("g", <<Letra(letra)>>)
DePe == { <<Param("p", <<G("z")>>)>>, <<Param("p", <<Ref("q"), G("z")>>)>>,
          <<Param("p", <<Param("q", <<G("k")>>), Ref("q")>>)>> }
DeQu == { <<Param("q", <<G("w")>>)>>, <<Param("q", <<Ref("p")>>)>> }
        \cup { <<Externa("param", "q", s)>> : s \in {"E1", "E2", "E3"} }
Medio2 == { <<G("x")>>, <<Ref("p")>>, <<Ref("q")>>, <<Ref("u")>> }
EnExterno == { <<General("h", <<Letra("x"), Pieza("q"), Letra("y")>>)>>,
               <<Seccion("INCLUDE", <<Ref("p"), Seccion("IGNORE", <<G("i"), Seccion("INCLUDE", <<>>)>>)>>)>>,
               <<Seccion("INCLUDE", <<G("j"), Seccion("INCLUDE", <<Externa("param", "r", "E1"), Ref("r")>>)>>)>>,
               <<Seccion("IGNORE", <<Ref("q"), Seccion("INCLUDE", <<G("i")>>)>>)>> }
(* Entities of the document, of an internal and an external parameter      *)
(* entity, external, unknown; and a character there is not.                *)
Externa_x == Externa("general", "x", "E1")
Referidas == {"x", "z", "w", "g", "lt", MalCaracter}
Modos == { <<"ALWAYS", FALSE>>, <<"ALWAYS", TRUE>>, <<"NEVER", FALSE>>, <<"UNLESS_STANDALONE", TRUE>> }

CasoDeEntidades(interno, externo, modo) ==
  LET externos == Externos(externo)
      doc == [que |-> "entidades", interno |-> interno, externo |-> externo # <<>>, externos |-> externos,
              standalone |-> modo[2], leePE |-> modo[1] = "ALWAYS", enSeccion |-> FALSE]
  IN  Caso(Opciones(modo[1], externos, TodosLosHandlers),
           XmlDecl(modo[2]) \o Doctype(externo # <<>>, Tokens(interno)) \o Raices, 0, doc)

Entidades ==
  LET fin == <<G("f"), General("lt", <<Letra("x")>>)>> IN
  { CasoDeEntidades(p \o q \o a \o b \o fin, <<>>, modo) :
      p \in DePe, q \in DeQu, a \in Medio2, b \in Medio2, modo \in Modos }
  \cup { CasoDeEntidades(p, q \o a \o b \o fin, modo) :
            p \in DePe, q \in DeQu, a \in Medio2, b \in EnExterno, modo \in Modos }
  \cup { CasoDeEntidades(p \o q \o a \o <<Defecto(n)>> \o fin, <<>>, modo) :
            p \in DePe, q \in DeQu, a \in Medio2 \cup {<<>>, <<Externa_x>>}, n \in Referidas, modo \in Modos }
  \cup { CasoDeEntidades(p \o <<Defecto("x")>>, a \o <<Param("d", <<Defecto(n)>>), Ref("d")>> \o fin, modo) :
            p \in DePe, a \in {<<G("x")>>, <<Ref("p")>>, <<Externa_x>>}, n \in Referidas, modo \in Modos }
  \cup { CasoDeEntidades(p \o a \o <<Param("d", <<Defecto(n)>>), Ref("d")>> \o fin, <<>>, modo) :
            p \in DePe, a \in {<<G("x")>>, <<Ref("p")>>, <<Externa_x>>}, n \in Referidas, modo \in Modos }

-----------------------------------------------------------------------------
(* Content models, and the tokens that declare them.                       *)
Hoja(q, n) == [type |-> "NAME", quant |-> q, name |-> n, children |-> <<>>]
Grupo(t, q, hijos) == [type |-> t, quant |-> q, name |-> Nada, children |-> hijos]
Cuanto == ("" :> "") @@ ("?" :> "_QUESTION") @@ ("*" :> "_ASTERISK") @@ ("+" :> "_PLUS")

RECURSIVE Modelo(_)
Modelo(m) ==
  LET union == IF m.type = "SEQ" THEN <<Tok("COMMA")>> ELSE <<Tok("OR")>>
      texto == IF m.type = "MIXED" THEN <<<<[tok |-> "POUND_NAME", txt |-> "PCDATA", val |-> Nada]>>>> ELSE <<>>
      partes == texto \o [i \in DOMAIN m.children |-> Modelo(m.children[i])]
      unidas == FlattenSeq([i \in 1..Len(partes) |-> IF i = 1 THEN partes[i] ELSE union \o partes[i]])
  IN  CASE m.type \in {"EMPTY", "ANY"} -> <<Palabra(m.type)>>
        [] m.type = "NAME" -> <<Con("NAME" \o Cuanto[m.quant], m.name)>>
        [] OTHER -> <<Tok("OPEN_PAREN")>> \o unidas \o <<Tok("CLOSE_PAREN" \o Cuanto[m.quant])>>

Hojas == {Hoja("", "a"), Hoja("?", "b")}
Grupos(hijos, qs) ==
  { Grupo("SEQ", q, <<h>>) : q \in qs, h \in hijos }
  \cup { Grupo(t, q, <<h, i>>) : t \in {"SEQ", "CHOICE"}, q \in qs, h \in hijos, i \in hijos }
Grupos1 == Grupos(Hojas, {"", "+"})
Modelos ==
  Grupos(Hojas \cup Grupos1, {"*"})
  \cup { Grupo(t, "", <<h, i, j>>) : t \in {"SEQ", "CHOICE"}, h \in Hojas, i \in Hojas, j \in Hojas }
  \cup { Grupo("SEQ", "?", <<Grupo("SEQ", "", <<g>>)>>) : g \in Grupos1 }
  \cup { Grupo("MIXED", "", <<>>), Grupo("MIXED", "*", <<>>), Grupo("MIXED", "*", <<Hoja("", "a")>>),
         Grupo("MIXED", "*", <<Hoja("", "a"), Hoja("", "b")>>) }
  \cup { [type |-> t, quant |-> "", name |-> Nada, children |-> <<>>] : t \in {"EMPTY", "ANY"} }

Elem(n, contenido) == <<Abre("ELEMENT"), Nombre(n)>> \o contenido \o <<Cierra>>
CasoDeModelo(m) ==
  Caso(Opciones("ALWAYS", Externos(<<>>), {"elementDecl"}),
       Doctype(FALSE, Elem("e", Modelo(m)) \o Elem("e2", <<Palabra("ANY")>>)) \o Raices, 0,
       [que |-> "modelo", modelo |-> m])
(* The beginning of a declaration, after which anything may come.          *)
CasoLibre(n, handlers) ==
  Caso(Opciones("ALWAYS", Externos(<<>>), handlers),
       <<Abre("DOCTYPE"), Nombre("d"), Tok("OPEN_BRACKET"), Abre("ELEMENT"), Nombre("e")>>, n, SinDocumento)
LibresModelo ==
  { Tok(c) : c \in {"OPEN_PAREN", "CLOSE_PAREN", "CLOSE_PAREN_ASTERISK", "COMMA", "OR", "DECL_CLOSE"} }
  \cup { Con("NAME", "a"), Con("NAME_QUESTION", "b"), [tok |-> "POUND_NAME", txt |-> "PCDATA", val |-> Nada] }

-----------------------------------------------------------------------------
(* Attributes: one declaration for each, or one for all.                   *)
Tipo(t) == <<Palabra(t)>>
Enumerado(a, b) == <<Tok("OPEN_PAREN"), Nombre(a), Tok("OR"), Nombre(b), Tok("CLOSE_PAREN")>>
Numeral(k) == <<[tok |-> "POUND_NAME", txt |-> k, val |-> Nada]>>
Atts == { <<Nombre("a")>> \o Tipo("CDATA") \o <<Lit("v")>>,
          <<Nombre("a")>> \o Tipo("NMTOKEN") \o <<Lit("w")>>,
          <<Nombre("a")>> \o Tipo("CDATA") \o Numeral("IMPLIED"),
          <<Nombre("a")>> \o Tipo("ID") \o Numeral("REQUIRED"),
          <<Nombre("b")>> \o Tipo("ID") \o Numeral("IMPLIED"),
          <<Nombre("b")>> \o Enumerado("x", "y") \o Numeral("FIXED") \o <<Lit("x")>>,
          <<Nombre("b"), Palabra("NOTATION")>> \o Enumerado("n", "m") \o <<Lit("n")>> }
Attlist(atts) == <<Abre("ATTLIST"), Nombre("e")>> \o atts \o <<Cierra>>
PeSinLeer == Tokens(<<Externa("param", "q", "E2"), Ref("q")>>)
CasoDeAtributos(texto) ==
  Caso(Opciones("ALWAYS", Externos(<<>>), TodosLosHandlers), Doctype(FALSE, texto) \o Raices, 0,
       [que |-> "atributos"])
Atributos ==
  { CasoDeAtributos(Attlist(a \o b \o c)) : a \in Atts, b \in Atts, c \in Atts }
  \cup { CasoDeAtributos(Attlist(a) \o PeSinLeer \o Attlist(b)) : a \in Atts, b \in Atts }

-----------------------------------------------------------------------------
(* Public identifiers, notations, comments, foreign and failing subsets.   *)
Publico == <<Palabra("PUBLIC"), Lit(<<" ", "P", "\n", " ", "Q", " ">>)>>
PublicoMalo == <<Palabra("PUBLIC"), Lit(<<"P", "<">>)>>
Sistema == <<Palabra("SYSTEM"), Lit("E1")>>
Notaciones ==
  { <<Abre("NOTATION"), Nombre("n")>> \o id \o <<Cierra>>
      : id \in {Sistema, Publico, Publico \o <<Lit("E1")>>, PublicoMalo} }
OtrasEntidades ==
  { <<Abre("ENTITY"), Nombre("g")>> \o id \o fin
      : id \in {Sistema, Publico \o <<Lit("E1")>>, PublicoMalo},
        fin \in {<<Cierra>>, <<Palabra("NDATA"), Nombre("n"), Cierra>>} }
Comentarios == {<<Con("COMMENT", "c")>>, <<Con("PI", "i")>>, <<Con("COMMENT", "c"), Con("PI", "i")>>}
EnPartes == { Tokens(<<Param("p", <<Letra("a"), Letra("b")>>)>>)
              \o <<Abre("ELEMENT"), Nombre("e"), Tok("OPEN_PAREN"), Con("PARAM_ENTITY_REF", "p"), Tok("CLOSE_PAREN"), Cierra>>,
              <<Abre("ENTITY"), Tok("PERCENT"), Nombre("p"), Lit(<<Nombre("a"), Tok("OR"), Nombre("b"), Tok("CLOSE_PAREN")>>), Cierra>>
              \o <<Abre("ELEMENT"), Nombre("e"), Tok("OPEN_PAREN"), Con("PARAM_ENTITY_REF", "p"), Cierra>>,
              <<Abre("ENTITY"), Tok("PERCENT"), Nombre("p"), Lit(<<Abre("ELEMENT"), Nombre("e"), Tok("OPEN_PAREN")>>), Cierra>>
              \o <<Con("PARAM_ENTITY_REF", "p"), Nombre("a"), Tok("CLOSE_PAREN"), Cierra>> }
PorDefecto == { <<Abre("ATTLIST"), Nombre("e"), Nombre("a"), Palabra("CDATA"), Lit(Referencia("g")), Cierra>> }
Trozos == Notaciones \cup PorDefecto \cup OtrasEntidades \cup Comentarios \cup EnPartes
Ids == {<<>>, Sistema, Publico \o <<Lit("S")>>, PublicoMalo, <<Palabra("SYSTEM"), Lit("E2")>>, <<Palabra("SYSTEM"), Lit("E3")>>}
Extranjeros == (Nada :> Sale("lee", <<G("y")>>))
Varios ==
  LET opcs(parsing, ajeno, handler, rechaza, que, texto, handlers) ==
        [Opciones(parsing, (Nada :> [que |-> que, declara |-> <<>>, texto |-> texto])
                           @@ ("S" :> [que |-> que, declara |-> <<>>, texto |-> texto]) @@ Externos(<<>>), handlers)
         EXCEPT !.useForeignDTD = ajeno, !.externalEntityRefHandler = handler, !.notStandaloneHandler = rechaza]
      doctype_(id, t) == <<Abre("DOCTYPE"), Nombre("d")>> \o id \o <<Tok("OPEN_BRACKET")>> \o t \o <<Tok("CLOSE_BRACKET"), Cierra>>
  IN
  { Caso(opcs("ALWAYS", FALSE, TRUE, "no hay", "lee", b, hs), doctype_(id, a) \o Raices, 0, SinDocumento)
      : a \in Trozos, b \in Trozos, id \in {<<>>, Publico \o <<Lit("S")>>}, hs \in {{}, TodosLosHandlers} }
  \cup { Caso(opcs(parsing, ajeno, handler, rechaza, que, t, TodosLosHandlers), inicio \o Raices, 0, SinDocumento)
      : parsing \in {"NEVER", "ALWAYS"}, ajeno \in BOOLEAN, handler \in BOOLEAN, rechaza \in {"no hay", "rechaza"},
        que \in {"lee", "noLee", "falla"}, t \in {<<Tok("COND_SECT_CLOSE")>>, <<Con("XML_DECL", "no"), Con("COMMENT", "c")>>},
        inicio \in {doctype_(id, PeSinLeer) : id \in Ids} \cup
                   {<<Abre("DOCTYPE"), Nombre("d")>> \o id \o <<Cierra>> : id \in Ids} \cup {<<>>} }

MCCasos == Entidades \cup { CasoDeModelo(m) : m \in Modelos }
           \cup { CasoLibre(7, {"elementDecl"}), CasoLibre(4, {}) } \cup Atributos \cup Varios
MCLibres == LibresModelo
(* Names that collide in the small tables and names that do not.           *)
MCHash == [n \in {"p", "q", "g", "h", "f", "i", "r", "u", "lt", "#", "e", "n"} |->
  CASE n \in {"p", "q"} -> 0 [] n \in {"#", "g"} -> 8 [] n = "h" -> 21 [] n = "f" -> 13 [] OTHER -> 5]

-----------------------------------------------------------------------------
Fin == error # "NONE"
Doc == caso.documento

(* The errors of the prolog, a parser that waits for each one that reads   *)
(* an entity for it, depths that are not negative and groups that exist.   *)
TypeOK ==
  /\ error \in {"NONE", "CONTENIDO", "SYNTAX", "NO_ELEMENTS", "INCOMPLETE_PE", "PARAM_ENTITY_REF", "PUBLICID",
                "RECURSIVE_ENTITY_REF", "UNDEFINED_ENTITY", "ENTITY_DECLARED_IN_PE", "NOT_STANDALONE",
                "EXTERNAL_ENTITY_HANDLING", "MISPLACED_XML_PI", "INVALID_TOKEN", "BAD_CHAR_REF",
                "BINARY_ENTITY_REF", "ATTRIBUTE_EXTERNAL_ENTITY_REF"}
  /\ libres \in 0..caso.libres
  /\ \A i \in DOMAIN parsers :
       /\ (i < Len(parsers)) => (parsers[i].espera # <<>>)
       /\ parsers[i].prolog.handler \in Handlers
       /\ parsers[i].prolog.level >= 0 /\ parsers[i].prolog.includeLevel >= 0
  /\ \A i \in DOMAIN dtd.scaffIndex : dtd.scaffIndex[i] \in DOMAIN dtd.scaffold

(* The entities of a document are those its declarations say when every    *)
(* parameter entity is replaced by its text: the first of each name, and   *)
(* none after an entity that was not read.  A document is rejected when    *)
(* and only when one of them contains itself, is unknown or fails.         *)
(* doProlog gets there a token at a time, over a stack of texts.           *)
ComoDeclara ==
  (Fin /\ Doc.que = "entidades") =>
    LET m == LeerDocumento(Doc)
        avisadas == SelectSeq(eventos, LAMBDA ev : ev[1] = "entityDecl")
    IN  /\ m.mal <=> (error # "CONTENIDO")
        /\ ~m.mal =>
             /\ \A e \in DOMAIN dtd.entidades \ {externalSubset} :
                  /\ e \in DOMAIN m.entidades
                  /\ dtd.entidades[e].textPtr = Tokens(m.entidades[e].piezas)
                  /\ dtd.entidades[e].systemId = m.entidades[e].sistema
             /\ DOMAIN m.entidades = DOMAIN dtd.entidades \ {externalSubset}
             /\ [i \in DOMAIN avisadas |-> avisadas[i][2]] = m.orden

(* The model given to XML_ElementDeclHandler is the one declared: written  *)
(* again, it is the tokens that were read, wherever they were cut into     *)
(* entities; and a model that is well-formed is never rejected.  It is put *)
(* together from links between nodes, a token at a time.                   *)
ModeloFiel ==
  Fin =>
    /\ \A i \in DOMAIN eventos :
         eventos[i][1] = "elementDecl" => (Modelo(eventos[i][3]) = eventos[i][4])
    /\ (Doc.que = "modelo") =>
         /\ error = "CONTENIDO" /\ Len(eventos) = 2
         /\ eventos[1][3] = Doc.modelo /\ eventos[2][3].type = "ANY"

(* Of an attribute declared several times the first declaration counts:    *)
(* its default, or that it has none, whether it is CDATA, and which        *)
(* attribute is the ID of its element.  defineAttribute only looks for     *)
(* duplicates of those with a default value or an ID.                      *)
AtributosDelPrimero ==
  LET avisos == SelectSeq(eventos, LAMBDA ev : ev[1] = "attlistDecl")
      Primero(el, a) == Min({ i \in DOMAIN avisos : avisos[i][2] = el /\ avisos[i][3] = a })
      ids(el) == { i \in DOMAIN avisos : /\ avisos[i][2] = el /\ Primero(el, avisos[i][3]) = i
                                         /\ avisos[i][4] = <<"ID">> /\ avisos[i][5] = Nada }
  IN  (Fin /\ Tiene("attlistDecl")) =>
      \A el \in DOMAIN dtd.atributos :
        LET atts == dtd.atributos[el].defaultAtts
        IN  /\ \A i \in DOMAIN atts :
                 LET ev == avisos[Primero(el, atts[i].id)]
                     primera == \A j \in 1..(i - 1) : atts[j].id # atts[i].id
                 IN  IF primera THEN atts[i].value = ev[5] /\ (atts[i].isCdata <=> (ev[4] = <<"CDATA">>))
                     ELSE atts[i].value = Nada
            /\ dtd.atributos[el].idAtt = IF ids(el) = {} THEN Nada ELSE avisos[Min(ids(el))][3]

(* startDoctypeDecl comes before every declaration and endDoctypeDecl after *)
(* them all, those of the external subset too, each once if the prolog is  *)
(* read to its end.                                                        *)
OrdenDeEventos ==
  LET Lugares(h) == { i \in DOMAIN eventos : eventos[i][1] = h }
      inicio == Lugares("startDoctypeDecl")
      fin == Lugares("endDoctypeDecl")
      declaraciones == UNION { Lugares(h) : h \in {"entityDecl", "unparsedEntityDecl", "attlistDecl", "notationDecl", "elementDecl", "skippedEntity"} }
      hay == Fin /\ Tiene("startDoctypeDecl")
             /\ Abre("DOCTYPE") \in ToSet(caso.texto)
  IN  hay => /\ Cardinality(inicio) <= 1 /\ Cardinality(fin) <= 1
             /\ \A i \in declaraciones : (\E j \in inicio : j < i) /\ (\A j \in fin : i < j)
             /\ (error = "CONTENIDO") => (inicio # {} /\ fin # {})
=============================================================================
