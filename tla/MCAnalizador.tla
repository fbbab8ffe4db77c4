---------------------------- MODULE MCAnalizador ----------------------------
(***************************************************************************)
(* Documents for Analizador, and what the handlers are to be told of them: *)
(* the events of the whole text, read once from beginning to end with      *)
(* every entity in its place, by the recommendations on XML and namespaces.*)
(***************************************************************************)
EXTENDS Analizador
LOCAL INSTANCE SequencesExt
LOCAL INSTANCE FiniteSetsExt
LOCAL INSTANCE Functions

-----------------------------------------------------------------------------
(* Tokens.                                                                 *)
Tok(c, v, as) == [tok |-> c, val |-> v, atts |-> as]
N(l) == <<Nada, l>>                      \* a name without prefix
S(q, as) == Tok("START_TAG", q, as)
E(q) == Tok("END_TAG", q, <<>>)
V(q, as) == Tok("EMPTY_ELEMENT", q, as)
D(v) == Tok("DATA_CHARS", v, <<>>)
R(e) == Tok("ENTITY_REF", e, <<>>)
C(v) == Tok("CHAR_REF", v, <<>>)
NL == Tok("DATA_NEWLINE", "\n", <<>>)
CR == Tok("CR", "\n", <<>>)
RSQB == Tok("RSQB", "]", <<>>)
Abre == Tok("CDATA_SECT_OPEN", "[", <<>>)
Cierra == Tok("CDATA_SECT_CLOSE", "]]>", <<>>)
CM == Tok("COMMENT", "c", <<>>)
PI == Tok("PI", "i", <<>>)
XML == Tok("XML_DECL", "xml", <<>>)
Mala == Tok("INVALID", "", <<>>)
Medio == Tok("PARTIAL", "", <<>>)
X(p, v) == <<<<"xmlns", p>>, <<D(v)>>>>     \* xmlns:p="v"

-----------------------------------------------------------------------------
(* What the text says.  m holds the events so far, the open elements, each *)
(* with its name as it was reported and the namespaces inside it, whether  *)
(* a section is open and what is wrong.  amb is what surrounds the text:   *)
(* the options, the DTD, the entities being replaced, the elements around  *)
(* it and their namespaces.                                                *)
Dice(m, oo, h, ev, t) ==
  IF h \in oo.handlers THEN [m EXCEPT !.evs = Append(@, ev)]
  ELSE IF "default" \in oo.handlers THEN [m EXCEPT !.evs = Append(@, <<"default", t.tok>>)] ELSE m
Agrega(m, oo, h, evs) == IF h \in oo.handlers THEN [m EXCEPT !.evs = @ \o evs] ELSE m
Error(m, e) == [m EXCEPT !.error = e]

(* The state of an entity for one that refers to it.                       *)
Pregunta(d, abiertas, e) ==
  LET completa == d.standalone \/ ~d.hasParamEntityRefs
  IN  IF e \notin DOMAIN d.entidades THEN (IF completa THEN "UNDEFINED_ENTITY" ELSE "nadie sabe")
      ELSE IF completa /\ ~d.entidades[e].is_internal THEN "ENTITY_DECLARED_IN_PE"
      ELSE IF e \in abiertas THEN "RECURSIVE_ENTITY_REF"
      ELSE IF d.entidades[e].notation # Nada THEN "BINARY_ENTITY_REF" ELSE "NONE"

(* The text of a value with its entities replaced, or what is wrong.       *)
RECURSIVE Reemplazo(_, _, _)
Reemplazo(d, abiertas, texto) ==
  LET Parte(t) ==
        LET que == Pregunta(d, abiertas, t.val) IN
        CASE t.tok \in {"DATA_CHARS", "RSQB"} -> [v |-> <<t.val>>, error |-> "NONE"]
          [] t.tok = "CHAR_REF" -> [v |-> <<t.val>>, error |-> IF t.val = "mal" THEN "BAD_CHAR_REF" ELSE "NONE"]
          [] t.tok \in {"DATA_NEWLINE", "CR"} -> [v |-> <<" ">>, error |-> "NONE"]
          [] t.tok = "ENTITY_REF" /\ t.val \in Predefinidas -> [v |-> <<t.val>>, error |-> "NONE"]
          [] t.tok = "ENTITY_REF" /\ t.val \notin Predefinidas ->
               IF que = "nadie sabe" THEN [v |-> <<>>, error |-> "NONE"]
               ELSE IF que # "NONE" THEN [v |-> <<>>, error |-> que]
               ELSE IF d.entidades[t.val].systemId # Nada THEN [v |-> <<>>, error |-> "ATTRIBUTE_EXTERNAL_ENTITY_REF"]
               ELSE Reemplazo(d, abiertas \cup {t.val}, d.entidades[t.val].textPtr)
          [] OTHER -> [v |-> <<>>, error |-> "INVALID_TOKEN"]
      partes == [i \in DOMAIN texto |-> Parte(texto[i])]
      malas == { i \in DOMAIN texto : partes[i].error # "NONE" }
  IN  [v |-> FlattenSeq([i \in DOMAIN texto |-> partes[i].v]),
       error |-> IF malas = {} THEN "NONE" ELSE partes[Min(malas)].error]
(* Spaces that are at an end, or after another, do not count in a value    *)
(* that is not CDATA.                                                      *)
SinSobrantes(v) ==
  LET letras == { i \in DOMAIN v : v[i] # " " }
      queda == { i \in DOMAIN v : \/ i \in letras
                                  \/ i - 1 \in letras /\ \E j \in letras : j > i }
  IN  [k \in 1..Cardinality(queda) |-> v[CHOOSE i \in queda : Cardinality({ j \in queda : j <= i }) = k]]
Valor(d, abiertas, elemento, att) ==
  LET otro == \E da \in Range(Declarados(d, elemento).defaultAtts) : da.id = att[1] /\ ~da.isCdata
  IN  [Reemplazo(d, abiertas, att[2]) EXCEPT !.v = IF otro THEN SinSobrantes(@) ELSE @]

(* A start tag: its attributes and those by default, the namespaces they   *)
(* declare, and the names as they are reported.                            *)
Uris == {XmlUri, XmlnsUri}
MalEspacio(p, u) ==
  CASE u = <<>> /\ p # "" -> "UNDECLARING_PREFIX"
    [] p = "xmlns" -> "RESERVED_PREFIX_XMLNS"
    [] p = "xml" -> IF u = XmlUri THEN "NONE" ELSE "RESERVED_PREFIX_XML"
    [] OTHER -> IF u \in Uris THEN "RESERVED_NAMESPACE_URI" ELSE "NONE"
Informe(oo, ambito, q, deElemento) ==
  LET p == IF q[1] = Nada THEN "" ELSE q[1]
      con == oo.ns /\ p \in DOMAIN ambito /\ ambito[p] # <<>> /\ (deElemento \/ p # "")
  IN  IF con THEN <<ambito[p], q[2], IF oo.triplets /\ p # "" THEN p ELSE Nada>> ELSE <<<<>>, q, Nada>>
EsEspacio(amb, att) == amb.o.ns /\ (att[1][1] = "xmlns" \/ att[1] = N("xmlns"))
(* Of all the attributes those that declare a namespace, with its prefix.  *)
EspaciosDe(amb, todos) ==
  LET atts == SelectSeq(todos, LAMBDA att : EsEspacio(amb, att))
  IN  [i \in DOMAIN atts |-> <<IF atts[i][1] = N("xmlns") THEN "" ELSE atts[i][1][2], atts[i][2]>>]
Dentro(ambito, espacios) ==
  [p \in DOMAIN ambito \cup { e[1] : e \in Range(espacios) } |->
     IF \E e \in Range(espacios) : e[1] = p THEN (CHOOSE e \in Range(espacios) : e[1] = p)[2] ELSE ambito[p]]
SinUri(amb, dentro, qs) ==
  amb.o.ns /\ \E q \in qs : q[1] # Nada /\ (q[1] \notin DOMAIN dentro \/ dentro[q[1]] = <<>>)
HayIguales(nombres) == Cardinality({ <<n[1], n[2]>> : n \in Range(nombres) }) # Len(nombres)
IndiceDe(id, atts) ==
  IF \E i \in DOMAIN atts : atts[i][1] = id THEN 2 * ((CHOOSE i \in DOMAIN atts : atts[i][1] = id) - 1) ELSE -1

MalValor(t, valores) ==
  LET malos == { v.error : v \in Range(valores) } \ {"NONE"}
  IN  IF Cardinality({ att[1] : att \in Range(t.atts) }) # Len(t.atts) THEN "DUPLICATE_ATTRIBUTE"
      ELSE IF malos # {} THEN CHOOSE e \in malos : TRUE ELSE "NONE"
MalNombre(amb, dentro, t, espacios, propios, nombres) ==
  LET malos == { MalEspacio(e[1], e[2]) : e \in Range(espacios) } \ {"NONE"}
  IN  IF malos # {} THEN CHOOSE e \in malos : TRUE
      ELSE IF SinUri(amb, dentro, { att[1] : att \in Range(propios) } \cup {t.val}) THEN "UNBOUND_PREFIX"
      ELSE IF HayIguales(nombres) THEN "DUPLICATE_ATTRIBUTE" ELSE "NONE"

EnAmbito(amb, t, espacios, propios, dentro, nombres) ==
  LET dados == SelectSeq(t.atts, LAMBDA att : ~EsEspacio(amb, att))
  IN  [error |-> MalNombre(amb, dentro, t, espacios, propios, nombres),
       nombre |-> Informe(amb.o, dentro, t.val, TRUE), dentro |-> dentro, espacios |-> espacios,
       atts |-> [i \in DOMAIN propios |-> <<nombres[i], propios[i][2]>>],
       dados |-> 2 * Len(dados), id |-> IndiceDe(Declarados(amb.d, t.val).idAtt, dados)]
ConNombres(amb, t, espacios, propios, dentro) ==
  EnAmbito(amb, t, espacios, propios, dentro, [i \in DOMAIN propios |-> Informe(amb.o, dentro, propios[i][1], FALSE)])
ConAmbito(amb, ambito, t, espacios, todos) ==
  ConNombres(amb, t, espacios, SelectSeq(todos, LAMBDA att : ~EsEspacio(amb, att)), Dentro(ambito, espacios))
ConTodos(amb, ambito, t, todos) == ConAmbito(amb, ambito, t, EspaciosDe(amb, todos), todos)
ConValores(amb, ambito, t, valores) ==
  LET dados == { att[1] : att \in Range(t.atts) }
      faltan == SelectSeq(Declarados(amb.d, t.val).defaultAtts, LAMBDA da : da.id \notin dados /\ da.tieneValor)
      todos == [i \in DOMAIN t.atts |-> <<t.atts[i][1], valores[i].v>>]
               \o [i \in DOMAIN faltan |-> <<faltan[i].id, faltan[i].value>>]
  IN  IF MalValor(t, valores) # "NONE" THEN [error |-> MalValor(t, valores)]
      ELSE ConTodos(amb, ambito, t, todos)
Etiqueta(amb, ambito, t) ==
  ConValores(amb, ambito, t, [i \in DOMAIN t.atts |-> Valor(amb.d, amb.abiertas, t.val, t.atts[i])])

Empieza(m, amb, r, t) ==
  Agrega([m EXCEPT !.pila = Append(@, [q |-> t.val, nombre |-> r.nombre, dentro |-> r.dentro, espacios |-> r.espacios])],
         amb.o, "startNamespaceDecl",
         [i \in DOMAIN r.espacios |-> <<"startNamespaceDecl", r.espacios[i][1], r.espacios[i][2]>>])
Inicial(r) == <<"startElement", r.nombre, r.atts, r.dados, r.id>>
Acaba(m, amb, t) ==
  LET ultimo == Last(m.pila)
      n == [m EXCEPT !.pila = Front(@)]
      avisos == [i \in DOMAIN ultimo.espacios |-> <<"endNamespaceDecl", ultimo.espacios[Len(ultimo.espacios) + 1 - i][1]>>]
      fin == <<"endElement", ultimo.nombre>>
  IN  Agrega(IF t.tok = "END_TAG" THEN Dice(n, amb.o, "endElement", fin, t) ELSE Agrega(n, amb.o, "endElement", <<fin>>),
             amb.o, "endNamespaceDecl", avisos)

Ambito(m, amb) == IF m.pila = <<>> THEN amb.ambito ELSE Last(m.pila).dentro
Vacio(m, amb, r, t) ==
  LET n == Empieza(m, amb, r, t)
      nadie == amb.o.handlers \cap {"startElement", "endElement"} = {}
  IN  Acaba(IF nadie THEN Agrega(n, amb.o, "default", <<<<"default", t.tok>>>>)
            ELSE Agrega(n, amb.o, "startElement", <<Inicial(r)>>), amb, t)

RECURSIVE Lectura(_, _, _)
(* A text in the place of a reference: the elements around it stay open.   *)
Volviendo(m, x) == IF x.error # "NONE" THEN x ELSE [x EXCEPT !.pila = m.pila]
Texto(m, amb, t, texto) ==
  Volviendo(m, Lectura([m EXCEPT !.pila = <<>>],
                       [amb EXCEPT !.abiertas = @ \cup {t.val}, !.ambito = Ambito(m, amb), !.nivel = 1], texto))
Salta(m, amb, t) == Dice(m, amb.o, "skippedEntity", <<"skippedEntity", t.val>>, t)
ExternaMal(x) == IF x.error = "NONE" THEN x ELSE Error(x, "EXTERNAL_ENTITY_HANDLING")
(* The text of an external one may begin with a declaration of its own.    *)
LeeExterna(m, amb, t, texto) ==
  IF texto # <<>> /\ texto[1].tok = "XML_DECL"
  THEN ExternaMal(Texto(Dice(m, amb.o, "xmlDecl", <<"xmlDecl">>, texto[1]), amb, t, Tail(texto)))
  ELSE ExternaMal(Texto(m, amb, t, texto))
PasoExterna(m, amb, t, externo) ==
  CASE externo.que = "falla" -> Error(m, "EXTERNAL_ENTITY_HANDLING")
    [] externo.que = "noLee" -> m
    [] externo.que = "lee" -> LeeExterna(m, amb, t, externo.texto)
PasoReferencia(m, amb, t, que) ==
  LET ent == amb.d.entidades[t.val] IN
  IF t.val \in Predefinidas THEN Dice(m, amb.o, "characterData", <<"characterData", t.val>>, t)
  ELSE IF que = "nadie sabe" THEN Salta(m, amb, t)
  ELSE IF que # "NONE" THEN Error(m, que)
  ELSE IF ent.systemId = Nada
       THEN IF amb.o.defaultExpandInternalEntities THEN Texto(m, amb, t, ent.textPtr) ELSE Salta(m, amb, t)
  ELSE IF "externalEntityRef" \notin amb.o.handlers THEN Agrega(m, amb.o, "default", <<<<"default", t.tok>>>>)
  ELSE PasoExterna([m EXCEPT !.evs = Append(@, <<"externalEntityRef", t.val>>)], amb, t, amb.o.externos[ent.systemId])

Cierto(amb, n) == [n EXCEPT !.hecho = amb.nivel = 0 /\ n.pila = <<>>]
PasoEtiqueta(m, amb, t, r) ==
  IF r.error # "NONE" THEN Error(m, r.error)
  ELSE IF t.tok = "START_TAG" THEN Dice(Empieza(m, amb, r, t), amb.o, "startElement", Inicial(r), t)
  ELSE Cierto(amb, Vacio(m, amb, r, t))

Paso(m, amb, t) ==
  LET oo == amb.o IN
  IF m.error # "NONE" THEN m
  ELSE IF t.tok = "PARTIAL" THEN Error(m, IF m.cdata THEN "UNCLOSED_CDATA_SECTION" ELSE "UNCLOSED_TOKEN")
  ELSE IF t.tok = "INVALID" THEN Error(m, "INVALID_TOKEN")
  ELSE IF m.cdata THEN
    IF t.tok = "CDATA_SECT_CLOSE" THEN [Dice(m, oo, "endCdataSection", <<"endCdataSection">>, t) EXCEPT !.cdata = FALSE]
    ELSE Dice(m, oo, "characterData", <<"characterData", t.val>>, t)
  ELSE IF m.hecho THEN
    CASE t.tok = "PI" -> Dice(m, oo, "processingInstruction", <<"processingInstruction", t.val>>, t)
      [] t.tok = "COMMENT" -> Dice(m, oo, "comment", <<"comment", t.val>>, t)
      [] t.tok \in {"DATA_NEWLINE", "CR"} -> Agrega(m, oo, "default", <<<<"default", t.tok>>>>)
      [] t.tok \in {"END_TAG", "ENTITY_REF", "CHAR_REF"} -> Error(m, "INVALID_TOKEN")
      [] OTHER -> Error(m, "JUNK_AFTER_DOC_ELEMENT")
  ELSE
    CASE t.tok \in {"DATA_CHARS", "DATA_NEWLINE", "CR", "RSQB"} ->
           Dice(m, oo, "characterData", <<"characterData", t.val>>, t)
      [] t.tok = "CHAR_REF" -> IF t.val = "mal" THEN Error(m, "BAD_CHAR_REF")
                               ELSE Dice(m, oo, "characterData", <<"characterData", t.val>>, t)
      [] t.tok = "PI" -> Dice(m, oo, "processingInstruction", <<"processingInstruction", t.val>>, t)
      [] t.tok = "COMMENT" -> Dice(m, oo, "comment", <<"comment", t.val>>, t)
      [] t.tok = "XML_DECL" -> Error(m, "MISPLACED_XML_PI")
      [] t.tok = "CDATA_SECT_CLOSE" -> Error(m, "INVALID_TOKEN")
      [] t.tok = "CDATA_SECT_OPEN" -> [Dice(m, oo, "startCdataSection", <<"startCdataSection">>, t) EXCEPT !.cdata = TRUE]
      [] t.tok \in {"START_TAG", "EMPTY_ELEMENT"} -> PasoEtiqueta(m, amb, t, Etiqueta(amb, Ambito(m, amb), t))
      [] t.tok = "END_TAG" ->
           IF m.pila = <<>> THEN Error(m, "ASYNC_ENTITY")
           ELSE IF Last(m.pila).q # t.val THEN Error(m, "TAG_MISMATCH")
           ELSE Cierto(amb, Acaba(m, amb, t))
      [] t.tok = "ENTITY_REF" -> PasoReferencia(m, amb, t, Pregunta(amb.d, amb.abiertas, t.val))

(* A text ends with no section open and in the element it began in.        *)
Lectura(m, amb, texto) ==
  LET n == FoldLeft(LAMBDA x, t : Paso(x, amb, t), m, texto)
  IN  IF n.error # "NONE" THEN n
      ELSE IF n.cdata THEN Error(n, "UNCLOSED_CDATA_SECTION")
      ELSE IF amb.nivel = 0 THEN (IF n.hecho THEN n ELSE Error(n, "NO_ELEMENTS"))
      ELSE IF n.pila # <<>> THEN Error(n, "ASYNC_ENTITY") ELSE n

Documento(c) ==
  LET amb == [o |-> c.opciones, d |-> c.dtd, abiertas |-> {}, nivel |-> 0,
              ambito |-> IF c.opciones.ns THEN "xml" :> XmlUri ELSE <<>>]
  IN  Lectura([evs |-> <<>>, pila |-> <<>>, cdata |-> FALSE, hecho |-> FALSE, error |-> "NONE"], amb, c.texto)

-----------------------------------------------------------------------------
(* Documents.                                                              *)
Todos == {"startElement", "endElement", "characterData", "processingInstruction", "comment", "startCdataSection",
          "endCdataSection", "startNamespaceDecl", "endNamespaceDecl", "skippedEntity", "externalEntityRef", "xmlDecl"}
Externos == [ s1 |-> [que |-> "lee", texto |-> <<XML, S(N("b"), <<>>), R("i"), E(N("b")), RSQB>>],
              s2 |-> [que |-> "lee", texto |-> <<V(<<"p", "b">>, <<>>), R("e1")>>],
              s3 |-> [que |-> "noLee", texto |-> <<>>],
              s4 |-> [que |-> "falla", texto |-> <<>>],
              s5 |-> [que |-> "lee", texto |-> <<S(N("b"), <<>>)>>],
              s6 |-> [que |-> "lee", texto |-> <<R("e6")>>],
              s7 |-> [que |-> "lee", texto |-> <<Abre, CM, Cierra, D("x"), CR>>],
              s8 |-> [que |-> "lee", texto |-> <<>>] ]
Opciones(handlers, ns, triplets, expande) ==
  [handlers |-> handlers, ns |-> ns, triplets |-> triplets, defaultExpandInternalEntities |-> expande,
   externos |-> Externos]
Simple == Opciones(Todos, FALSE, FALSE, TRUE)
Espacios == Opciones(Todos, TRUE, FALSE, TRUE)
Triples == Opciones(Todos, TRUE, TRUE, TRUE)
Entidad(texto) == [textPtr |-> texto, is_internal |-> TRUE, systemId |-> Nada, notation |-> Nada]
Externa(s) == [Entidad(<<>>) EXCEPT !.systemId = s]
EntidadesDeClase ==
  [ i |-> Entidad(<<D("x")>>), v |-> Entidad(<<>>), a |-> Entidad(<<S(N("a"), <<>>), D("x"), E(N("a"))>>),
    j |-> Entidad(<<D("u"), R("i"), D("v")>>), k |-> Entidad(<<V(N("a"), <<>>), R("j")>>),
    cd |-> Entidad(<<Abre, CM, Cierra>>), c0 |-> Entidad(<<Abre, D("x")>>),
    co |-> Entidad(<<D("x"), NL, RSQB>>), es |-> Entidad(<<NL, C(" ")>>),
    m |-> Entidad(<<R("n")>>), n |-> Entidad(<<R("m")>>), yo |-> Entidad(<<D("x"), R("yo")>>),
    s |-> Entidad(<<S(N("a"), <<>>)>>), f |-> Entidad(<<E(N("a"))>>), x |-> Entidad(<<R("e5")>>),
    e1 |-> Externa("s1"), e2 |-> Externa("s2"), e3 |-> Externa("s3"), e4 |-> Externa("s4"), e5 |-> Externa("s5"),
    e6 |-> Externa("s6"), e7 |-> Externa("s7"), e8 |-> Externa("s8"),
    gif |-> [Externa("s3") EXCEPT !.notation = "g"] ]
Usadas(texto) == { texto[i].val : i \in { j \in DOMAIN texto : texto[j].tok = "ENTITY_REF" } }
Dtd0 == [entidades |-> EntidadesDeClase, open |-> {}, atributos |-> <<>>, prefijos |-> <<>>,
         hasParamEntityRefs |-> FALSE, standalone |-> FALSE]
PorOmision(q, v, cdata) == [id |-> q, value |-> v, tieneValor |-> TRUE, isCdata |-> cdata]
Tipo(q) == [id |-> q, value |-> <<>>, tieneValor |-> FALSE, isCdata |-> FALSE]
DtdA == [Dtd0 EXCEPT !.atributos =
           (N("a") :> [defaultAtts |-> <<Tipo(N("id")), PorOmision(N("z"), <<"d">>, TRUE)>>, idAtt |-> N("id")]) @@
           (N("b") :> [defaultAtts |-> <<PorOmision(N("xmlns"), <<"w">>, TRUE), PorOmision(<<"p", "z">>, <<"d">>, TRUE)>>,
                       idAtt |-> Nada])]
DtdPE == [Dtd0 EXCEPT !.hasParamEntityRefs = TRUE,
                      !.entidades = @ @@ ("pe" :> [Entidad(<<D("x")>>) EXCEPT !.is_internal = FALSE])]
DtdSolo == [DtdPE EXCEPT !.standalone = TRUE]

r == N("r")
a_ == N("a")
b_ == N("b")
Raiz(texto) == <<S(r, <<>>)>> \o texto \o <<E(r)>>
Con(opciones, dtd, textos) == { [opciones |-> opciones, texto |-> t, dtd |-> dtd] : t \in textos }
Abs(v) == <<N("z"), v>>

(* Sections, references and markup that is well formed.                    *)
Bien ==
  { Raiz(<<D("x"), R("a"), NL>>), Raiz(<<R("k"), CM>>), Raiz(<<Abre, S(a_, <<>>), NL, RSQB, Cierra, D("y")>>),
    Raiz(<<R("cd"), D("y")>>), Raiz(<<S(a_, <<>>), R("co"), E(a_), RSQB>>), Raiz(<<R("e1"), D("y")>>),
    Raiz(<<R("e7"), R("v"), R("e8")>>), Raiz(<<R("lt"), C("#"), CR, PI>>), <<V(r, <<>>), NL, CM, PI, CR>>,
    Raiz(<<R("e3")>>) \o <<NL>> }
(* Attributes and namespaces.                                              *)
ConEspacios ==
  { <<S(r, <<X("p", "u"), X("q", "u")>>), S(<<"p", "a">>, <<<<<<"q", "z">>, <<D("1")>>>>>>), V(<<"p", "b">>, <<>>), E(<<"p", "a">>),
      V(<<"p", "c">>, <<X("p", "w")>>), E(r)>>,
    <<S(<<"p", "r">>, <<X("p", "u"), <<N("xmlns"), <<D("w")>>>>>>), S(a_, <<<<N("xmlns"), <<>>>>>>), V(b_, <<>>), E(a_),
      V(b_, <<>>), E(<<"p", "r">>)>>,
    <<S(<<"p", "r">>, <<X("p", "u")>>), R("e2"), E(<<"p", "r">>)>>,
    <<V(<<"p", "r">>, <<X("p", "u"), <<<<"p", "z">>, <<D("1")>>>>, <<N("z"), <<D("2")>>>>, <<<<"xml", "z">>, <<D("3")>>>>>>)>> }
ConAtributos ==
  { Raiz(<<S(a_, <<<<N("y"), <<D("1")>>>>, <<N("id"), <<NL, D("x"), NL, R("es"), D("y"), CR>>>>>>), E(a_), V(a_, <<Abs(<<NL, R("i")>>)>>)>>),
    <<S(r, <<X("p", "u")>>), V(b_, <<>>), V(a_, <<Abs(<<R("lt"), R("j"), RSQB>>)>>), E(r)>> }
(* What is not well formed.                                                *)
Mal1(t) == Raiz(<<CM, t, D("y")>>)
SinRemedio ==
  { Mal1(t) : t \in { E(a_), R("m"), R("yo"), R("e4"), R("e5"), R("e6"), R("s"), R("f"), R("x"), R("gif"),
                      R("nadie"), C("mal"), XML, Mala, Cierra, S(a_, <<>>), V(a_, <<Abs(<<>>), Abs(<<>>)>>),
                      V(a_, <<Abs(<<S(b_, <<>>)>>)>>), V(a_, <<Abs(<<R("m")>>)>>), V(a_, <<Abs(<<R("e1")>>)>>),
                      V(a_, <<Abs(<<C("mal")>>)>>), V(a_, <<Abs(<<R("gif")>>)>>) } }
  \cup { Raiz(<<Abre, D("x"), Mala>>), <<S(r, <<>>), Abre, D("x"), Medio>>, <<S(r, <<>>), CM, Medio>>, <<S(r, <<>>), Abre>>, <<V(r, <<>>), V(r, <<>>)>>,
         <<V(r, <<>>), NL, E(r)>>, <<V(r, <<>>), D("x")>>, <<V(r, <<>>), Abre, D("x"), Cierra>>, <<V(r, <<>>), NL, Cierra>>,
         <<V(r, <<>>), R("i")>>, <<V(r, <<>>), Medio>>, Raiz(<<R("c0"), NL>>), <<S(r, <<>>), RSQB>>, <<S(r, <<>>), CR>> }
SinEspacioValido ==
  { <<V(q, as)>> : q \in {<<"p", "r">>}, as \in { <<>>, <<X("q", "u")>> } }
  \cup { <<V(r, as)>> : as \in { <<<<<<"xmlns", "p">>, <<>>>>>>, <<X("xmlns", "u")>>, <<X("xml", "u")>>, <<X("xml", "xml")>>,
                                 <<X("p", "xmlns")>>, <<<<N("xmlns"), <<D("xml")>>>>>>, <<<<<<"p", "z">>, <<D("1")>>>>>>,
                                 <<X("p", "u"), X("q", "u"), <<<<"p", "z">>, <<>>>>, <<<<"q", "z">>, <<>>>>>> } }
Dudosos == { Raiz(<<R("pe"), R("nadie"), V(a_, <<Abs(<<R("nadie"), R("pe"), D("1")>>)>>)>>) }
PocosManejadores ==
  UNION { Con(Opciones(h, FALSE, FALSE, TRUE), Dtd0, {Raiz(<<R("a"), V(a_, <<>>), R("e3"), Abre, D("x"), Cierra, RSQB>>) \o <<NL>>})
            : h \in { {}, {"default"}, {"endElement"}, {"default", "endElement", "startElement"} } }

MCCasos ==
  Con(Simple, Dtd0, Bien) \cup Con(Espacios, Dtd0, ConEspacios) \cup Con(Triples, Dtd0, ConEspacios)
  \cup Con(Simple, DtdA, ConAtributos) \cup Con(Espacios, DtdA, ConAtributos)
  \cup Con(Simple, Dtd0, SinRemedio) \cup Con([Espacios EXCEPT !.handlers = @ \ {"startNamespaceDecl"}], Dtd0, SinEspacioValido)
  \cup Con(Simple, DtdPE, Dudosos) \cup Con(Simple, DtdSolo, Dudosos) \cup PocosManejadores
  \cup Con(Opciones(Todos \cup {"default"}, TRUE, FALSE, FALSE), Dtd0, {Raiz(<<R("a"), R("e1")>>)})
MCReanudar == Con(Simple, Dtd0, { Raiz(<<R("j"), D("y")>>), Raiz(<<R("k"), D("y")>>) })

-----------------------------------------------------------------------------
Referencias == [c \in Casos |-> Documento(c)]

(* The parsers are those of xmlparse.c: texts are read within what has     *)
(* been given of them, and the level counts the open elements, from 1 in   *)
(* an external entity once its content has begun.                          *)
TypeOK ==
  /\ caso \in Casos /\ parsers # <<>>
  /\ \A i \in DOMAIN parsers :
       LET p == parsers[i] IN
       /\ p.parsing \in {"INITIALIZED", "PARSING", "SUSPENDED", "FINISHED"}
       /\ p.processor \in {"content", "externalContent", "externalInit", "cdata", "epilog", "entity", "error"}
       /\ p.bufferPtr \in 0..p.bufferEnd /\ p.bufferEnd \in 0..Len(p.texto)
       /\ p.finalBuffer \in BOOLEAN /\ p.espera = (i < Len(parsers))
       /\ (p.processor # "error") =>
            p.tagLevel = Len(p.tagStack) + (IF i = 1 \/ p.processor = "externalInit" THEN 0 ELSE 1)
       /\ \A k \in DOMAIN p.pila : p.pila[k].pos \in 0..Len(TextoDe(p, p.pila[k]))
  /\ resultado \in {"OK", "ERROR", "SUSPENDED"}
  /\ paradas \in 0..MaxParadas /\ cortes \in Nat /\ fuera \in 0..MaxFuera /\ tras \in Nat
  /\ aborto \in BOOLEAN /\ fragil \in BOOLEAN

(* What the handlers have been told is the beginning of what the whole     *)
(* document says, and all of it at the end; and the document is refused,   *)
(* with its error, exactly when it is not well formed.                     *)
ComoEntero ==
  LET todo == Referencias[caso] IN
  /\ IsPrefix(eventos, todo.evs)
  /\ (Termino /\ ~Hijo /\ ~aborto) =>
       /\ eventos = todo.evs
       /\ (resultado = "OK") = (todo.error = "NONE")
       /\ (fuera = 0) => P.errorCode = todo.error
(* Cutting a document into pieces anywhere, and suspending it after any    *)
(* token that leaves no entity half read, changes nothing of that, if no   *)
(* empty piece comes before the text of an external entity:                *)
(* contentProcessor, cdataSectionProcessor and internalEntityProcessor go  *)
(* on where the last call stopped.                                         *)
ComoSinCortes == ~fragil => ComoEntero
(* What the manual says of XML_ResumeParser, of every suspension.          *)
SuspenderNoCambia == ComoEntero

(* The marks that stop a recursive reference, entity->open, are on the     *)
(* entities that are being replaced and no other, those of the parsers     *)
(* around included; the bindings of prefixes are those of the innermost    *)
(* element that declares them, or what the entity found; and the buffer    *)
(* where the name of an open element is written is still there for its     *)
(* end tag.                                                                *)
Marcas(p, heredadas) ==
  LET abiertas == [k \in DOMAIN p.abiertas |-> p.abiertas[k].entidad]
      enPila == SelectSeq(p.pila, EnEntidad)
  IN  /\ IsInjective(abiertas) /\ p.dtd.open = heredadas \cup Range(abiertas)
      /\ Range(abiertas) \cap heredadas = {}
      /\ (p.pila # <<>>) => abiertas = Reverse([k \in DOMAIN enPila |-> enPila[k].entidad])
Declara(tag, x) == { n \in DOMAIN tag.bindings : tag.bindings[n].prefix = x }
Alcances(p, heredados) ==
  \A x \in DOMAIN p.dtd.prefijos :
    LET ks == { k \in DOMAIN p.tagStack : Declara(p.tagStack[k], x) # {} }
        b == p.tagStack[Max(ks)].bindings[CHOOSE n \in Declara(p.tagStack[Max(ks)], x) : TRUE]
        antes == IF x \in DOMAIN heredados THEN heredados[x] ELSE Suelto
        ahora == p.dtd.prefijos[x]
    IN  IF ks # {} THEN ahora = (IF b.uri = <<>> THEN Suelto ELSE b)
        ELSE IF ahora = Suelto \/ antes = Suelto THEN ahora = antes ELSE ahora.uri = antes.uri
NombresVivos(p) ==
  \A k \in DOMAIN p.tagStack :
    LET b == p.tagStack[k].nombre.b
        vivos == UNION { Range(p.tagStack[n].bindings) : n \in 1..k }
    IN  (b # Suelto) => (b.nivel = 0 \/ b \in vivos)
MarcasYAlcances ==
  ~fragil =>
    \A i \in DOMAIN parsers :
      LET p == parsers[i]
          padre == parsers[i - 1]
          referida == TextoDe(padre, Cima(padre))[Cima(padre).pos].val
      IN  (p.processor # "error") =>
            /\ Marcas(p, IF i = 1 THEN {} ELSE padre.dtd.open \cup {referida})
            /\ Alcances(p, IF i = 1 THEN implicitContext(caso.dtd).prefijos ELSE padre.dtd.prefijos)
            /\ NombresVivos(p)

=============================================================================
