------------------------------ MODULE Prologo ------------------------------
(***************************************************************************)
(* The prolog in expat: doProlog and what it calls.  The text is already   *)
(* in tokens [tok, txt, val]: the class, the keyword it matches and the    *)
(* name or literal it carries.  A literal that declares an entity carries  *)
(* its pieces: tokens, and references to parameter entities (class "%").   *)
(*                                                                         *)
(* parsers is the stack of parsers: the one of the document, and one for   *)
(* each external parameter entity its handler is reading.  Each has a      *)
(* stack of texts: its own and those of the internal parameter entities    *)
(* it has open.  They share dtd.  eventos is what the handlers are given.  *)
(* Allocation, encodings and the default handler are left out.             *)
(***************************************************************************)
EXTENDS Roles, Tablas, FiniteSets
LOCAL INSTANCE SequencesExt

CONSTANTS
  Casos,        \* documents with the options they are read with
  Libres,       \* tokens that may follow the given text of a document
  referencias   \* the references in a default value: names of general entities, or MalCaracter

VARIABLES caso, dtd, parsers, eventos, error, libres
vars == <<caso, dtd, parsers, eventos, error, libres>>
opciones == caso.opciones

Nada == "(null)"
MalCaracter == "#"    \* a reference to a character there is not
Predefinidas == {"lt", "gt", "amp", "apos", "quot"}
Texto(entidad, resto, betweenDecl) == [entidad |-> entidad, resto |-> resto, betweenDecl |-> betweenDecl]

dtdCreate ==
  [general |-> hashTableInit, param |-> hashTableInit, entidades |-> <<>>,
   atributos |-> <<>>, keepProcessing |-> TRUE, hasParamEntityRefs |-> FALSE, standalone |-> FALSE,
   paramEntityRead |-> FALSE, in_eldecl |-> FALSE, scaffold |-> <<>>, scaffIndex |-> <<>>]

parserInit(inicial, resto, isParamEntity, paramEntityParsing, useForeignDTD) ==
  [prolog |-> inicial, textos |-> <<Texto(Nada, resto, FALSE)>>, isParamEntity |-> isParamEntity,
   paramEntityParsing |-> paramEntityParsing, useForeignDTD |-> useForeignDTD, espera |-> <<>>,
   declEntity |-> <<>>, declElementType |-> Nada, declAttributeId |-> Nada,
   declAttributeIsCdata |-> FALSE, declAttributeIsId |-> FALSE, declAttributeType |-> <<>>,
   tempPool |-> <<>>, doctypeName |-> Nada, doctypeSysid |-> Nada, doctypePubid |-> Nada,
   declNotationName |-> <<>>, declNotationPublicId |-> Nada, groupConnector |-> <<>>, leidos |-> <<>>]

Init ==
  /\ caso \in Casos
  /\ libres = caso.libres
  /\ dtd = dtdCreate
  /\ parsers = <<parserInit(PrologStateInit, caso.texto, FALSE, opciones.paramEntityParsing,
                            opciones.useForeignDTD)>>
  /\ eventos = <<>> /\ error = "NONE"

-----------------------------------------------------------------------------
P == parsers[Len(parsers)]
T == P.textos[Len(P.textos)]
EnPropio == Len(P.textos) = 1                     \* enc = encoding
Tiene(h) == h \in opciones.handlers
Avisar(h, ev) == eventos' = IF Tiene(h) THEN Append(eventos, ev) ELSE eventos
Cambiar(p) == parsers' = [parsers EXCEPT ![Len(parsers)] = p]

(* The handler that reads an external entity fails when its parser does.   *)
Falla(e) == error' = IF Len(parsers) > 1 THEN "EXTERNAL_ENTITY_HANDLING" ELSE e
Error(e) == Falla(e) /\ UNCHANGED <<dtd, parsers, eventos>>
Sigue == error' = error

(* The parser with the token taken and its role given.                     *)
Leido(t, r) ==
  [P EXCEPT !.prolog = r.state,
            !.textos[Len(P.textos)].resto = IF @ = <<>> THEN @ ELSE Tail(@),
            !.leidos = IF r.role = "ELEMENT_NAME" THEN <<>>
                       ELSE IF r.role \in {"ELEMENT_NONE", "INNER_PARAM_ENTITY_REF"} /\ t.tok # "OR" THEN @
                       ELSE Append(@, t)]

NoStandalone == ~dtd.standalone /\ opciones.notStandaloneHandler = "rechaza"

(* normalizePublicId: runs of white space are one space, none at the ends. *)
normalizePublicId(s) ==
  LET n == FoldLeft(LAMBDA p, c : IF c \notin {" ", "\r", "\n"} THEN Append(p, c)
                                  ELSE IF p # <<>> /\ p[Len(p)] # " " THEN Append(p, " ") ELSE p, <<>>, s)
  IN  IF n # <<>> /\ n[Len(n)] = " " THEN Front(n) ELSE n
XmlIsPublicId(s) == "<" \notin ToSet(s)

-----------------------------------------------------------------------------
(* Entities.  dtd.entidades maps <<table, name>> to what is known of it.   *)
Existe(d, e) == lookup(IF e[1] = "param" THEN d.param ELSE d.general, e[2]) # -1
EntidadNueva(is_param, is_internal) ==
  [is_param |-> is_param, is_internal |-> is_internal, textPtr |-> <<>>, tieneTexto |-> FALSE,
   systemId |-> Nada, publicId |-> <<>>, notation |-> Nada, open |-> FALSE]
Definir(f, x, v) == [y \in DOMAIN f \cup {x} |-> IF y = x THEN v ELSE f[y]]
Agregar(d, e, nueva) ==
  IF Existe(d, e) THEN d
  ELSE LET con == [d EXCEPT !.entidades = Definir(@, e, nueva)]
       IN  IF e[1] = "param" THEN [con EXCEPT !.param = Crear(@, e[2])]
           ELSE [con EXCEPT !.general = Crear(@, e[2])]
externalSubset == <<"param", "#">>
ConSubset(d) == Agregar(d, externalSubset, EntidadNueva(FALSE, FALSE))
Abrir(d, e, open) == [d EXCEPT !.entidades[e].open = open]
Abiertas(d) == { e \in DOMAIN d.entidades : d.entidades[e].open }
Procesar(d) == [d EXCEPT !.keepProcessing = d.standalone]

(* The text of an entity in a literal: an external one is read by a parser *)
(* of its own, to its end, without its text declaration.                   *)
TextoDeValor(ent) ==
  LET texto == opciones.externos[ent.systemId].texto
  IN  IF ent.systemId = Nada THEN ent.textPtr
      ELSE IF texto # <<>> /\ texto[1].tok = "XML_DECL" THEN Tail(texto) ELSE texto

(* storeEntityValue: the pieces of a literal with the parameter entities   *)
(* in it replaced, when the literal is not in the document entity.  In the *)
(* text of an entity, adentro, a token that is a reference is one too.     *)
(* valor[e, i, abiertas, m] is what the text of e (<<>>: the literal) gives *)
(* from its piece i on, with some entities open; m is what the handlers of *)
(* external entities and the references that are not read have done.       *)
ValorDeLiteral(d, piezas, interno) ==
  LET Marcas == [paramEntityRead : BOOLEAN, salteado : BOOLEAN]
      valor[e \in {<<>>} \cup DOMAIN d.entidades, i \in Nat,
            abiertas \in SUBSET DOMAIN d.entidades, m \in Marcas] ==
        LET adentro == e # <<>>
            texto == IF adentro THEN TextoDeValor(d.entidades[e]) ELSE piezas
            pieza == texto[i]
            n == <<"param", pieza.val>>
            esReferencia == pieza.tok = "%" \/ (adentro /\ pieza.tok = "PARAM_ENTITY_REF")
            Hasta(nm, err) == [marcas |-> nm, valor |-> <<>>, error |-> err]
            Con(nm, mas) == [valor[e, i + 1, abiertas, nm] EXCEPT !.valor = mas \o @]
            salteada == [m EXCEPT !.salteado = TRUE]
            ent == d.entidades[n]
            externa == ent.systemId # Nada
            externo == opciones.externos[ent.systemId]
            r == valor[n, 1, abiertas \cup {n}, [m EXCEPT !.paramEntityRead = @ \/ externa]]
            rm == [r.marcas EXCEPT !.salteado = @ \/ (externa /\ ~r.marcas.paramEntityRead)]
        IN
        IF i > Len(texto) THEN Hasta(m, "NONE")
        ELSE IF adentro /\ pieza.tok = "PERCENT" THEN Hasta(m, "INVALID_TOKEN")
        ELSE IF ~esReferencia THEN Con(m, <<pieza>>)
        ELSE IF ~(interno \/ adentro) THEN Hasta(m, "PARAM_ENTITY_REF")
        ELSE IF ~Existe(d, n) THEN Hasta(salteada, "NONE")
        ELSE IF n \in abiertas THEN Hasta(m, "RECURSIVE_ENTITY_REF")
        ELSE IF externa /\ ~opciones.externalEntityRefHandler THEN Con(salteada, <<>>)
        ELSE IF externa /\ externo.que = "falla"
             THEN Hasta([m EXCEPT !.paramEntityRead = FALSE], "EXTERNAL_ENTITY_HANDLING")
        ELSE IF externa /\ externo.que = "noLee" THEN Con([salteada EXCEPT !.paramEntityRead = FALSE], <<>>)
        ELSE IF r.error = "NONE" THEN Con(rm, r.valor)
        ELSE [marcas |-> rm, valor |-> r.valor, error |-> IF externa THEN "EXTERNAL_ENTITY_HANDLING" ELSE r.error]
  IN  valor[<<>>, 1, Abiertas(d), [paramEntityRead |-> d.paramEntityRead, salteado |-> FALSE]]

storeEntityValue(d, piezas, interno) ==
  LET todo == ValorDeLiteral(d, piezas, interno)
  IN  [dtd |-> [d EXCEPT !.paramEntityRead = todo.marcas.paramEntityRead,
                         !.keepProcessing = IF todo.marcas.salteado THEN d.standalone ELSE @],
       valor |-> todo.valor, error |-> todo.error]

(* The name of an entity that is declared: only the first declaration of a *)
(* name counts, and one of a predefined name does not.                     *)
EsPredefinida(e) == e[1] = "general" /\ e[2] \in Predefinidas
(* Faults: the last declaration counts; those after an entity not read do. *)
CuentaNombre_Ultima(e) == ~EsPredefinida(e) /\ dtd.keepProcessing
CuentaNombre_SinMirar(e) == ~EsPredefinida(e) /\ ~Existe(dtd, e)
CuentaNombre(e) == ~EsPredefinida(e) /\ dtd.keepProcessing /\ ~Existe(dtd, e)

NombreDeEntidad(t, r) ==
  LET param == r.role = "PARAM_ENTITY_NAME"
      e == <<IF param THEN "param" ELSE "general", t.val>>
      cuenta == CuentaNombre(e)
  IN  /\ r.role \in {"GENERAL_ENTITY_NAME", "PARAM_ENTITY_NAME"}
      /\ Cambiar([Leido(t, r) EXCEPT !.declEntity = IF cuenta THEN e ELSE <<>>])
      /\ dtd' = IF cuenta THEN Agregar(dtd, e, EntidadNueva(param, Len(parsers) = 1 /\ EnPropio)) ELSE dtd
      /\ Sigue /\ UNCHANGED eventos

ValorDeEntidad(t, r) ==
  LET v == storeEntityValue(dtd, t.val, P.isParamEntity \/ ~EnPropio)
      e == P.declEntity
  IN  /\ r.role = "ENTITY_VALUE"
      /\ Cambiar(Leido(t, r))
      /\ IF ~dtd.keepProcessing THEN Sigue /\ UNCHANGED <<dtd, eventos>>
         ELSE /\ dtd' = IF e = <<>> THEN v.dtd
                        ELSE [v.dtd EXCEPT !.entidades[e].textPtr = v.valor, !.entidades[e].tieneTexto = TRUE]
              /\ IF e = <<>> THEN UNCHANGED eventos
                 ELSE Avisar("entityDecl", <<"entityDecl", e, v.valor, Nada, <<>>, Nada>>)
              /\ IF v.error = "NONE" THEN Sigue ELSE Falla(v.error)

IdPublicoDeEntidad(t, r) ==
  LET p == Leido(t, r)
  IN  /\ r.role = "ENTITY_PUBLIC_ID"
      /\ IF ~XmlIsPublicId(t.val) THEN Error("PUBLICID")
         ELSE /\ Cambiar(p) /\ Sigue /\ UNCHANGED eventos
              /\ dtd' = IF dtd.keepProcessing /\ p.declEntity # <<>>
                        THEN [dtd EXCEPT !.entidades[p.declEntity].publicId = normalizePublicId(t.val)] ELSE dtd

IdDeSistemaDeEntidad(t, r) ==
  /\ r.role = "ENTITY_SYSTEM_ID"
  /\ Cambiar(Leido(t, r))
  /\ dtd' = IF dtd.keepProcessing /\ P.declEntity # <<>>
            THEN [dtd EXCEPT !.entidades[P.declEntity].systemId = t.val] ELSE dtd
  /\ Sigue /\ UNCHANGED eventos

(* An external entity is complete at the end of its declaration; one with  *)
(* NDATA at the name of its notation.                                      *)
FinDeEntidad(t, r) ==
  LET e == P.declEntity
      cuenta == dtd.keepProcessing /\ e # <<>>
      nd == IF r.role = "ENTITY_NOTATION_NAME" /\ cuenta
            THEN [dtd EXCEPT !.entidades[e].notation = t.val] ELSE dtd
  IN  /\ r.role \in {"ENTITY_COMPLETE", "ENTITY_NOTATION_NAME"}
      /\ Cambiar(Leido(t, r))
      /\ dtd' = nd
      /\ IF ~cuenta THEN UNCHANGED eventos
         ELSE LET ent == nd.entidades[e]
                  ev == <<e, <<>>, ent.systemId, ent.publicId, ent.notation>>
              IN  IF r.role = "ENTITY_NOTATION_NAME" /\ Tiene("unparsedEntityDecl")
                  THEN Avisar("unparsedEntityDecl", <<"unparsedEntityDecl">> \o ev)
                  ELSE Avisar("entityDecl", <<"entityDecl">> \o ev)
      /\ Sigue

-----------------------------------------------------------------------------
(* The handler of external entities is called: it returns at once, or      *)
(* reads the entity with a parser of its own.  What the caller does after  *)
(* it is kept in espera.                                                   *)
LlamarExterno(p, d, sys, espera, avisos) ==
  LET externo == opciones.externos[sys]
      q == [p EXCEPT !.espera = espera]
  IN  \/ /\ externo.que = "falla"
         /\ Falla("EXTERNAL_ENTITY_HANDLING") /\ eventos' = avisos /\ UNCHANGED <<dtd, parsers>>
      \/ /\ externo.que = "noLee"
         /\ Cambiar(q) /\ dtd' = [d EXCEPT !.paramEntityRead = FALSE] /\ eventos' = avisos /\ Sigue
      \/ /\ externo.que = "lee"
         /\ parsers' = Append([parsers EXCEPT ![Len(parsers)] = q],
                              parserInit(PrologStateInitExternalEntity, externo.texto, TRUE,
                                         p.paramEntityParsing, FALSE))
         /\ dtd' = [d EXCEPT !.paramEntityRead = TRUE] /\ eventos' = avisos /\ Sigue

NombreDelDoctype(t, r) ==
  /\ r.role = "DOCTYPE_NAME"
  /\ Cambiar([Leido(t, r) EXCEPT !.doctypeName = IF Tiene("startDoctypeDecl") THEN t.val ELSE @,
                                 !.doctypeSysid = Nada])
  /\ Sigue /\ UNCHANGED <<dtd, eventos>>

StartDoctype(p, interno) ==
  Avisar("startDoctypeDecl", <<"startDoctypeDecl", p.doctypeName, p.doctypeSysid, p.doctypePubid, interno>>)

(* Fault: the name is kept, and the start given again at the end.          *)
SubsetInterno_SinOlvidar(t, r) ==
  /\ r.role = "DOCTYPE_INTERNAL_SUBSET"
  /\ Cambiar(Leido(t, r))
  /\ StartDoctype(P, TRUE)
  /\ Sigue /\ UNCHANGED dtd

SubsetInterno(t, r) ==
  /\ r.role = "DOCTYPE_INTERNAL_SUBSET"
  /\ Cambiar([Leido(t, r) EXCEPT !.doctypeName = Nada])
  /\ StartDoctype(P, TRUE)
  /\ Sigue /\ UNCHANGED dtd

IdPublicoDelDoctype(t, r) ==
  LET d == [ConSubset(dtd) EXCEPT !.hasParamEntityRefs = TRUE]
  IN  /\ r.role = "DOCTYPE_PUBLIC_ID"
      /\ IF ~XmlIsPublicId(t.val) THEN Error("PUBLICID")
         ELSE /\ Cambiar([Leido(t, r) EXCEPT
                    !.useForeignDTD = FALSE, !.declEntity = externalSubset,
                    !.doctypePubid = IF Tiene("startDoctypeDecl") THEN normalizePublicId(t.val) ELSE @])
              /\ dtd' = IF d.keepProcessing
                        THEN [d EXCEPT !.entidades[externalSubset].publicId = normalizePublicId(t.val)] ELSE d
              /\ Sigue /\ UNCHANGED eventos

IdDeSistemaDelDoctype(t, r) ==
  LET q == [Leido(t, r) EXCEPT !.useForeignDTD = FALSE,
                               !.doctypeSysid = IF Tiene("startDoctypeDecl") THEN t.val ELSE "#"]
      d == [dtd EXCEPT !.hasParamEntityRefs = TRUE]
      nd == IF P.declEntity # <<>> THEN d
            ELSE [ConSubset(d) EXCEPT !.entidades[externalSubset].publicId = <<>>]
  IN  /\ r.role = "DOCTYPE_SYSTEM_ID"
      /\ IF q.paramEntityParsing = "NEVER" /\ NoStandalone THEN Error("NOT_STANDALONE")
         ELSE /\ Cambiar([q EXCEPT !.declEntity = externalSubset])
              /\ dtd' = IF d.keepProcessing
                        THEN [nd EXCEPT !.entidades[externalSubset].systemId = t.val] ELSE nd
              /\ Sigue /\ UNCHANGED eventos

(* The external subset, or the foreign one, is read at the end of the      *)
(* declaration; the foreign one at the root element when there is none.    *)
LeeSubset(p) == p.paramEntityParsing # "NEVER" /\ opciones.externalEntityRefHandler
FinDelDoctype(t, r) ==
  LET p == Leido(t, r)
      hay == p.doctypeSysid # Nada \/ p.useForeignDTD
      d == IF hay THEN [dtd EXCEPT !.hasParamEntityRefs = TRUE] ELSE dtd
      nd == IF hay /\ LeeSubset(p) THEN ConSubset(d) ELSE d
      avisos == eventos \o (IF P.doctypeName = Nada THEN <<>>
                            ELSE <<<<"startDoctypeDecl", p.doctypeName, p.doctypeSysid, p.doctypePubid, FALSE>>>>)
      fin == IF Tiene("endDoctypeDecl") THEN <<<<"endDoctypeDecl">>>> ELSE <<>>
  IN  /\ r.role = "DOCTYPE_CLOSE"
      /\ IF hay /\ LeeSubset(p)
         THEN LlamarExterno(p, nd, nd.entidades[externalSubset].systemId, <<"cierre", dtd.hasParamEntityRefs>>, avisos)
         ELSE /\ Cambiar([p EXCEPT !.useForeignDTD = FALSE])
              /\ dtd' = nd /\ eventos' = avisos \o fin /\ Sigue

Raiz(t, r) ==
  LET p == Leido(t, r)
      d == [dtd EXCEPT !.hasParamEntityRefs = TRUE]
  IN  /\ r.role = "INSTANCE_START"
      /\ IF ~p.useForeignDTD THEN Cambiar(p) /\ error' = "CONTENIDO" /\ UNCHANGED <<dtd, eventos>>
         ELSE IF ~LeeSubset(p) THEN Cambiar(p) /\ dtd' = d /\ error' = "CONTENIDO" /\ UNCHANGED eventos
         ELSE LlamarExterno(p, ConSubset(d), ConSubset(d).entidades[externalSubset].systemId,
                            <<"raiz", dtd.hasParamEntityRefs>>, eventos)

(* After the handler: an entity that was not read may have declared        *)
(* anything, and what follows is not taken.                                *)
Volver ==
  LET p == [P EXCEPT !.espera = <<>>]
      que == P.espera[1]
      leida == dtd.paramEntityRead
      sinSubset == ~leida /\ (que = "raiz" \/ P.doctypeSysid = Nada)
  IN  /\ P.espera # <<>>
      /\ IF leida /\ NoStandalone THEN Error("NOT_STANDALONE")
         ELSE CASE que = "ref" ->
                     /\ dtd' = LET d == Abrir(dtd, P.espera[2], FALSE) IN IF leida THEN d ELSE Procesar(d)
                     /\ Cambiar(p) /\ Sigue /\ UNCHANGED eventos
                [] que # "ref" ->
                     /\ dtd' = IF sinSubset THEN [dtd EXCEPT !.hasParamEntityRefs = P.espera[2]] ELSE dtd
                     /\ Cambiar(IF que = "cierre" THEN [p EXCEPT !.useForeignDTD = FALSE] ELSE p)
                     /\ eventos' = IF que = "cierre" /\ Tiene("endDoctypeDecl")
                                   THEN Append(eventos, <<"endDoctypeDecl">>) ELSE eventos
                     /\ IF que = "cierre" THEN Sigue ELSE error' = "CONTENIDO"

(* A reference to a parameter entity, between declarations or in one.      *)
ReferenciaParam(t, r) ==
  LET p == Leido(t, r)
      e == <<"param", t.val>>
      d == [dtd EXCEPT !.hasParamEntityRefs = TRUE]
      ent == dtd.entidades[e]
      lee == P.paramEntityParsing # "NEVER"
      estricta == P.prolog.documentEntity /\ d.standalone /\ EnPropio
      Saltear == Cambiar(p) /\ dtd' = Procesar(d) /\ Sigue
  IN  /\ r.role \in {"PARAM_ENTITY_REF", "INNER_PARAM_ENTITY_REF"}
      /\ \/ /\ ~lee
            /\ IF NoStandalone THEN Error("NOT_STANDALONE") ELSE Saltear /\ UNCHANGED eventos
         \/ /\ lee /\ ~Existe(dtd, e)
            /\ IF estricta THEN Error("UNDEFINED_ENTITY")
               ELSE /\ Saltear
                    /\ IF r.role = "PARAM_ENTITY_REF"
                       THEN Avisar("skippedEntity", <<"skippedEntity", t.val, TRUE>>) ELSE UNCHANGED eventos
         \/ /\ lee /\ Existe(dtd, e)
            /\ IF estricta /\ ~ent.is_internal THEN Error("ENTITY_DECLARED_IN_PE")
               ELSE IF ent.open THEN Error("RECURSIVE_ENTITY_REF")
               ELSE IF ent.tieneTexto
                    THEN /\ Cambiar([p EXCEPT !.textos = Append(@, Texto(e, ent.textPtr, r.role = "PARAM_ENTITY_REF"))])
                         /\ dtd' = Abrir(d, e, TRUE) /\ Sigue /\ UNCHANGED eventos
               ELSE IF opciones.externalEntityRefHandler
                    THEN LlamarExterno(p, Abrir(d, e, TRUE), ent.systemId, <<"ref", e>>, eventos)
               ELSE Saltear /\ UNCHANGED eventos

(* The end of a text.  An internal entity referenced inside a declaration  *)
(* may end anywhere; any other one, only between declarations.             *)
CerrarTexto_DejaAbierta(d, texto) == d   \* Fault
CerrarTexto(d, texto) == Abrir(d, texto.entidad, FALSE)
FinDeTexto ==
  LET fin == XmlTokenRole(P.prolog, [tok |-> "NONE", txt |-> "", val |-> Nada])
      entero == (~EnPropio /\ ~T.betweenDecl) \/ fin.role # "ERROR"
  IN  /\ P.espera = <<>> /\ T.resto = <<>>
      /\ EnPropio => (libres = 0 \/ Len(parsers) > 1)
      /\ IF EnPropio /\ ~P.isParamEntity THEN Error("NO_ELEMENTS")
         ELSE IF ~entero THEN Error("INCOMPLETE_PE")
         ELSE /\ IF EnPropio THEN parsers' = Front(parsers) /\ UNCHANGED dtd
                 ELSE /\ Cambiar([P EXCEPT !.textos = Front(@)])
                      /\ dtd' = CerrarTexto(dtd, T)
              /\ Sigue /\ UNCHANGED eventos

-----------------------------------------------------------------------------
(* Attributes.  dtd.atributos maps an element to the attributes declared   *)
(* for it: those with a default value or an ID, once; the others each time *)
(* they are declared.                                                      *)
TipoNuevo == [defaultAtts |-> <<>>, idAtt |-> Nada]
Elemento(d, name) == IF name \in DOMAIN d.atributos THEN d.atributos[name] ELSE TipoNuevo

(* Fault: duplicates are not looked for.                                   *)
defineAttribute_SinBuscar(type, attId, isCdata, isId, value) ==
  LET att == [id |-> attId, value |-> value, isCdata |-> isCdata]
  IN  [type EXCEPT !.defaultAtts = Append(@, att),
                   !.idAtt = IF isId /\ @ = Nada THEN attId ELSE @]

(* A parser without namespaces, as this program's is, marks no attribute   *)
(* as a namespace declaration (xmlns), which could not be the ID.          *)
defineAttribute(type, attId, isCdata, isId, value) ==
  LET ya == \E i \in DOMAIN type.defaultAtts : type.defaultAtts[i].id = attId
      att == [id |-> attId, value |-> value, isCdata |-> isCdata]
  IN  IF (value # Nada \/ isId) /\ ya THEN type
      ELSE [type EXCEPT !.defaultAtts = Append(@, att),
                        !.idAtt = IF isId /\ @ = Nada THEN attId ELSE @]

NombresDeAtributo(t, r) ==
  LET p == Leido(t, r)
  IN  /\ r.role \in {"ATTLIST_ELEMENT_NAME", "ATTRIBUTE_NAME"}
      /\ Cambiar(IF r.role = "ATTLIST_ELEMENT_NAME" THEN [p EXCEPT !.declElementType = t.val]
                 ELSE [p EXCEPT !.declAttributeId = t.val, !.declAttributeIsCdata = FALSE,
                                !.declAttributeIsId = FALSE, !.declAttributeType = <<>>])
      /\ Sigue /\ UNCHANGED <<dtd, eventos>>

(* The values of an enumerated type are put together in tempPool.          *)
TipoDeAtributo(t, r) ==
  LET p == Leido(t, r)
      prefix == IF P.declAttributeType # <<>> THEN "|"
                ELSE IF r.role = "ATTRIBUTE_NOTATION_VALUE" THEN "NOTATION(" ELSE "("
      enumera == dtd.keepProcessing /\ Tiene("attlistDecl")
  IN  /\ \/ /\ r.role \in {RolDeTipo[tipo] : tipo \in TiposAtributo}
            /\ Cambiar([p EXCEPT !.declAttributeType = <<t.txt>>,
                                 !.declAttributeIsCdata = @ \/ t.txt = "CDATA",
                                 !.declAttributeIsId = @ \/ t.txt = "ID"])
         \/ /\ r.role \in {"ATTRIBUTE_ENUM_VALUE", "ATTRIBUTE_NOTATION_VALUE"}
            /\ Cambiar(IF ~enumera THEN p
                       ELSE [p EXCEPT !.tempPool = @ \o <<prefix, t.val>>,
                                      !.declAttributeType = P.tempPool \o <<prefix, t.val>>])
      /\ Sigue /\ UNCHANGED <<dtd, eventos>>

(* storeAttributeValue, of a default value: the error of the first of its  *)
(* references that cannot be replaced.  One to an entity that may be in    *)
(* what was not read is skipped.  The text of a general entity has no      *)
(* references of its own here.                                             *)
DebeDeclararse ==
  P.prolog.documentEntity /\ (IF dtd.standalone THEN EnPropio ELSE ~dtd.hasParamEntityRefs)
FalloDeReferencia(n) ==
  LET e == <<"general", n>>
      ent == dtd.entidades[e]
  IN  CASE n = MalCaracter -> "BAD_CHAR_REF"
        [] n \in Predefinidas -> "NONE"
        [] n \notin Predefinidas \cup {MalCaracter} ->
             IF ~Existe(dtd, e) THEN (IF DebeDeclararse THEN "UNDEFINED_ENTITY" ELSE "NONE")
             ELSE IF DebeDeclararse /\ ~ent.is_internal THEN "ENTITY_DECLARED_IN_PE"
             ELSE IF ent.notation # Nada THEN "BINARY_ENTITY_REF"
             ELSE IF ~ent.tieneTexto THEN "ATTRIBUTE_EXTERNAL_ENTITY_REF" ELSE "NONE"
FalloDeValor(v) ==
  LET refs == IF v \in DOMAIN referencias THEN referencias[v] ELSE <<>>
      fallos == SelectSeq([i \in DOMAIN refs |-> FalloDeReferencia(refs[i])], LAMBDA f : f # "NONE")
  IN  IF fallos = <<>> THEN "NONE" ELSE fallos[1]

ValorDeAtributo(t, r) ==
  LET p == Leido(t, r)
      fallo == IF t.tok = "LITERAL" THEN FalloDeValor(t.val) ELSE "NONE"
      value == IF t.tok = "LITERAL" THEN t.val ELSE Nada
      nueva == defineAttribute(Elemento(dtd, P.declElementType), P.declAttributeId, P.declAttributeIsCdata,
                               value = Nada /\ P.declAttributeIsId, value)
      tipo == P.declAttributeType \o (IF Len(P.declAttributeType) > 1 THEN <<")">> ELSE <<>>)
      obligatorio == r.role \in {"REQUIRED_ATTRIBUTE_VALUE", "FIXED_ATTRIBUTE_VALUE"}
      avisa == Tiene("attlistDecl") /\ P.declAttributeType # <<>>
  IN  /\ r.role \in {"IMPLIED_ATTRIBUTE_VALUE", "REQUIRED_ATTRIBUTE_VALUE",
                     "DEFAULT_ATTRIBUTE_VALUE", "FIXED_ATTRIBUTE_VALUE"}
      /\ IF ~dtd.keepProcessing THEN Cambiar(p) /\ Sigue /\ UNCHANGED <<dtd, eventos>>
         ELSE IF fallo # "NONE" THEN Error(fallo)
         ELSE /\ dtd' = [dtd EXCEPT !.atributos = Definir(@, P.declElementType, nueva)]
              /\ Cambiar(IF avisa THEN [p EXCEPT !.tempPool = <<>>] ELSE p)
              /\ eventos' = IF ~avisa THEN eventos
                            ELSE Append(eventos, <<"attlistDecl", P.declElementType, P.declAttributeId,
                                                   tipo, value, obligatorio>>)
              /\ Sigue

-----------------------------------------------------------------------------
(* Notations, comments and instructions are put together in tempPool too.  *)
Notacion(t, r) ==
  LET p == Leido(t, r)
      avisa == Tiene("notationDecl") /\ P.declNotationName # <<>>
      limpio == [p EXCEPT !.tempPool = <<>>]
  IN  /\ \/ /\ r.role = "NOTATION_NAME"
            /\ Cambiar(IF ~Tiene("notationDecl")
                       THEN [p EXCEPT !.declNotationPublicId = Nada, !.declNotationName = <<>>]
                       ELSE [limpio EXCEPT !.declNotationPublicId = Nada,
                                           !.declNotationName = Append(P.tempPool, t.val)])
            /\ UNCHANGED eventos /\ Sigue
         \/ /\ r.role = "NOTATION_PUBLIC_ID"
            /\ IF ~XmlIsPublicId(t.val) THEN Error("PUBLICID")
               ELSE /\ Cambiar(IF P.declNotationName = <<>> THEN p
                               ELSE [limpio EXCEPT !.declNotationPublicId = normalizePublicId(t.val)])
                    /\ UNCHANGED eventos /\ Sigue
         \/ /\ r.role \in {"NOTATION_SYSTEM_ID", "NOTATION_NO_SYSTEM_ID"}
            /\ Cambiar(limpio)
            /\ eventos' = IF avisa /\ (r.role = "NOTATION_SYSTEM_ID" \/ P.declNotationPublicId # Nada)
                          THEN Append(eventos, <<"notationDecl", P.declNotationName,
                                                 IF r.role = "NOTATION_SYSTEM_ID" THEN t.val ELSE Nada,
                                                 P.declNotationPublicId>>)
                          ELSE eventos
            /\ Sigue
      /\ UNCHANGED dtd

ComentarioOInstruccion(t, r) ==
  LET h == IF r.role = "PI" THEN "processingInstruction" ELSE "comment"
  IN  /\ r.role \in {"PI", "COMMENT"}
      /\ Cambiar(IF Tiene(h) THEN [Leido(t, r) EXCEPT !.tempPool = <<>>] ELSE Leido(t, r))
      /\ Avisar(h, <<h, Append(P.tempPool, t.val)>>)
      /\ Sigue /\ UNCHANGED dtd

(* standalone="yes" counts in the document, and may turn off the reading   *)
(* of parameter entities.                                                  *)
DeclaracionXml(t, r) ==
  LET p == Leido(t, r)
      standalone == r.role = "XML_DECL" /\ t.val = "yes"
  IN  /\ r.role \in {"XML_DECL", "TEXT_DECL"}
      /\ dtd' = IF standalone THEN [dtd EXCEPT !.standalone = TRUE] ELSE dtd
      /\ Cambiar(IF standalone /\ P.paramEntityParsing = "UNLESS_STANDALONE"
                 THEN [p EXCEPT !.paramEntityParsing = "NEVER"] ELSE p)
      /\ Sigue /\ UNCHANGED eventos

(* An ignored section ends at the close of its own bracket.                *)
Profundidad(s, n) ==
  FoldLeft(LAMBDA a, t : CASE t.tok = "COND_SECT_OPEN" -> a + 1
                           [] t.tok = "COND_SECT_CLOSE" -> a - 1 [] OTHER -> a, 1, SubSeq(s, 1, n))
SeccionIgnorada(t, r) ==
  LET p == Leido(t, r)
      resto == p.textos[Len(p.textos)].resto
      cierres == { n \in 1..Len(resto) : Profundidad(resto, n) = 0 }
      n == CHOOSE i \in cierres : \A j \in cierres : i <= j
  IN  /\ r.role = "IGNORE_SECT"
      /\ IF cierres = {} THEN Error("SYNTAX")
         ELSE /\ Cambiar([p EXCEPT !.textos[Len(p.textos)].resto = SubSeq(resto, n + 1, Len(resto))])
              /\ Sigue /\ UNCHANGED <<dtd, eventos>>

-----------------------------------------------------------------------------
(* Element declarations.  The content model is put together in             *)
(* dtd.scaffold: a node for each group or name, linked by the index of its *)
(* first and last child and of its next sibling (0 is none).               *)

NuevaParte(d, hermano, type, quant, name) ==
  LET next == Len(d.scaffold) + 1
      nodo == [type |-> type, quant |-> quant, name |-> name,
               firstchild |-> 0, lastchild |-> 0, childcnt |-> 0, nextsib |-> 0]
      padre == Last(d.scaffIndex)
      s1 == IF hermano # 0 THEN [d.scaffold EXCEPT ![hermano].nextsib = next] ELSE d.scaffold
      s2 == [s1 EXCEPT ![padre].firstchild = IF d.scaffold[padre].childcnt = 0 THEN next ELSE @,
                       ![padre].lastchild = next, ![padre].childcnt = @ + 1]
  IN  [d EXCEPT !.scaffold = Append(IF d.scaffIndex = <<>> THEN d.scaffold ELSE s2, nodo)]

nextScaffoldPart(d, type, quant, name) ==
  NuevaParte(d, IF d.scaffIndex = <<>> THEN 0 ELSE d.scaffold[Last(d.scaffIndex)].lastchild, type, quant, name)

build_node(scaffold, n) ==
  LET node[k \in 1..Len(scaffold)] ==
        LET nodo == scaffold[k]
            hijo[i \in 1..nodo.childcnt] == IF i = 1 THEN nodo.firstchild ELSE scaffold[hijo[i - 1]].nextsib
        IN  [type |-> nodo.type, quant |-> nodo.quant, name |-> nodo.name,
             children |-> [i \in 1..nodo.childcnt |-> node[hijo[i]]]]
  IN  node[n]

Cuantos(role) ==
  CASE role \in {"CONTENT_ELEMENT_OPT", "GROUP_CLOSE_OPT"} -> "?"
    [] role \in {"CONTENT_ELEMENT_REP", "GROUP_CLOSE_REP"} -> "*"
    [] role \in {"CONTENT_ELEMENT_PLUS", "GROUP_CLOSE_PLUS"} -> "+"
    [] OTHER -> ""
ElementDecl(p, modelo) ==
  Avisar("elementDecl", <<"elementDecl", p.declElementType, modelo, p.leidos>>)

NombreDeElemento(t, r) ==
  /\ r.role = "ELEMENT_NAME"
  /\ IF ~Tiene("elementDecl") THEN Cambiar(Leido(t, r)) /\ UNCHANGED dtd
     ELSE /\ Cambiar([Leido(t, r) EXCEPT !.declElementType = t.val])
          /\ dtd' = [dtd EXCEPT !.scaffold = <<>>, !.scaffIndex = <<>>, !.in_eldecl = TRUE]
  /\ Sigue /\ UNCHANGED eventos

ContenidoSimple(t, r) ==
  LET p == Leido(t, r)
      type == IF r.role = "CONTENT_ANY" THEN "ANY" ELSE "EMPTY"
  IN  /\ r.role \in {"CONTENT_ANY", "CONTENT_EMPTY"}
      /\ Cambiar(p)
      /\ dtd' = [dtd EXCEPT !.in_eldecl = FALSE]
      /\ IF dtd.in_eldecl THEN ElementDecl(p, [type |-> type, quant |-> "", name |-> Nada, children |-> <<>>])
         ELSE UNCHANGED eventos
      /\ Sigue

AbreGrupo(t, r) ==
  LET p == Leido(t, r)
      d == nextScaffoldPart(dtd, "SEQ", "", Nada)
  IN  /\ r.role = "GROUP_OPEN"
      /\ Cambiar([p EXCEPT !.groupConnector = Definir(@, p.prolog.level, "")])
      /\ dtd' = IF ~dtd.in_eldecl THEN dtd
                ELSE [d EXCEPT !.scaffIndex = Append(@, Len(d.scaffold))]
      /\ Sigue /\ UNCHANGED eventos

(* The connectors of a group are all of one kind.                          *)
Conector(t, r) ==
  LET p == Leido(t, r)
      c == P.groupConnector[p.prolog.level]
      suyo == IF r.role = "GROUP_SEQUENCE" THEN "," ELSE "|"
      n == Last(dtd.scaffIndex)
  IN  /\ r.role \in {"GROUP_SEQUENCE", "GROUP_CHOICE"}
      /\ IF c \notin {"", suyo} THEN Error("SYNTAX")
         ELSE /\ Cambiar([p EXCEPT !.groupConnector[p.prolog.level] = suyo])
              /\ dtd' = IF suyo = "|" /\ dtd.in_eldecl /\ c = "" /\ dtd.scaffold[n].type # "MIXED"
                        THEN [dtd EXCEPT !.scaffold[n].type = "CHOICE"] ELSE dtd
              /\ Sigue /\ UNCHANGED eventos

ContenidoDeElemento(t, r) ==
  /\ r.role \in {"CONTENT_PCDATA", "CONTENT_ELEMENT", "CONTENT_ELEMENT_OPT",
                 "CONTENT_ELEMENT_REP", "CONTENT_ELEMENT_PLUS"}
  /\ Cambiar(Leido(t, r))
  /\ dtd' = CASE ~dtd.in_eldecl -> dtd
              [] dtd.in_eldecl /\ r.role = "CONTENT_PCDATA" ->
                   [dtd EXCEPT !.scaffold[Last(dtd.scaffIndex)].type = "MIXED"]
              [] OTHER -> nextScaffoldPart(dtd, "NAME", Cuantos(r.role), t.val)
  /\ Sigue /\ UNCHANGED eventos

(* What a closing parenthesis says is of the group, not of its last part.  *)
ElGrupo_UltimaParte(d) == Len(d.scaffold)       \* Fault
ElGrupo(d) == Last(d.scaffIndex)
CierraGrupo(t, r) ==
  LET p == Leido(t, r)
      d == [dtd EXCEPT !.scaffold[ElGrupo(dtd)].quant = Cuantos(r.role),
                       !.scaffIndex = Front(@)]
  IN  /\ r.role \in {"GROUP_CLOSE", "GROUP_CLOSE_OPT", "GROUP_CLOSE_REP", "GROUP_CLOSE_PLUS"}
      /\ Cambiar(p)
      /\ IF ~dtd.in_eldecl THEN UNCHANGED <<dtd, eventos>>
         ELSE IF d.scaffIndex # <<>> THEN dtd' = d /\ UNCHANGED eventos
         ELSE dtd' = [d EXCEPT !.in_eldecl = FALSE] /\ ElementDecl(p, build_node(d.scaffold, 1))
      /\ Sigue

-----------------------------------------------------------------------------
RolSinEfecto(t, r) ==
  /\ r.role \in {"NONE", "DOCTYPE_NONE", "ENTITY_NONE", "NOTATION_NONE", "ATTLIST_NONE", "ELEMENT_NONE"}
  /\ Cambiar(Leido(t, r)) /\ Sigue /\ UNCHANGED <<dtd, eventos>>

RolError(t, r) ==
  /\ r.role = "ERROR"
  /\ Error(CASE t.tok = "PARAM_ENTITY_REF" -> "PARAM_ENTITY_REF"
             [] t.tok = "XML_DECL" -> "MISPLACED_XML_PI"
             [] OTHER -> "SYNTAX")

doProlog(t, r) ==
  \/ DeclaracionXml(t, r)
  \/ NombreDelDoctype(t, r) \/ SubsetInterno(t, r) \/ IdPublicoDelDoctype(t, r)
  \/ IdDeSistemaDelDoctype(t, r) \/ FinDelDoctype(t, r) \/ Raiz(t, r)
  \/ NombreDeEntidad(t, r) \/ ValorDeEntidad(t, r) \/ IdPublicoDeEntidad(t, r)
  \/ IdDeSistemaDeEntidad(t, r) \/ FinDeEntidad(t, r) \/ ReferenciaParam(t, r)
  \/ NombresDeAtributo(t, r) \/ TipoDeAtributo(t, r) \/ ValorDeAtributo(t, r)
  \/ Notacion(t, r) \/ ComentarioOInstruccion(t, r) \/ SeccionIgnorada(t, r)
  \/ NombreDeElemento(t, r) \/ ContenidoSimple(t, r) \/ AbreGrupo(t, r) \/ Conector(t, r)
  \/ ContenidoDeElemento(t, r) \/ CierraGrupo(t, r)
  \/ RolSinEfecto(t, r) \/ RolError(t, r)

(* The next token of the text on top, or, where a document is given only   *)
(* its beginning, any of Libres.                                           *)
Token ==
  /\ P.espera = <<>>
  /\ \/ /\ T.resto # <<>>
        /\ doProlog(T.resto[1], XmlTokenRole(P.prolog, T.resto[1]))
        /\ UNCHANGED libres
     \/ /\ T.resto = <<>> /\ EnPropio /\ Len(parsers) = 1 /\ libres > 0
        /\ \E t \in Libres : doProlog(t, XmlTokenRole(P.prolog, t))
        /\ libres' = libres - 1

Next ==
  /\ error = "NONE"
  /\ UNCHANGED caso
  /\ \/ Token
     \/ (Volver \/ FinDeTexto) /\ UNCHANGED libres

Spec == Init /\ [][Next]_vars
-----------------------------------------------------------------------------
(* The hash tables hold exactly the entities declared, whatever collides   *)
(* and however often they grow, and each is found.                         *)
Declarados(d, tabla) == { e[2] : e \in { x \in DOMAIN d.entidades : x[1] = tabla } }
Exacta(table, nombres) ==
  /\ hashTableNames(table) = nombres
  /\ table.used = Cardinality(nombres) /\ table.used = Cardinality(Ocupados(table))
  /\ \A n \in nombres : lookup(table, n) # -1
  /\ \A n \in DOMAIN hash \ nombres : lookup(table, n) = -1
TablasExactas ==
  Exacta(dtd.param, Declarados(dtd, "param")) /\ Exacta(dtd.general, Declarados(dtd, "general"))

(* An entity is marked open while it is being read, once, by any parser of *)
(* the stack, and only then: a mark left behind makes the next reference   *)
(* to it an error, one lost lets an entity contain itself.  A reading is a *)
(* text above the first of a parser, or what its handler (0) reads.        *)
Lecturas ==
  (UNION { { <<i, j>> : j \in 2..Len(parsers[i].textos) } : i \in DOMAIN parsers })
  \cup { <<i, 0>> : i \in { k \in DOMAIN parsers : parsers[k].espera # <<>> /\ parsers[k].espera[1] = "ref" } }
Entidad(l) == IF l[2] = 0 THEN parsers[l[1]].espera[2] ELSE parsers[l[1]].textos[l[2]].entidad
EntidadesAbiertas ==
  /\ { Entidad(l) : l \in Lecturas } = Abiertas(dtd)
  /\ \A l, m \in Lecturas : Entidad(l) = Entidad(m) => l = m

(* After an entity that was not read, in a document that does not stand    *)
(* alone, nothing is declared any more: it could have been declared there. *)
SinLeerNadaCuenta ==
  ~dtd.keepProcessing =>
    /\ ~dtd'.keepProcessing
    /\ DOMAIN dtd'.entidades \subseteq DOMAIN dtd.entidades \cup {externalSubset}
    /\ \A e \in DOMAIN dtd.entidades : [dtd'.entidades[e] EXCEPT !.open = FALSE, !.publicId = <<>>]
                                       = [dtd.entidades[e] EXCEPT !.open = FALSE, !.publicId = <<>>]
    /\ dtd'.atributos = dtd.atributos
    /\ \A i \in (Len(eventos) + 1)..Len(eventos') :
         eventos'[i][1] \notin {"entityDecl", "unparsedEntityDecl", "attlistDecl"}
NoSeSigueSinLeer == [][SinLeerNadaCuenta]_vars
=============================================================================
