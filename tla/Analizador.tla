----------------------------- MODULE Analizador -----------------------------
(***************************************************************************)
(* The content of a document in expat: doContent, the sections, entities   *)
(* and epilog around it, and the calls that drive it.  A document is given *)
(* in pieces; the application may suspend or stop it from any handler, and *)
(* resumes it later.  The text is in tokens [tok, val, atts], and what the *)
(* prolog leaves, the DTD, comes with it.                                  *)
(*                                                                         *)
(* parsers is the stack of parsers: the one of the document, and one for   *)
(* each external entity that a handler is reading.  In a call, pila is the *)
(* stack of C calls: the text of the parser, then those of the internal    *)
(* entities open in it; resumption has to do without it.                   *)
(* Memory, encodings and positions are left out.                           *)
(***************************************************************************)
EXTENDS Atributos, FiniteSets
LOCAL INSTANCE SequencesExt

CONSTANTS
  Casos,        \* documents with the options they are read with
  MaxParadas,   \* calls of XML_StopParser
  MaxCortes,    \* pieces beyond the first
  MaxFuera      \* calls out of turn

VARIABLES caso, parsers, eventos, resultado, paradas, cortes, fuera, aborto, tras, fragil
vars == <<caso, parsers, eventos, resultado, paradas, cortes, fuera, aborto, tras, fragil>>
o == caso.opciones

(* A C call on a text.  modo is the loop that reads it: content, cdata     *)
(* (called by content), section (a processor of its own), init or epilog.  *)
Llamada(entidad, pos, startTagLevel, modo, reanudada) ==
  [entidad |-> entidad, pos |-> pos, startTagLevel |-> startTagLevel, modo |-> modo, reanudada |-> reanudada]

parserInit(texto, d, processor) ==
  [texto |-> texto, bufferEnd |-> 0, bufferPtr |-> 0, finalBuffer |-> FALSE, parsing |-> "INITIALIZED",
   errorCode |-> "NONE", processor |-> processor, tagStack |-> <<>>, tagLevel |-> 0, abiertas |-> <<>>,
   processed |-> <<>>, dtd |-> d, bufer |-> <<>>, idAttIndex |-> 0, pila |-> <<>>, espera |-> FALSE,
   guarda |-> FALSE]

implicitContext(d) ==
  [d EXCEPT !.prefijos = IF o.ns THEN "xml" :> addBinding(d, "xml", XmlUri, 0).b ELSE <<>>]

Init ==
  /\ caso \in Casos
  /\ parsers = <<parserInit(caso.texto, implicitContext(caso.dtd), "content")>>
  /\ eventos = <<>> /\ resultado = "OK" /\ paradas = 0 /\ cortes = 0 /\ fuera = 0
  /\ aborto = FALSE /\ tras = 0 /\ fragil = FALSE

-----------------------------------------------------------------------------
P == parsers[Len(parsers)]
Hijo == Len(parsers) > 1
Tiene(h) == h \in o.handlers
Cambiar(p) == parsers' = [parsers EXCEPT ![Len(parsers)] = p]

Cima(p) == p.pila[Len(p.pila)]
EnEntidad(c) == c.entidad # Nada
TextoDe(p, c) == IF EnEntidad(c) THEN p.dtd.entidades[c.entidad].textPtr ELSE SubSeq(p.texto, 1, p.bufferEnd)
haveMore(p) == ~EnEntidad(Cima(p)) /\ ~p.finalBuffer
AlFin(p) == Cima(p).pos = Len(TextoDe(p, Cima(p)))
Leido(p) == [p EXCEPT !.pila[Len(p.pila)].pos = @ + 1]
Modo(p, m) == [p EXCEPT !.pila[Len(p.pila)].modo = m]
T == TextoDe(P, Cima(P))[Cima(P).pos + 1]

(* What a token says to the application: its handler, else the default one. *)
Aviso(h, ev) == IF Tiene(h) THEN <<ev>> ELSE IF Tiene("default") THEN <<<<"default", T.tok>>>> ELSE <<>>
AvisoSolo(h, ev) == IF Tiene(h) THEN <<ev>> ELSE <<>>

-----------------------------------------------------------------------------
(* The end of a call of a processor.  With an error no other is run.       *)
ConError(p, e) == [p EXCEPT !.errorCode = e, !.processor = "error", !.pila = <<>>]

(* The names of open tags are in the buffer until they are stored.         *)
storeRawNames(p) ==
  [p EXCEPT !.tagStack = [i \in DOMAIN @ |-> IF @[i].rawName = "bufer" THEN [@[i] EXCEPT !.rawName = "propio"] ELSE @[i]]]

Devolver(p) ==
  LET q == [p EXCEPT !.bufferPtr = Cima(p).pos, !.pila = <<>>, !.errorCode = "NONE",
                     !.processor = IF Cima(p).modo = "cdata" THEN "cdata" ELSE @]
      r == IF p.guarda THEN storeRawNames(q) ELSE q
  IN  IF r.parsing \in {"INITIALIZED", "PARSING"} /\ r.finalBuffer THEN [r EXCEPT !.parsing = "FINISHED"] ELSE r

(* An internal entity is closed: the list of open ones goes back to what   *)
(* it was before it.                                                       *)
CerrarEntidad(p, e) ==
  [p EXCEPT !.dtd.open = @ \ {e}, !.abiertas = SubSeq(@, 1 + SelectInSeq(@, LAMBDA a : a.entidad = e), Len(@))]

(* Suspended: the C calls return, the innermost first.  Each entity that   *)
(* is not at its end keeps its place and makes internalEntityProcessor the *)
(* next processor; a section makes cdataSectionProcessor the next one.     *)
RECURSIVE Desenrollar(_)
Desenrollar(p) ==
  LET c == Cima(p)
      e == c.entidad
      q == [p EXCEPT !.pila = Front(@), !.processor = IF c.modo = "cdata" THEN "cdata" ELSE @]
  IN  IF ~EnEntidad(c) THEN Devolver(p)
      ELSE IF ~AlFin(p)
           THEN LET r == [q EXCEPT !.processed = (e :> c.pos) @@ @, !.processor = "entity"]
                IN  IF c.reanudada THEN [r EXCEPT !.pila = <<>>, !.errorCode = "NONE"] ELSE Desenrollar(r)
      ELSE IF c.reanudada THEN [CerrarEntidad(q, e) EXCEPT !.processor = "content"]
      ELSE Desenrollar(CerrarEntidad(q, e))

Controlar(p) ==
  CASE p.parsing = "SUSPENDED" -> Desenrollar(p)
    [] p.parsing = "FINISHED" -> ConError(p, "ABORTED")
    [] OTHER -> p

(* What is lost when a suspension unwinds entities: the text of those      *)
(* around the one that goes on, the loop it was in, the check that an      *)
(* entity ends in the element it began in, the level at which the text of  *)
(* an external entity ends, and the storing of names.                      *)
Pierde(p, hijo) ==
  p.parsing = "SUSPENDED" /\
  \E i \in DOMAIN p.pila :
    LET c == p.pila[i]
        fin == c.pos = Len(TextoDe(p, c))
    IN  /\ EnEntidad(c)
        /\ \/ ~fin /\ (i > 2 \/ hijo \/ ~p.finalBuffer \/ c.modo = "cdata")
           \/ fin /\ (p.tagLevel # c.startTagLevel \/ c.modo = "cdata")

(* XML_StopParser, from a handler or between two calls.                    *)
StopParser(p, resumable) ==
  CASE p.parsing = "FINISHED" -> [p EXCEPT !.errorCode = "FINISHED"]
    [] p.parsing = "SUSPENDED" -> IF resumable THEN [p EXCEPT !.errorCode = "SUSPENDED"]
                                  ELSE [p EXCEPT !.parsing = "FINISHED"]
    [] OTHER -> [p EXCEPT !.parsing = IF resumable THEN "SUSPENDED" ELSE "FINISHED"]

-----------------------------------------------------------------------------
(* A token is read: p is the parser after it, evs what the handlers are    *)
(* given.  Any of them may stop the parser, and those after it are still   *)
(* called: stopping it again changes nothing, or ends what was suspended,  *)
(* so that one stop for all of them is enough.  Then luego: the status is  *)
(* looked at, or only if it aborts, or not, or there is an error.          *)
(* The content of an external entity begins, at level 1.                   *)
Comienzo_SinNivel(p) == [Modo(p, "content") EXCEPT !.processor = "externalContent"]   \* Fault
Comienzo(p) == [Modo(p, "content") EXCEPT !.processor = "externalContent", !.tagLevel = 1]
Despues(p, luego) ==
  CASE luego = "controla" -> Controlar(p)
    [] luego = "sigue" -> p
    [] luego = "aborta" -> IF p.parsing = "FINISHED" THEN ConError(p, "ABORTED") ELSE p
    [] luego = "vuelve" -> Devolver(p)
    [] luego = "abortaOVuelve" -> IF p.parsing = "FINISHED" THEN ConError(p, "ABORTED") ELSE Devolver(p)
    [] luego = "comienza" -> IF p.parsing = "PARSING" THEN Comienzo(p) ELSE Controlar(p)
    [] OTHER -> ConError(p, luego)
Resultado(p) ==
  CASE p.pila # <<>> -> resultado
    [] p.processor = "error" -> "ERROR"
    [] OTHER -> IF p.parsing = "SUSPENDED" THEN "SUSPENDED" ELSE "OK"

Avisar(p, evs, luego) ==
  /\ eventos' = eventos \o evs
  /\ \E que \in {"sigue"} \cup (IF evs # <<>> /\ paradas < MaxParadas THEN {"suspende", "aborta"} ELSE {}) :
       LET q == IF que = "sigue" THEN p ELSE StopParser(p, que = "suspende")
           r == Despues(q, luego)
       IN  /\ Cambiar(r)
           /\ paradas' = IF que = "sigue" THEN paradas ELSE paradas + 1
           /\ aborto' = (aborto \/ que = "aborta")
           /\ fragil' = (fragil \/ (luego = "controla" /\ Pierde(q, Hijo)))
           /\ resultado' = Resultado(r)
  /\ tras' = IF p.parsing = "PARSING" THEN 0 ELSE IF evs = <<>> THEN tras ELSE tras + 1
  /\ UNCHANGED <<caso, cortes, fuera>>
Termina(p, e, evs) == Avisar(p, evs, e)

Leyendo(modos) == P.pila # <<>> /\ ~P.espera /\ Cima(P).modo \in modos
Hay(modos) == Leyendo(modos) /\ ~AlFin(P)
Viene(toks) == ~AlFin(P) /\ T.tok \in toks
(* A ] or a carriage return waits for what follows it.                     *)
Colgante(t) == t.tok \in {"RSQB", "CR"}
UltimoColgante == Colgante(T) /\ Cima(P).pos + 1 = Len(TextoDe(P, Cima(P)))
Lee(toks) == Hay({"content"}) /\ T.tok \in toks /\ ~UltimoColgante

-----------------------------------------------------------------------------
(* doContent.                                                              *)
Caracteres ==
  /\ Lee({"DATA_CHARS", "DATA_NEWLINE", "RSQB", "CR"})
  /\ Avisar(Leido(P), Aviso("characterData", <<"characterData", T.val>>), "controla")
CharRef ==
  /\ Lee({"CHAR_REF"})
  /\ IF T.val = "mal" THEN Termina(P, "BAD_CHAR_REF", <<>>)
     ELSE Avisar(Leido(P), Aviso("characterData", <<"characterData", T.val>>), "controla")

ComentarioOInstruccion ==
  LET h == IF T.tok = "PI" THEN "processingInstruction" ELSE "comment" IN
  /\ Lee({"PI", "COMMENT"})
  /\ Avisar(Leido(P), Aviso(h, <<h, T.val>>), "controla")

Mal ==
  /\ Lee({"XML_DECL", "INVALID", "CDATA_SECT_CLOSE"})
  /\ Termina(P, IF T.tok = "XML_DECL" THEN "MISPLACED_XML_PI" ELSE "INVALID_TOKEN", <<>>)

(* The reported name of an element is read from the buffer of its binding, *)
(* which elements inside it write too.                                     *)
Escribir(p, n) == IF n.b = Suelto THEN p ELSE [p EXCEPT !.bufer = (<<n.b.prefix, n.b.nivel>> :> <<n.local, n.prefix>>) @@ @]
NombreDado(p, n) == IF n.b = Suelto THEN <<<<>>, n.q, Nada>> ELSE <<n.b.uri>> \o p.bufer[<<n.b.prefix, n.b.nivel>>]
Inicio(p, a) == <<"startElement", NombreDado(p, a.nombre), a.expandidos, a.nSpecifiedAtts, a.idAttIndex>>
CerrarEspacios(p, bindings) ==
  LET muertos == { <<bindings[i].prefix, bindings[i].nivel>> : i \in DOMAIN bindings }
  IN  [p EXCEPT !.dtd = QuitarAsociaciones(@, bindings), !.bufer = [b \in DOMAIN @ \ muertos |-> @[b]]]
FinDeEspacios(bindings) ==
  IF Tiene("endNamespaceDecl") THEN [i \in DOMAIN bindings |-> <<"endNamespaceDecl", bindings[i].prefix>>] ELSE <<>>
AvisosDeEspacios(a) == IF Tiene("startNamespaceDecl") THEN a.avisos ELSE <<>>

EtiquetaDeInicio ==
  Lee({"START_TAG"}) /\ \E a \in { storeAtts(o, P.dtd, T, P.tagLevel + 1, P.idAttIndex) } :
  LET tag == [nombre |-> a.nombre, bindings |-> a.bindings, rawName |-> IF EnEntidad(Cima(P)) THEN "propio" ELSE "bufer"]
      p == Escribir([Leido(P) EXCEPT !.tagStack = Append(@, tag), !.tagLevel = @ + 1, !.dtd = a.d,
                                     !.idAttIndex = a.idAttIndex], a.nombre)
  IN  IF a.error # "NONE" THEN Termina(p, a.error, AvisosDeEspacios(a))
      ELSE Avisar(p, AvisosDeEspacios(a) \o Aviso("startElement", Inicio(p, a)), "controla")

(* The end of the root element makes epilogProcessor go on with the text,  *)
(* before anything is asked of the status.                                 *)
TrasElemento(p, evs) ==
  IF p.tagLevel = 0 THEN Avisar([Modo(p, "epilog") EXCEPT !.processor = "epilog"], evs, "sigue")
  ELSE Avisar(p, evs, "controla")

ElementoVacio ==
  Lee({"EMPTY_ELEMENT"}) /\ \E a \in { storeAtts(o, P.dtd, T, P.tagLevel + 1, P.idAttIndex) } :
  LET p == Escribir([Leido(P) EXCEPT !.dtd = a.d, !.idAttIndex = a.idAttIndex], a.nombre)
      q == CerrarEspacios(p, a.bindings)
      ambos == AvisoSolo("startElement", Inicio(p, a))
               \o AvisoSolo("endElement", <<"endElement", NombreDado(p, a.nombre)>>)
      evs == IF ambos = <<>> THEN AvisoSolo("default", <<"default", T.tok>>) ELSE ambos
  IN  IF a.error # "NONE" THEN Termina(p, a.error, AvisosDeEspacios(a))
      ELSE TrasElemento(q, AvisosDeEspacios(a) \o evs \o FinDeEspacios(a.bindings))

(* A name that was not stored before the buffer moved is not there: the    *)
(* comparison may say anything.                                            *)
EtiquetaDeFin_SinReponer ==             \* Fault: the name is not written again
  LET tag == Last(P.tagStack)
      p == [Leido(P) EXCEPT !.tagStack = Front(@), !.tagLevel = @ - 1]
  IN  /\ Lee({"END_TAG"})
      /\ IF P.tagLevel = Cima(P).startTagLevel THEN Termina(P, "ASYNC_ENTITY", <<>>)
         ELSE IF tag.nombre.q # T.val THEN Termina(p, "TAG_MISMATCH", <<>>)
         ELSE TrasElemento(CerrarEspacios(p, tag.bindings),
                           Aviso("endElement", <<"endElement", NombreDado(p, tag.nombre)>>) \o FinDeEspacios(tag.bindings))
EtiquetaDeFin ==
  LET tag == Last(P.tagStack)
      p == [Leido(P) EXCEPT !.tagStack = Front(@), !.tagLevel = @ - 1]
      q == IF Tiene("endElement") THEN Escribir(p, tag.nombre) ELSE p
  IN  /\ Lee({"END_TAG"})
      /\ IF P.tagLevel = Cima(P).startTagLevel THEN Termina(P, "ASYNC_ENTITY", <<>>)
         ELSE \/ /\ tag.nombre.q # T.val \/ tag.rawName = "perdido"
                 /\ Termina([p EXCEPT !.tagLevel = P.tagLevel], "TAG_MISMATCH", <<>>)
              \/ /\ tag.nombre.q = T.val
                 /\ TrasElemento(CerrarEspacios(q, tag.bindings),
                                 Aviso("endElement", <<"endElement", NombreDado(q, tag.nombre)>>)
                                 \o FinDeEspacios(tag.bindings))

-----------------------------------------------------------------------------
(* References to entities.                                                 *)
dtdCopy(d) == [d EXCEPT !.open = {}, !.prefijos = <<>>]
(* The context: the bindings and the open entities of the parser, for one  *)
(* that reads an external entity.  Its bindings have no element.           *)
getContext(d) == [prefijos |-> { d.prefijos[x] : x \in { y \in DOMAIN d.prefijos : d.prefijos[y] # Suelto } }, open |-> d.open]
setContext(d, context) ==
  [d EXCEPT !.open = context.open,
            !.prefijos = [x \in { b.prefix : b \in context.prefijos } |->
                            addBinding(d, x, (CHOOSE b \in context.prefijos : b.prefix = x).uri, 0).b]]
ExternalEntityParserCreate(p, sys, e) ==
  LET context == getContext([p.dtd EXCEPT !.open = @ \cup {e}])
  IN  parserInit(o.externos[sys].texto, setContext(dtdCopy(p.dtd), context), "externalInit")

processInternalEntity(p, e) ==
  [p EXCEPT !.dtd.open = @ \cup {e}, !.abiertas = <<[entidad |-> e, startTagLevel |-> p.tagLevel]>> \o @,
            !.pila = Append(@, Llamada(e, 0, p.tagLevel, "content", FALSE))]

(* The application reads the entity in its handler, says it has or fails.  *)
ReferenciaExterna(p, e, sys) ==
  LET aviso == <<<<"externalEntityRef", e>>>>
      externo == o.externos[sys].que
  IN  IF ~Tiene("externalEntityRef") THEN Avisar(p, AvisoSolo("default", <<"default", T.tok>>), "controla")
      ELSE IF externo = "falla" THEN Termina(p, "EXTERNAL_ENTITY_HANDLING", aviso)
      ELSE IF externo = "noLee" THEN Avisar(p, aviso, "controla")
      ELSE /\ eventos' = eventos \o aviso
           /\ \E que \in {"sigue"} \cup (IF paradas < MaxParadas THEN {"suspende", "aborta"} ELSE {}) :
                LET q == IF que = "sigue" THEN p ELSE StopParser(p, que = "suspende") IN
                /\ parsers' = Append([parsers EXCEPT ![Len(parsers)] = [q EXCEPT !.espera = TRUE]],
                                     ExternalEntityParserCreate(p, sys, e))
                /\ paradas' = IF que = "sigue" THEN paradas ELSE paradas + 1
                /\ aborto' = (aborto \/ que = "aborta")
           /\ resultado' = "OK"
           /\ tras' = IF p.parsing = "PARSING" THEN 0 ELSE tras + 1
           /\ UNCHANGED <<caso, cortes, fuera, fragil>>

Referencia ==
  LET e == T.val
      ent == P.dtd.entidades[e]
      fallo == FalloDeReferencia(P.dtd, e)
      Saltear == Avisar(Leido(P), Aviso("skippedEntity", <<"skippedEntity", e>>), "controla")
  IN  /\ Lee({"ENTITY_REF"})
      /\ IF e \in Predefinidas THEN Avisar(Leido(P), Aviso("characterData", <<"characterData", e>>), "controla")
         ELSE IF fallo = "saltear" THEN Saltear
         ELSE IF fallo # "NONE" THEN Termina(P, fallo, <<>>)
         ELSE IF ent.systemId # Nada THEN ReferenciaExterna(Leido(P), e, ent.systemId)
         ELSE IF ~o.defaultExpandInternalEntities THEN Saltear
         ELSE Avisar(processInternalEntity(Leido(P), e), <<>>, "sigue")

-----------------------------------------------------------------------------
(* CDATA sections.  One that closes in the call that opened it goes back   *)
(* to content and its check; one that was left for another call goes on    *)
(* with the text without a check.                                          *)
AbreCdata ==
  /\ Lee({"CDATA_SECT_OPEN"})
  /\ Avisar(Modo(Leido(P), "cdata"), Aviso("startCdataSection", <<"startCdataSection">>), "sigue")
(* Whatever stands in a section is text.                                   *)
TextoDeCdata ==
  /\ Hay({"cdata", "section"}) /\ T.tok \notin {"CDATA_SECT_CLOSE", "INVALID", "PARTIAL"} /\ ~UltimoColgante
  /\ Avisar(Leido(P), Aviso("characterData", <<"characterData", T.val>>), "controla")
CierraCdata ==
  LET p == Modo(Leido(P), "content")
      aviso == Aviso("endCdataSection", <<"endCdataSection">>)
  IN  /\ Leyendo({"cdata", "section"}) /\ Viene({"CDATA_SECT_CLOSE"})
      /\ IF Cima(P).modo = "cdata" THEN Avisar(p, aviso, "controla")
         ELSE Avisar([p EXCEPT !.processor = IF Hijo THEN "externalContent" ELSE "content", !.guarda = TRUE], aviso, "aborta")
MalEnCdata ==
  /\ Hay({"cdata", "section"}) /\ T.tok = "INVALID"
  /\ Termina(P, "INVALID_TOKEN", <<>>)

-----------------------------------------------------------------------------
(* The end of a text, or of what has been given of it.                     *)
Salir(p) ==
  LET c == Cima(p)
      q == [CerrarEntidad(p, c.entidad) EXCEPT !.pila = Front(@)]
  IN  IF ~EnEntidad(c) THEN Devolver(p)
      ELSE IF c.reanudada THEN [q EXCEPT !.processor = "content"] ELSE Controlar(q)
(* The parser changes and no handler is called.                            *)
Callado(p) ==
  /\ Cambiar(p) /\ resultado' = Resultado(p)
  /\ UNCHANGED <<caso, eventos, paradas, cortes, fuera, aborto, tras, fragil>>

(* What the text has to be when it ends.                                   *)
FalloAlFin(p) ==
  CASE Cima(p).startTagLevel = 0 -> "NO_ELEMENTS"
    [] Cima(p).startTagLevel # p.tagLevel -> "ASYNC_ENTITY"
    [] OTHER -> "NONE"
FinDeContenido ==
  /\ Leyendo({"content"}) /\ AlFin(P)
  /\ IF haveMore(P) THEN Callado(Devolver(P))
     ELSE IF FalloAlFin(P) # "NONE" THEN Callado(ConError(P, FalloAlFin(P)))
     ELSE Callado(Salir(P))

(* A last ] or carriage return is text when nothing more comes.  The text  *)
(* is then at its end and the status is not looked at.                     *)
FinColgante ==
  LET aviso == Aviso("characterData", <<"characterData", T.val>>)
      c == Cima(P)
      p == Leido(P)
      q == [CerrarEntidad(p, c.entidad) EXCEPT !.pila = Front(@)]
  IN  /\ Hay({"content"}) /\ UltimoColgante
      /\ IF haveMore(P) THEN Callado(Devolver(P))
         ELSE IF FalloAlFin(P) # "NONE" THEN Termina(P, FalloAlFin(P), aviso)
         ELSE IF ~EnEntidad(c) THEN Avisar(p, aviso, "vuelve")
         ELSE IF c.reanudada THEN Avisar([q EXCEPT !.processor = "content"], aviso, "sigue")
         ELSE Avisar(q, aviso, "controla")

FinDeSeccion ==
  /\ Leyendo({"cdata", "section"})
  /\ \/ AlFin(P)
     \/ Viene({"PARTIAL"})
     \/ Viene({"RSQB", "CR"}) /\ UltimoColgante
  /\ IF haveMore(P) THEN Callado(Devolver(P)) ELSE Callado(ConError(P, "UNCLOSED_CDATA_SECTION"))
TokenPartido ==
  /\ Hay({"content", "init", "epilog"}) /\ T.tok = "PARTIAL"
  /\ IF haveMore(P) THEN Callado(Devolver(P)) ELSE Callado(ConError(P, "UNCLOSED_TOKEN"))

(* After the root element: comments, instructions and white space.  It is  *)
(* read with the tokens of the prolog, for which text that is a name, <![  *)
(* and ] are tokens that do not belong there, and </ and & are none.       *)
Epilogo ==
  LET h == IF T.tok = "PI" THEN "processingInstruction" ELSE "comment"
      espacio == T.tok \in {"DATA_NEWLINE", "CR"}
  IN  /\ Hay({"epilog"}) /\ T.tok # "PARTIAL"
      /\ CASE T.tok \in {"PI", "COMMENT"} -> Avisar(Leido(P), Aviso(h, <<h, T.val>>), "controla")
           [] espacio /\ ~(T.tok = "CR" /\ UltimoColgante) -> Avisar(Leido(P), AvisoSolo("default", <<"default", T.tok>>), "controla")
           [] T.tok = "CR" /\ UltimoColgante ->
                Avisar(Leido(P), AvisoSolo("default", <<"default", T.tok>>),
                       IF Tiene("default") THEN "abortaOVuelve" ELSE "vuelve")
           [] T.tok \in {"END_TAG", "ENTITY_REF", "CHAR_REF", "INVALID"} -> Termina(P, "INVALID_TOKEN", <<>>)
           [] OTHER -> Termina(P, "JUNK_AFTER_DOC_ELEMENT", <<>>)
FinDeEpilogo == Leyendo({"epilog"}) /\ AlFin(P) /\ Callado(Devolver(P))

(* The text declaration of an external entity.  Until its content begins   *)
(* the processor stays, and would take another.                            *)
TextDecl ==
  /\ Hay({"init"}) /\ T.tok = "XML_DECL"
  /\ Avisar(Leido(P), Aviso("xmlDecl", <<"xmlDecl">>), "comienza")
EmpiezaExterna ==
  /\ Leyendo({"init"}) /\ ~Viene({"XML_DECL", "PARTIAL"})
  /\ Callado(Comienzo(P))

-----------------------------------------------------------------------------
(* The calls of the application.  A processor is called with the text that *)
(* is left.                                                                *)
Arrancar(p) ==
  LET Con(nivel, modo) == [p EXCEPT !.pila = <<Llamada(Nada, p.bufferPtr, nivel, modo, FALSE)>>, !.guarda = TRUE]
      propio == IF Hijo THEN 1 ELSE 0
      a == p.abiertas[1]
  IN  CASE p.processor = "content" -> Con(0, "content")
        [] p.processor = "externalContent" -> Con(1, "content")
        [] p.processor = "externalInit" -> Con(1, "init")
        [] p.processor = "cdata" -> [Con(propio, "section") EXCEPT !.guarda = FALSE]
        [] p.processor = "epilog" -> Con(0, "epilog")
        [] p.processor = "error" -> ConError(p, p.errorCode)
        [] p.processor = "entity" ->
             IF p.abiertas = <<>> THEN ConError(p, "UNEXPECTED_STATE")
             ELSE [Con(propio, "content") EXCEPT
                     !.pila = Append(@, Llamada(a.entidad, p.processed[a.entidad], a.startTagLevel, "content", TRUE)),
                     !.guarda = FALSE]

Libre == P.pila = <<>> /\ ~P.espera
Quedan == Len(P.texto) - P.bufferEnd
Llamar(p) == Cambiar(p) /\ resultado' = Resultado(p) /\ UNCHANGED <<caso, eventos, paradas, aborto, tras>>

(* Room for n more tokens: the buffer moves, and with it the names that    *)
(* are in it and were not stored.                                          *)
GetBuffer(p, n) ==
  LET Movido(tag) == IF n > 0 /\ tag.rawName = "bufer" THEN [tag EXCEPT !.rawName = "perdido"] ELSE tag
  IN  [p EXCEPT !.bufferEnd = @ + n, !.tagStack = [i \in DOMAIN @ |-> Movido(@[i])]]
(* XML_Parse, or XML_GetBuffer and XML_ParseBuffer: n more tokens, perhaps *)
(* the last.  With none, and more to come, the first returns at once, and  *)
(* the other goes on with what is there: an external entity that has no    *)
(* text yet begins its content, where a declaration is out of place.       *)
Parse(n, isFinal) ==
  LET p == [GetBuffer(P, n) EXCEPT !.parsing = "PARSING", !.finalBuffer = isFinal]
  IN  /\ Libre /\ resultado = "OK" /\ P.parsing \in {"INITIALIZED", "PARSING"}
      /\ \/ n = 0 /\ ~isFinal /\ Llamar(p) /\ UNCHANGED fragil
         \/ Llamar(Arrancar(p)) /\ fragil' = (fragil \/ (p.processor = "externalInit" /\ p.bufferEnd = 0 /\ ~isFinal))
      /\ cortes' = IF isFinal THEN cortes ELSE cortes + 1
      /\ UNCHANGED fuera

Resume ==
  /\ Libre /\ resultado = "SUSPENDED" /\ P.parsing = "SUSPENDED"
  /\ Llamar(Arrancar([P EXCEPT !.parsing = "PARSING"]))
  /\ UNCHANGED <<cortes, fuera, fragil>>

Stop ==
  /\ Libre /\ resultado = "SUSPENDED" /\ P.parsing = "SUSPENDED" /\ paradas < MaxParadas
  /\ Cambiar(StopParser(P, FALSE)) /\ paradas' = paradas + 1 /\ aborto' = TRUE
  /\ UNCHANGED <<caso, eventos, resultado, cortes, fuera, tras, fragil>>

(* A piece given to a parser that is suspended or done, or resuming one    *)
(* that is not suspended, is refused.                                      *)
FueraDeTurno ==
  /\ Libre /\ fuera < MaxFuera
  /\ fuera' = fuera + 1
  /\ \/ /\ P.parsing \in {"SUSPENDED", "FINISHED"}
        /\ Cambiar([P EXCEPT !.errorCode = P.parsing])
     \/ /\ P.parsing # "SUSPENDED"
        /\ Cambiar([P EXCEPT !.errorCode = "NOT_SUSPENDED"])
  /\ UNCHANGED <<caso, eventos, resultado, paradas, cortes, aborto, tras, fragil>>

Termino == Libre /\ (resultado = "ERROR" \/ P.parsing = "FINISHED")

(* The handler of an external entity returns whether its parser took the   *)
(* last piece.                                                             *)
VolverDelHandler ==
  LET padre == [parsers[Len(parsers) - 1] EXCEPT !.espera = FALSE]
      bien == resultado = "OK" /\ P.finalBuffer
      p == IF bien THEN Controlar(padre) ELSE ConError(padre, "EXTERNAL_ENTITY_HANDLING")
  IN  /\ Hijo /\ Termino
      /\ parsers' = Append(SubSeq(parsers, 1, Len(parsers) - 2), p)
      /\ resultado' = Resultado(p)
      /\ fragil' = (fragil \/ (bien /\ Pierde(padre, Len(parsers) > 2)))
      /\ UNCHANGED <<caso, eventos, paradas, cortes, fuera, aborto, tras>>

(* XML_ParserReset, to read the document again: what parserInit leaves out *)
(* stays.                                                                  *)
Reset ==
  /\ ~Hijo /\ Termino
  /\ parsers' = <<[parserInit(caso.texto, implicitContext(caso.dtd), "content")
                     EXCEPT !.finalBuffer = P.finalBuffer, !.idAttIndex = P.idAttIndex]>>
  /\ eventos' = <<>> /\ resultado' = "OK" /\ paradas' = 0 /\ cortes' = 0 /\ fuera' = 0
  /\ aborto' = FALSE /\ tras' = 0 /\ fragil' = FALSE
  /\ UNCHANGED caso

Contenido ==
  \/ Caracteres \/ CharRef \/ ComentarioOInstruccion \/ Mal
  \/ EtiquetaDeInicio \/ ElementoVacio \/ EtiquetaDeFin \/ Referencia
  \/ AbreCdata \/ TextoDeCdata \/ CierraCdata \/ MalEnCdata
  \/ FinDeContenido \/ FinColgante \/ FinDeSeccion \/ TokenPartido
  \/ Epilogo \/ FinDeEpilogo \/ TextDecl \/ EmpiezaExterna
Aplicacion ==
  \/ \E n \in 0..Quedan : (cortes < MaxCortes) /\ Parse(n, FALSE)
  \/ Parse(Quedan, TRUE)
  \/ Resume \/ Stop \/ FueraDeTurno \/ VolverDelHandler \/ Reset
Next == Contenido \/ Aplicacion
Spec == Init /\ [][Next]_vars
=============================================================================
