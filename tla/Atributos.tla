----------------------------- MODULE Atributos -----------------------------
(***************************************************************************)
(* The start of an element in expat's xmlparse.c: storeAtts and what it    *)
(* calls.  A name is <<prefix, local>>, Nada for no prefix; a value in the *)
(* document is a sequence of tokens [tok, val, atts], a value for the      *)
(* application, and a URI, a sequence of characters.                       *)
(*                                                                         *)
(* d is a DTD: entidades maps a name to what is known of the entity, open  *)
(* holds those being read, atributos maps an element to its declared       *)
(* attributes and ID, prefijos maps a prefix to its binding or to Suelto.  *)
(* A binding is [uri, nivel, previa]: nivel, the depth of the element that *)
(* declares it, tells apart the buffers in which names are expanded.       *)
(***************************************************************************)
EXTENDS Integers, Sequences, TLC
LOCAL INSTANCE SequencesExt

Nada == "(null)"
Predeterminado == ""        \* the prefix of names without one
Suelto == [nivel |-> -1]
XmlUri == <<"xml">>
XmlnsUri == <<"xmlns">>
Predefinidas == {"lt", "gt", "amp", "apos", "quot"}

DebeDeclararse(d) == ~d.hasParamEntityRefs \/ d.standalone

(* A name that refers to an entity: what is wrong with it, or NONE.  An    *)
(* entity that may have been declared where nobody read is skipped.        *)
FalloDeReferencia(d, e) ==
  LET ent == d.entidades[e]
      hay == e \in DOMAIN d.entidades
  IN  CASE DebeDeclararse(d) /\ ~hay -> "UNDEFINED_ENTITY"
        [] DebeDeclararse(d) /\ hay /\ ~ent.is_internal -> "ENTITY_DECLARED_IN_PE"
        [] ~DebeDeclararse(d) /\ ~hay -> "saltear"
        [] OTHER -> IF e \in d.open THEN "RECURSIVE_ENTITY_REF"
                    ELSE IF ent.notation # Nada THEN "BINARY_ENTITY_REF" ELSE "NONE"

(* appendAttributeValue: the value with entities replaced.  White space    *)
(* becomes a space, and only one of several if the type is not CDATA.      *)
RECURSIVE appendAttributeValue(_, _, _, _)
appendAttributeValue(d, texto, isCdata, valor) ==
  LET t == Head(texto)
      Con(v) == appendAttributeValue(d, Tail(texto), isCdata, v)
      Mal(e) == [valor |-> valor, error |-> e]
      sobra == ~isCdata /\ (valor = <<>> \/ valor[Len(valor)] = " ")
      Espacio == Con(IF sobra THEN valor ELSE Append(valor, " "))
      fallo == FalloDeReferencia(d, t.val)
      r == appendAttributeValue([d EXCEPT !.open = @ \cup {t.val}], d.entidades[t.val].textPtr, isCdata, valor)
  IN
  IF texto = <<>> THEN [valor |-> valor, error |-> "NONE"]
  ELSE CASE t.tok \in {"DATA_NEWLINE", "CR"} -> Espacio
         [] t.tok = "CHAR_REF" -> IF t.val = "mal" THEN Mal("BAD_CHAR_REF")
                                  ELSE IF t.val = " " THEN Espacio ELSE Con(Append(valor, t.val))
         [] t.tok \in {"DATA_CHARS", "RSQB"} -> Con(Append(valor, t.val))
         [] t.tok = "ENTITY_REF" ->
              IF t.val \in Predefinidas THEN Con(Append(valor, t.val))
              ELSE IF fallo = "saltear" THEN Con(valor)
              ELSE IF fallo # "NONE" THEN Mal(fallo)
              ELSE IF d.entidades[t.val].systemId # Nada THEN Mal("ATTRIBUTE_EXTERNAL_ENTITY_REF")
              ELSE IF r.error # "NONE" THEN r ELSE Con(r.valor)
         [] OTHER -> Mal("INVALID_TOKEN")     \* markup: a < in a value

SinUltimoEspacio(isCdata, r) ==
  IF ~isCdata /\ r.error = "NONE" /\ r.valor # <<>> /\ r.valor[Len(r.valor)] = " "
  THEN [r EXCEPT !.valor = Front(@)] ELSE r
storeAttributeValue(d, texto, isCdata) ==
  SinUltimoEspacio(isCdata, appendAttributeValue(d, texto, isCdata, <<>>))

-----------------------------------------------------------------------------
(* Namespaces.                                                             *)
EsXmlns(o, q) == o.ns /\ (q = <<Nada, "xmlns">> \/ q[1] = "xmlns")
PrefijoDeclarado(q) == IF q[1] = Nada THEN Predeterminado ELSE q[2]
ConPrefijo(o, q) == o.ns /\ ~EsXmlns(o, q) /\ q[1] # Nada
Asociado(d, prefix) == prefix \in DOMAIN d.prefijos /\ d.prefijos[prefix] # Suelto

FalloDeAsociacion(prefix, uri) ==
  CASE uri = <<>> /\ prefix # Predeterminado -> "UNDECLARING_PREFIX"
    [] uri # <<>> /\ prefix = "xmlns" -> "RESERVED_PREFIX_XMLNS"
    [] prefix = "xml" /\ uri # <<>> /\ uri # XmlUri -> "RESERVED_PREFIX_XML"
    [] prefix \notin {"xml", "xmlns"} /\ uri \in {XmlUri, XmlnsUri} -> "RESERVED_NAMESPACE_URI"
    [] OTHER -> "NONE"

(* The binding replaces that of the prefix, which it keeps for the end of  *)
(* its element; an empty URI leaves the default prefix without one.        *)
addBinding_SinPrevia(d, prefix, uri, nivel) ==      \* Fault: the old one is lost
  LET b == [prefix |-> prefix, uri |-> uri, nivel |-> nivel, previa |-> Suelto]
  IN  [b |-> b, d |-> [d EXCEPT !.prefijos = (prefix :> IF uri = <<>> THEN Suelto ELSE b) @@ @]]
addBinding(d, prefix, uri, nivel) ==
  LET previa == IF prefix \in DOMAIN d.prefijos THEN d.prefijos[prefix] ELSE Suelto
      b == [prefix |-> prefix, uri |-> uri, nivel |-> nivel, previa |-> previa]
  IN  [b |-> b, d |-> [d EXCEPT !.prefijos = (prefix :> IF uri = <<>> THEN Suelto ELSE b) @@ @]]

(* The end of an element: its bindings, the last first.                    *)
QuitarAsociaciones(d, bindings) ==
  FoldLeft(LAMBDA x, b : [x EXCEPT !.prefijos[b.prefix] = b.previa], d, bindings)

-----------------------------------------------------------------------------
(* Attributes are taken in order; a is what has been gathered.             *)
ConAsociacion(a, prefix, uri, nivel) ==
  LET fallo == FalloDeAsociacion(prefix, uri)
      r == addBinding(a.d, prefix, uri, nivel)
      aviso == <<"startNamespaceDecl", prefix, uri>>
  IN  IF fallo # "NONE" THEN [a EXCEPT !.error = fallo]
      ELSE [a EXCEPT !.d = r.d, !.bindings = <<r.b>> \o @, !.avisos = Append(@, aviso)]

Declarados(d, q) == IF q \in DOMAIN d.atributos THEN d.atributos[q] ELSE [defaultAtts |-> <<>>, idAtt |-> Nada]
IsCdata(d, elemento, q) ==
  \A i \in DOMAIN Declarados(d, elemento).defaultAtts :
    (Declarados(d, elemento).defaultAtts[i].id = q) => Declarados(d, elemento).defaultAtts[i].isCdata

Especificado(o, elemento, nivel, a, att) ==
  LET q == att[1]
      v == storeAttributeValue(a.d, att[2], IsCdata(a.d, elemento, q))
      visto == [a EXCEPT !.vistos = @ \cup {q}]
  IN  IF a.error # "NONE" THEN a
      ELSE IF q \in a.vistos THEN [a EXCEPT !.error = "DUPLICATE_ATTRIBUTE"]
      ELSE IF v.error # "NONE" THEN [a EXCEPT !.error = v.error]
      ELSE IF EsXmlns(o, q) THEN ConAsociacion(visto, PrefijoDeclarado(q), v.valor, nivel)
      ELSE [visto EXCEPT !.lista = Append(@, <<q, v.valor>>)]

PorDefecto(o, nivel, a, da) ==
  IF a.error # "NONE" \/ da.id \in a.vistos \/ ~da.tieneValor THEN a
  ELSE IF EsXmlns(o, da.id) THEN ConAsociacion(a, PrefijoDeclarado(da.id), da.value, nivel)
  ELSE [a EXCEPT !.lista = Append(@, <<da.id, da.value>>), !.vistos = @ \cup {da.id}]

(* A name with a prefix takes the URI of its binding; two of those must    *)
(* not be the same.                                                        *)
Expandido(o, d, q) ==
  <<d.prefijos[q[1]].uri, q[2], IF o.triplets THEN q[1] ELSE Nada>>
Expandir(o, a, att) ==
  LET q == att[1]
      nombre == Expandido(o, a.d, q)
      iguales(n) == n[1] = nombre[1] /\ n[2] = nombre[2]
  IN  IF a.error # "NONE" THEN a
      ELSE IF ~ConPrefijo(o, q) THEN [a EXCEPT !.expandidos = Append(@, <<<<<<>>, q, Nada>>, att[2]>>)]
      ELSE IF ~Asociado(a.d, q[1]) THEN [a EXCEPT !.error = "UNBOUND_PREFIX"]
      ELSE IF \E i \in DOMAIN a.expandidos : iguales(a.expandidos[i][1]) THEN [a EXCEPT !.error = "DUPLICATE_ATTRIBUTE"]
      ELSE [a EXCEPT !.expandidos = Append(@, <<nombre, att[2]>>)]

(* The position of the ID among the attributes that were given.  When the  *)
(* ID was given but is a namespace declaration, the last one is kept.      *)
IdAttIndex(idAtt, a, anterior) ==
  LET i == SelectInSeq(a.lista, LAMBDA att : att[1] = idAtt)
  IN  IF idAtt \notin a.vistos THEN -1 ELSE IF i = 0 THEN anterior ELSE 2 * (i - 1)

Contar(dados, idAtt, anterior) ==
  IF dados.error # "NONE" THEN dados
  ELSE [dados EXCEPT !.nSpecifiedAtts = 2 * Len(dados.lista), !.idAttIndex = IdAttIndex(idAtt, dados, anterior)]
ExpandirTodos(o, a) == FoldLeft(LAMBDA x, att : Expandir(o, x, att), a, a.lista)

(* The name of the element: where it is expanded, or that it is not.       *)
SinEspacio(q) == [b |-> Suelto, q |-> q, local |-> Nada, prefix |-> Nada]
EnEspacio(o, b, q) ==
  [b |-> b, q |-> q, local |-> q[2], prefix |-> IF o.triplets /\ b.prefix # Predeterminado THEN b.prefix ELSE Nada]
Nombrar(o, a, q) ==
  IF a.error # "NONE" \/ ~o.ns THEN [a EXCEPT !.nombre = SinEspacio(q)]
  ELSE IF q[1] # Nada
       THEN IF Asociado(a.d, q[1]) THEN [a EXCEPT !.nombre = EnEspacio(o, a.d.prefijos[q[1]], q)]
            ELSE [a EXCEPT !.error = "UNBOUND_PREFIX"]
       ELSE IF Asociado(a.d, Predeterminado) THEN [a EXCEPT !.nombre = EnEspacio(o, a.d.prefijos[Predeterminado], q)]
       ELSE [a EXCEPT !.nombre = SinEspacio(q)]

storeAtts(o, d, t, nivel, idAttIndex) ==
  LET q == t.val
      inicio == [d |-> d, error |-> "NONE", avisos |-> <<>>, bindings |-> <<>>, lista |-> <<>>, vistos |-> {},
                 expandidos |-> <<>>, nombre |-> SinEspacio(q), nSpecifiedAtts |-> 0, idAttIndex |-> idAttIndex]
      dados == FoldLeft(LAMBDA a, att : Especificado(o, q, nivel, a, att), inicio, t.atts)
      todos == FoldLeft(LAMBDA a, da : PorDefecto(o, nivel, a, da),
                        Contar(dados, Declarados(d, q).idAtt, idAttIndex), Declarados(d, q).defaultAtts)
  IN  Nombrar(o, ExpandirTodos(o, todos), q)
=============================================================================
