------------------------------- MODULE Roles -------------------------------
(***************************************************************************)
(* xmlrole.c of expat: the state machine that gives a role to every token  *)
(* of the prolog, of the document type declaration and of an external      *)
(* subset.  A token is a class with the keyword it matches ("" when it     *)
(* matches none: XmlNameMatchesAscii only compares with keywords).  Each   *)
(* handler function is a set of rows <<handler, class, keywords, role,     *)
(* next>>: the keywords that the row takes, or Cualquiera, and the handler *)
(* it leaves ("=" the same one, "top" setTopLevel's).                      *)
(***************************************************************************)
EXTENDS Integers, Sequences
LOCAL INSTANCE FiniteSetsExt

RolDeTipo ==
  [CDATA |-> "ATTRIBUTE_TYPE_CDATA", ID |-> "ATTRIBUTE_TYPE_ID", IDREF |-> "ATTRIBUTE_TYPE_IDREF",
   IDREFS |-> "ATTRIBUTE_TYPE_IDREFS", ENTITY |-> "ATTRIBUTE_TYPE_ENTITY",
   ENTITIES |-> "ATTRIBUTE_TYPE_ENTITIES", NMTOKEN |-> "ATTRIBUTE_TYPE_NMTOKEN",
   NMTOKENS |-> "ATTRIBUTE_TYPE_NMTOKENS"]
TiposAtributo == DOMAIN RolDeTipo
Palabras == TiposAtributo \cup
  {"", "ANY", "ATTLIST", "DOCTYPE", "ELEMENT", "EMPTY", "FIXED", "IGNORE", "IMPLIED", "INCLUDE",
   "NDATA", "NOTATION", "PCDATA", "PUBLIC", "REQUIRED", "SYSTEM"}
Cualquiera == Palabras
Solo(p) == {p}

prolog ==
  { <<"prolog0", "XML_DECL", Cualquiera, "XML_DECL", "prolog1">>,
    <<"prolog0", "PI", Cualquiera, "PI", "prolog1">>,
    <<"prolog0", "COMMENT", Cualquiera, "COMMENT", "prolog1">>,
    <<"prolog0", "BOM", Cualquiera, "NONE", "=">>,
    <<"prolog1", "BOM", Cualquiera, "NONE", "=">> }
  \cup { <<h, k, Cualquiera, k, "=">> : h \in {"prolog1", "prolog2"}, k \in {"PI", "COMMENT"} }
  \cup { <<h, "DECL_OPEN", Solo("DOCTYPE"), "DOCTYPE_NONE", "doctype0">> : h \in {"prolog0", "prolog1"} }
  \cup { <<h, "INSTANCE_START", Cualquiera, "INSTANCE_START", "error">>
           : h \in {"prolog0", "prolog1", "prolog2"} }

doctype ==
  { <<"doctype0", "NAME", Cualquiera, "DOCTYPE_NAME", "doctype1">>,
    <<"doctype0", "PREFIXED_NAME", Cualquiera, "DOCTYPE_NAME", "doctype1">>,
    <<"doctype1", "NAME", Solo("SYSTEM"), "DOCTYPE_NONE", "doctype3">>,
    <<"doctype1", "NAME", Solo("PUBLIC"), "DOCTYPE_NONE", "doctype2">>,
    <<"doctype2", "LITERAL", Cualquiera, "DOCTYPE_PUBLIC_ID", "doctype3">>,
    <<"doctype3", "LITERAL", Cualquiera, "DOCTYPE_SYSTEM_ID", "doctype4">> }
  \cup { <<h, "OPEN_BRACKET", Cualquiera, "DOCTYPE_INTERNAL_SUBSET", "internalSubset">>
           : h \in {"doctype1", "doctype4"} }
  \cup { <<h, "DECL_CLOSE", Cualquiera, "DOCTYPE_CLOSE", "prolog2">>
           : h \in {"doctype1", "doctype4", "doctype5"} }

(* externalSubset1 sends what it does not take to internalSubset, but for  *)
(* the end of the subset.                                                  *)
subset ==
  (UNION { { <<h, "DECL_OPEN", Solo("ENTITY"), "ENTITY_NONE", "entity0">>,
             <<h, "DECL_OPEN", Solo("ATTLIST"), "ATTLIST_NONE", "attlist0">>,
             <<h, "DECL_OPEN", Solo("ELEMENT"), "ELEMENT_NONE", "element0">>,
             <<h, "DECL_OPEN", Solo("NOTATION"), "NOTATION_NONE", "notation0">>,
             <<h, "PI", Cualquiera, "PI", "=">>,
             <<h, "COMMENT", Cualquiera, "COMMENT", "=">>,
             <<h, "PARAM_ENTITY_REF", Cualquiera, "PARAM_ENTITY_REF", "=">>,
             <<h, "NONE", Cualquiera, "NONE", "=">> }
           : h \in {"internalSubset", "externalSubset1"} })
  \cup { <<"internalSubset", "CLOSE_BRACKET", Cualquiera, "DOCTYPE_NONE", "doctype5">>,
         <<"externalSubset1", "COND_SECT_OPEN", Cualquiera, "NONE", "condSect0">>,
         <<"externalSubset1", "COND_SECT_CLOSE", Cualquiera, "NONE", "=">> }

entityGeneral ==
  { <<"entity0", "PERCENT", Cualquiera, "ENTITY_NONE", "entity1">>,
    <<"entity0", "NAME", Cualquiera, "GENERAL_ENTITY_NAME", "entity2">>,
    <<"entity1", "NAME", Cualquiera, "PARAM_ENTITY_NAME", "entity7">>,
    <<"entity2", "NAME", Solo("SYSTEM"), "ENTITY_NONE", "entity4">>,
    <<"entity2", "NAME", Solo("PUBLIC"), "ENTITY_NONE", "entity3">>,
    <<"entity2", "LITERAL", Cualquiera, "ENTITY_VALUE", "declClose">>,
    <<"entity3", "LITERAL", Cualquiera, "ENTITY_PUBLIC_ID", "entity4">>,
    <<"entity4", "LITERAL", Cualquiera, "ENTITY_SYSTEM_ID", "entity5">> }

entityResto ==
  { <<"entity5", "DECL_CLOSE", Cualquiera, "ENTITY_COMPLETE", "top">>,
    <<"entity5", "NAME", Solo("NDATA"), "ENTITY_NONE", "entity6">>,
    <<"entity6", "NAME", Cualquiera, "ENTITY_NOTATION_NAME", "declClose">>,
    <<"entity7", "NAME", Solo("SYSTEM"), "ENTITY_NONE", "entity9">>,
    <<"entity7", "NAME", Solo("PUBLIC"), "ENTITY_NONE", "entity8">>,
    <<"entity7", "LITERAL", Cualquiera, "ENTITY_VALUE", "declClose">>,
    <<"entity8", "LITERAL", Cualquiera, "ENTITY_PUBLIC_ID", "entity9">>,
    <<"entity9", "LITERAL", Cualquiera, "ENTITY_SYSTEM_ID", "entity10">>,
    <<"entity10", "DECL_CLOSE", Cualquiera, "ENTITY_COMPLETE", "top">> }

notation ==
  { <<"notation0", "NAME", Cualquiera, "NOTATION_NAME", "notation1">>,
    <<"notation1", "NAME", Solo("SYSTEM"), "NOTATION_NONE", "notation3">>,
    <<"notation1", "NAME", Solo("PUBLIC"), "NOTATION_NONE", "notation2">>,
    <<"notation2", "LITERAL", Cualquiera, "NOTATION_PUBLIC_ID", "notation4">>,
    <<"notation3", "LITERAL", Cualquiera, "NOTATION_SYSTEM_ID", "declClose">>,
    <<"notation4", "LITERAL", Cualquiera, "NOTATION_SYSTEM_ID", "declClose">>,
    <<"notation4", "DECL_CLOSE", Cualquiera, "NOTATION_NO_SYSTEM_ID", "top">> }

attlistTipo ==
  { <<"attlist0", tok, Cualquiera, "ATTLIST_ELEMENT_NAME", "attlist1">> : tok \in {"NAME", "PREFIXED_NAME"} }
  \cup { <<"attlist1", tok, Cualquiera, "ATTRIBUTE_NAME", "attlist2">> : tok \in {"NAME", "PREFIXED_NAME"} }
  \cup { <<"attlist2", "NAME", Solo(t), RolDeTipo[t], "attlist8">> : t \in TiposAtributo }
  \cup { <<"attlist3", tok, Cualquiera, "ATTRIBUTE_ENUM_VALUE", "attlist4">>
           : tok \in {"NMTOKEN", "NAME", "PREFIXED_NAME"} }
  \cup { <<"attlist1", "DECL_CLOSE", Cualquiera, "ATTLIST_NONE", "top">>,
         <<"attlist2", "NAME", Solo("NOTATION"), "ATTLIST_NONE", "attlist5">>,
         <<"attlist2", "OPEN_PAREN", Cualquiera, "ATTLIST_NONE", "attlist3">>,
         <<"attlist4", "CLOSE_PAREN", Cualquiera, "ATTLIST_NONE", "attlist8">>,
         <<"attlist4", "OR", Cualquiera, "ATTLIST_NONE", "attlist3">> }

attlistValor ==
  { <<"attlist5", "OPEN_PAREN", Cualquiera, "ATTLIST_NONE", "attlist6">>,
    <<"attlist6", "NAME", Cualquiera, "ATTRIBUTE_NOTATION_VALUE", "attlist7">>,
    <<"attlist7", "CLOSE_PAREN", Cualquiera, "ATTLIST_NONE", "attlist8">>,
    <<"attlist7", "OR", Cualquiera, "ATTLIST_NONE", "attlist6">>,
    <<"attlist8", "POUND_NAME", Solo("IMPLIED"), "IMPLIED_ATTRIBUTE_VALUE", "attlist1">>,
    <<"attlist8", "POUND_NAME", Solo("REQUIRED"), "REQUIRED_ATTRIBUTE_VALUE", "attlist1">>,
    <<"attlist8", "POUND_NAME", Solo("FIXED"), "ATTLIST_NONE", "attlist9">>,
    <<"attlist8", "LITERAL", Cualquiera, "DEFAULT_ATTRIBUTE_VALUE", "attlist1">>,
    <<"attlist9", "LITERAL", Cualquiera, "FIXED_ATTRIBUTE_VALUE", "attlist1">> }

elementNombres(h) ==
  { <<h, "NAME", Cualquiera, "CONTENT_ELEMENT", "element7">>,
    <<h, "PREFIXED_NAME", Cualquiera, "CONTENT_ELEMENT", "element7">>,
    <<h, "NAME_QUESTION", Cualquiera, "CONTENT_ELEMENT_OPT", "element7">>,
    <<h, "NAME_ASTERISK", Cualquiera, "CONTENT_ELEMENT_REP", "element7">>,
    <<h, "NAME_PLUS", Cualquiera, "CONTENT_ELEMENT_PLUS", "element7">> }

elementInicio ==
  elementNombres("element2") \cup
  { <<"element0", "NAME", Cualquiera, "ELEMENT_NAME", "element1">>,
    <<"element0", "PREFIXED_NAME", Cualquiera, "ELEMENT_NAME", "element1">>,
    <<"element1", "NAME", Solo("EMPTY"), "CONTENT_EMPTY", "declClose">>,
    <<"element1", "NAME", Solo("ANY"), "CONTENT_ANY", "declClose">>,
    <<"element1", "OPEN_PAREN", Cualquiera, "GROUP_OPEN", "element2">>,
    <<"element2", "POUND_NAME", Solo("PCDATA"), "CONTENT_PCDATA", "element3">>,
    <<"element2", "OPEN_PAREN", Cualquiera, "GROUP_OPEN", "element6">>,
    <<"element3", "CLOSE_PAREN", Cualquiera, "GROUP_CLOSE", "declClose">>,
    <<"element3", "CLOSE_PAREN_ASTERISK", Cualquiera, "GROUP_CLOSE_REP", "declClose">>,
    <<"element3", "OR", Cualquiera, "ELEMENT_NONE", "element4">> }

elementGrupos ==
  elementNombres("element6") \cup
  { <<"element4", "NAME", Cualquiera, "CONTENT_ELEMENT", "element5">>,
    <<"element4", "PREFIXED_NAME", Cualquiera, "CONTENT_ELEMENT", "element5">>,
    <<"element5", "CLOSE_PAREN_ASTERISK", Cualquiera, "GROUP_CLOSE_REP", "declClose">>,
    <<"element5", "OR", Cualquiera, "ELEMENT_NONE", "element4">>,
    <<"element6", "OPEN_PAREN", Cualquiera, "GROUP_OPEN", "=">>,
    <<"element7", "CLOSE_PAREN", Cualquiera, "GROUP_CLOSE", "=">>,
    <<"element7", "CLOSE_PAREN_ASTERISK", Cualquiera, "GROUP_CLOSE_REP", "=">>,
    <<"element7", "CLOSE_PAREN_QUESTION", Cualquiera, "GROUP_CLOSE_OPT", "=">>,
    <<"element7", "CLOSE_PAREN_PLUS", Cualquiera, "GROUP_CLOSE_PLUS", "=">>,
    <<"element7", "COMMA", Cualquiera, "GROUP_SEQUENCE", "element6">>,
    <<"element7", "OR", Cualquiera, "GROUP_CHOICE", "element6">> }

condSect ==
  { <<"condSect0", "NAME", Solo("INCLUDE"), "NONE", "condSect1">>,
    <<"condSect0", "NAME", Solo("IGNORE"), "NONE", "condSect2">>,
    <<"condSect1", "OPEN_BRACKET", Cualquiera, "NONE", "externalSubset1">>,
    <<"condSect2", "OPEN_BRACKET", Cualquiera, "IGNORE_SECT", "externalSubset1">> }

Filas == UNION { prolog, doctype, subset, entityGeneral, entityResto, notation, attlistTipo,
                 attlistValor, elementInicio, elementGrupos, condSect }
Handlers == { f[1] : f \in Filas } \cup {"externalSubset0", "declClose", "error"}

(* The role of white space and of the rest of a declaration, by handler.   *)
NingunRol(h) ==
  CASE h \in { f[1] : f \in doctype } -> "DOCTYPE_NONE"
    [] h \in { f[1] : f \in entityGeneral \cup entityResto } -> "ENTITY_NONE"
    [] h \in { f[1] : f \in notation } -> "NOTATION_NONE"
    [] h \in { f[1] : f \in attlistTipo \cup attlistValor } -> "ATTLIST_NONE"
    [] h \in { f[1] : f \in elementInicio \cup elementGrupos } -> "ELEMENT_NONE"
    [] OTHER -> "NONE"

PrologStateInit ==
  [handler |-> "prolog0", level |-> 0, role_none |-> "NONE", includeLevel |-> 0, documentEntity |-> TRUE]
PrologStateInitExternalEntity ==
  [PrologStateInit EXCEPT !.handler = "externalSubset0", !.documentEntity = FALSE]

setTopLevel(state) == IF state.documentEntity THEN "internalSubset" ELSE "externalSubset1"

common(state, tok) ==
  IF ~state.documentEntity /\ tok.tok = "PARAM_ENTITY_REF"
  THEN [role |-> "INNER_PARAM_ENTITY_REF", state |-> state]
  ELSE [role |-> "ERROR", state |-> [state EXCEPT !.handler = "error"]]

(* The depth of the groups of a content model, and of the included         *)
(* sections.                                                               *)
NivelTras(state, fila) ==
  CASE fila[1] = "element1" /\ fila[4] = "GROUP_OPEN" -> 1
    [] fila[1] = "element2" /\ fila[4] = "GROUP_OPEN" -> 2
    [] fila[1] = "element6" /\ fila[4] = "GROUP_OPEN" -> state.level + 1
    [] fila[1] = "element7" /\ fila[5] = "=" -> state.level - 1
    [] OTHER -> state.level
IncludeTras(state, fila) ==
  CASE fila[1] = "condSect1" -> state.includeLevel + 1
    [] fila[2] = "COND_SECT_CLOSE" -> state.includeLevel - 1
    [] OTHER -> state.includeLevel

HandlerTras(state, fila) ==
  IF fila[5] = "top" THEN setTopLevel(state)
  ELSE IF fila[5] # "=" THEN fila[5]
  ELSE IF fila[1] = "element7" /\ state.level = 1 THEN "declClose" ELSE state.handler

(* Fault: a section that was not opened is closed.                         *)
Toma_SinNivel(state, tok, fila) ==
  /\ fila[2] = tok.tok
  /\ tok.txt \in fila[3]
  /\ (tok.tok = "NONE" /\ state.handler = "externalSubset1") => (state.includeLevel = 0)

Toma(state, tok, fila) ==
  /\ fila[2] = tok.tok
  /\ tok.txt \in fila[3]
  /\ (tok.tok = "COND_SECT_CLOSE") => (state.includeLevel > 0)
  /\ (tok.tok = "NONE" /\ state.handler = "externalSubset1") => (state.includeLevel = 0)

PorTabla(state, tok) ==
  LET filas == { f \in Filas : f[1] = state.handler /\ Toma(state, tok, f) }
      fila == CHOOSE f \in filas : TRUE
      handler == HandlerTras(state, fila)
  IN  IF filas = {} THEN common(state, tok)
      ELSE [role |-> fila[4],
            state |-> [state EXCEPT !.handler = handler,
                                    !.level = NivelTras(state, fila),
                                    !.includeLevel = IncludeTras(state, fila),
                                    !.role_none = IF handler = "declClose" THEN NingunRol(fila[1]) ELSE @]]

declClose(state, tok) ==
  CASE tok.tok = "PROLOG_S" -> [role |-> state.role_none, state |-> state]
    [] tok.tok = "DECL_CLOSE" ->
         [role |-> state.role_none, state |-> [state EXCEPT !.handler = setTopLevel(state)]]
    [] OTHER -> common(state, tok)

(* XmlTokenRole: the role of a token and the state after it.               *)
XmlTokenRole(state, tok) ==
  LET st == IF state.handler = "externalSubset0" THEN [state EXCEPT !.handler = "externalSubset1"] ELSE state
  IN  CASE st.handler = "error" -> [role |-> "NONE", state |-> st]
        [] state.handler = "externalSubset0" /\ tok.tok = "XML_DECL" -> [role |-> "TEXT_DECL", state |-> st]
        [] st.handler = "declClose" -> declClose(st, tok)
        [] st.handler # "declClose" /\ tok.tok = "PROLOG_S" ->
             [role |-> NingunRol(st.handler),
              state |-> IF st.handler = "prolog0" THEN [st EXCEPT !.handler = "prolog1"] ELSE st]
        [] OTHER -> PorTabla(st, tok)
=============================================================================
