------------------------------- MODULE Escaner -------------------------------
(***************************************************************************)
(* xmltok_impl.c of expat: the functions that find the next token of a     *)
(* text of bytes, which may end anywhere.  Each function is a set of rows  *)
(* <<state, class, action>>: the byte types of a case of one of its        *)
(* switches and what it does with them.  A byte is a string; those above   *)
(* ASCII are written in hexadecimal, and of them there is one first byte   *)
(* of a character of two, "c3", and what may follow it, "a9".  The         *)
(* encoding is UTF-8, without namespaces.                                  *)
(***************************************************************************)
EXTENDS Integers, Sequences
LOCAL INSTANCE SequencesExt
LOCAL INSTANCE TLC
LOCAL INSTANCE Consulta WITH INT_MAX <- 0

Hexa == { "a", "b", "c", "d", "e", "f", "A", "B", "C", "D", "E", "F" }
Puntuacion ==
  ("." :> "NAME") @@ ("-" :> "MINUS") @@ ("<" :> "LT") @@ (">" :> "GT") @@ ("&" :> "AMP") @@ (";" :> "SEMI")
  @@ ("#" :> "NUM") @@ ("=" :> "EQUALS") @@ ("'" :> "APOS") @@ ("\"" :> "QUOT") @@ ("/" :> "SOL") @@ ("!" :> "EXCL")
  @@ ("?" :> "QUEST") @@ ("[" :> "LSQB") @@ ("]" :> "RSQB") @@ ("(" :> "LPAR") @@ (")" :> "RPAR") @@ ("%" :> "PERCNT")
  @@ ("," :> "COMMA") @@ ("|" :> "VERBAR") @@ ("*" :> "AST") @@ ("+" :> "PLUS") @@ (" " :> "S") @@ ("\t" :> "S")
  @@ ("\r" :> "CR") @@ ("\n" :> "LF") @@ ("01" :> "NONXML") @@ ("c3" :> "LEAD2") @@ ("a9" :> "TRAIL") @@ ("x" :> "x")
Nmstrt == {"NMSTRT", "x"}                 \* x has a class of its own, for &#x
BYTE_TYPE(b) ==
  CASE b \in DOMAIN Puntuacion -> Puntuacion[b]
    [] b \in Hexa -> "HEX"
    [] b \in ToSet(Digitos) -> "DIGIT"
    [] b \in (ToSet(Mayusculas) \cup ToSet(Minusculas) \cup {"_", ":"}) \ (Hexa \cup {"x"}) -> "NMSTRT"
    [] OTHER -> "OTHER"

(* What stands at a place: a class, FIN at the end of the text, or a       *)
(* character of two bytes, whole, not well formed or cut by the end.       *)
Clase(s, p) ==
  CASE p > Len(s) -> "FIN"
    [] p <= Len(s) /\ BYTE_TYPE(s[p]) # "LEAD2" -> BYTE_TYPE(s[p])
    [] OTHER -> IF p = Len(s) THEN "CORTO" ELSE IF s[p + 1] = "a9" THEN "LEAD2" ELSE "DESPAREJO"
Ancho(c) == IF c \in {"LEAD2", "DESPAREJO"} THEN 2 ELSE 1

S3 == {"S", "CR", "LF"}
Inicial == Nmstrt \cup {"HEX", "LEAD2", "DESPAREJO"}            \* CHECK_NMSTRT_CASES
DeNombre == Inicial \cup {"DIGIT", "NAME", "MINUS"}             \* CHECK_NAME_CASES
Caracteres == Nmstrt \cup S3 \cup {"HEX", "DIGIT", "OTHER", "LEAD2"}    \* all but INVALID_CASES
              \cup ({ Puntuacion[b] : b \in DOMAIN Puntuacion } \ {"NONXML", "TRAIL"})
Hay == Caracteres \cup {"NONXML", "TRAIL", "DESPAREJO", "CORTO"}
Todas == Hay \cup {"FIN"}

(* The actions: to take what stands there and go to a state, to look at it *)
(* again from another state, and to return a token that ends so many       *)
(* bytes from there.                                                       *)
Va(e, cs, f) == { <<e, c, <<"va", f, 1>>>> : c \in cs }
Sigue(e, cs, f) == { <<e, c, <<"va", f, 0>>>> : c \in cs }
Da(e, cs, tok, n) == { <<e, c, <<"da", tok, n>>>> : c \in cs }

(* Fault: two hyphens that do not end it are part of a comment.            *)
scanComment_ConGuiones ==
  Va("comentario0", {"MINUS"}, "comentario") \cup Va("comentario", {"MINUS"}, "comentario1")
  \cup Va("comentario", Caracteres \ {"MINUS"}, "comentario") \cup Va("comentario1", {"MINUS"}, "comentario2")
  \cup Sigue("comentario1", Hay \ {"MINUS"}, "comentario") \cup Da("comentario2", {"GT"}, "COMMENT", 1)
  \cup Sigue("comentario2", Hay \ {"GT"}, "comentario")
scanComment ==
  Va("comentario0", {"MINUS"}, "comentario") \cup Va("comentario", {"MINUS"}, "comentario1")
  \cup Va("comentario", Caracteres \ {"MINUS"}, "comentario") \cup Va("comentario1", {"MINUS"}, "comentario2")
  \cup Sigue("comentario1", Hay \ {"MINUS"}, "comentario") \cup Da("comentario2", {"GT"}, "COMMENT", 1)

scanDecl ==
  Va("decl", {"MINUS"}, "comentario0") \cup Da("decl", {"LSQB"}, "COND_SECT_OPEN", 1)
  \cup Va("decl", Nmstrt \cup {"HEX"}, "decl1") \cup Va("decl1", Nmstrt \cup {"HEX"}, "decl1")
  \cup Da("decl1", S3, "DECL_OPEN", 0) \cup Va("decl1", {"PERCNT"}, "decl2")
  \cup Da("decl2", Hay \ (S3 \cup {"PERCNT"}), "DECL_OPEN", -1)

(* checkPiTarget is asked in PrimerToken.                                  *)
scanPi ==
  Va("pi", Inicial, "pi1") \cup Va("pi1", DeNombre, "pi1") \cup Va("pi1", S3, "pi2") \cup Va("pi1", {"QUEST"}, "pi4")
  \cup Va("pi2", {"QUEST"}, "pi3") \cup Va("pi2", Caracteres \ {"QUEST"}, "pi2")
  \cup Da("pi3", {"GT"}, "PI", 1) \cup Sigue("pi3", Hay \ {"GT"}, "pi2") \cup Da("pi4", {"GT"}, "PI", 1)

scanEndTag ==
  Va("fin", Inicial, "fin1") \cup Va("fin1", DeNombre, "fin1") \cup Va("fin1", S3, "fin2") \cup Va("fin2", S3, "fin2")
  \cup Da("fin1", {"GT"}, "END_TAG", 1) \cup Da("fin2", {"GT"}, "END_TAG", 1)

(* A reference, alone or in a value: where it is, and the actions after it. *)
scanCharRef(h, despues) ==
  Va(h \o "num", {"x"}, h \o "hexa") \cup Va(h \o "num", {"DIGIT"}, h \o "num1") \cup Va(h \o "num1", {"DIGIT"}, h \o "num1")
  \cup Va(h \o "hexa", {"DIGIT", "HEX"}, h \o "hexa1") \cup Va(h \o "hexa1", {"DIGIT", "HEX"}, h \o "hexa1")
  \cup { <<h \o n, "SEMI", despues>> : n \in {"num1", "hexa1"} }
scanRef(h, despues, despuesDeNumero) ==
  Va(h \o "ref", Inicial, h \o "ref1") \cup Va(h \o "ref", {"NUM"}, h \o "num") \cup Va(h \o "ref1", DeNombre, h \o "ref1")
  \cup { <<h \o "ref1", "SEMI", despues>> } \cup scanCharRef(h, despuesDeNumero)

ValorEntre(h, comilla) ==
  Va(h, {comilla}, "tras") \cup Va(h, {"AMP"}, h \o "ref") \cup Va(h, Caracteres \ {comilla, "AMP", "LT"}, h)
  \cup scanRef(h, <<"va", h, 1>>, <<"va", h, 1>>)
FinDeEtiqueta(e) == Da(e, {"GT"}, "START_TAG", 1) \cup Va(e, {"SOL"}, "vacia")
scanAtts ==
  Va("att", DeNombre, "att") \cup Va("att", S3, "att1") \cup Va("att1", S3, "att1")
  \cup Va("att", {"EQUALS"}, "igual") \cup Va("att1", {"EQUALS"}, "igual") \cup Va("igual", S3, "igual")
  \cup Va("igual", {"QUOT"}, "valorQ") \cup Va("igual", {"APOS"}, "valorA")
  \cup ValorEntre("valorQ", "QUOT") \cup ValorEntre("valorA", "APOS")
  \cup Va("tras", S3, "otro") \cup Va("otro", S3, "otro") \cup Va("otro", Inicial, "att")
  \cup FinDeEtiqueta("tras") \cup FinDeEtiqueta("otro") \cup Da("vacia", {"GT"}, "EMPTY_ELEMENT", 1)

scanLt ==
  Va("lt", Inicial, "nombre") \cup Va("lt", {"EXCL"}, "lt1") \cup Va("lt", {"QUEST"}, "pi") \cup Va("lt", {"SOL"}, "fin")
  \cup Va("lt1", {"MINUS"}, "comentario0") \cup Va("lt1", {"LSQB"}, "cdata") \cup Va("nombre", DeNombre, "nombre")
  \cup Va("nombre", S3, "otro1") \cup Va("otro1", S3, "otro1") \cup Va("otro1", Inicial, "att")
  \cup FinDeEtiqueta("nombre") \cup FinDeEtiqueta("otro1")

contentTok ==
  LET especiales == {"LT", "AMP", "CR", "LF", "RSQB"} IN
  Da("contenido", {"FIN"}, "NONE", 0) \cup Va("contenido", {"LT"}, "lt") \cup Va("contenido", {"AMP"}, "ref")
  \cup Va("contenido", {"CR"}, "cr") \cup Da("contenido", {"LF"}, "DATA_NEWLINE", 1) \cup Va("contenido", {"RSQB"}, "r1")
  \cup Va("contenido", Caracteres \ especiales, "datos")
  \cup Da("cr", {"FIN"}, "TRAILING_CR", 0) \cup Da("cr", {"LF"}, "DATA_NEWLINE", 1) \cup Da("cr", Hay \ {"LF"}, "DATA_NEWLINE", 0)
  \cup Da("r1", {"FIN"}, "TRAILING_RSQB", 0) \cup Da("r2", {"FIN"}, "TRAILING_RSQB", 0)
  \cup Va("r1", {"RSQB"}, "r2") \cup Sigue("r1", Hay \ {"RSQB"}, "datos") \cup Sigue("r2", Hay \ {"GT"}, "datosR1")
  \cup Va("datos", Caracteres \ especiales, "datos") \cup Da("datos", Todas \ (Caracteres \ {"LT", "AMP", "CR", "LF"}), "DATA_CHARS", 0)
  \cup Va("datos", {"RSQB"}, "datosR1") \cup Va("datosR1", {"RSQB"}, "datosR2") \cup Va("datosR2", {"RSQB"}, "datosR2")
  \cup Da("datosR1", {"FIN"}, "DATA_CHARS", -1) \cup Da("datosR2", {"FIN"}, "DATA_CHARS", -2)
  \cup Sigue("datosR1", Hay \ {"RSQB"}, "datos") \cup Sigue("datosR2", Hay \ {"RSQB", "GT"}, "datos")

cdataSectionTok ==
  LET especiales == {"CR", "LF", "RSQB"} IN
  Da("seccion", {"FIN"}, "NONE", 0) \cup Va("seccion", {"CR"}, "seccionCr") \cup Da("seccion", {"LF"}, "DATA_NEWLINE", 1)
  \cup Da("seccionCr", {"LF"}, "DATA_NEWLINE", 1) \cup Da("seccionCr", Hay \ {"LF"}, "DATA_NEWLINE", 0)
  \cup Va("seccion", {"RSQB"}, "seccionR1") \cup Va("seccionR1", {"RSQB"}, "seccionR2")
  \cup Sigue("seccionR1", Hay \ {"RSQB"}, "seccion1") \cup Da("seccionR2", {"GT"}, "CDATA_SECT_CLOSE", 1)
  \cup Da("seccionR2", Hay \ {"GT"}, "DATA_CHARS", -1)
  \cup Va("seccion", Caracteres \ especiales, "seccion1") \cup Va("seccion1", Caracteres \ especiales, "seccion1")
  \cup Da("seccion1", Todas \ (Caracteres \ especiales), "DATA_CHARS", 0)

-----------------------------------------------------------------------------
(* The prolog: a token that what follows could make longer is not returned *)
(* at the end of the text.                                                 *)
scanPercent ==
  Va("por", Inicial, "por1") \cup Da("por", S3 \cup {"PERCNT"}, "PERCENT", 0) \cup Da("por", {"FIN"}, "ESPERA", 0)
  \cup Va("por1", DeNombre, "por1") \cup Da("por1", {"SEMI"}, "PARAM_ENTITY_REF", 1)
scanPoundName ==
  Va("numeral", Inicial, "numeral1") \cup Va("numeral1", DeNombre, "numeral1") \cup Da("numeral1", {"FIN"}, "ESPERA", 0)
  \cup Da("numeral1", S3 \cup {"RPAR", "GT", "PERCNT", "VERBAR"}, "POUND_NAME", 0)
scanLit(h, comilla) ==
  Va(h, {comilla}, "literal1") \cup Va(h, Caracteres \ {comilla}, h) \cup Da("literal1", {"FIN"}, "ESPERA", 0)
  \cup Da("literal1", S3 \cup {"GT", "PERCNT", "LSQB"}, "LITERAL", 0)

nombres ==
  LET cierra == S3 \cup {"GT", "RPAR", "COMMA", "VERBAR", "LSQB", "PERCNT"} IN
  UNION { Va(e, DeNombre, e) \cup Da(e, {"FIN"}, "ESPERA", 0) : e \in {"name", "nmtoken"} }
  \cup Da("name", cierra, "NAME", 0) \cup Da("nmtoken", cierra, "NMTOKEN", 0)
  \cup Da("name", {"PLUS"}, "NAME_PLUS", 1) \cup Da("name", {"AST"}, "NAME_ASTERISK", 1)
  \cup Da("name", {"QUEST"}, "NAME_QUESTION", 1)
espacios ==
  Da("prologo", {"FIN"}, "NONE", 0) \cup Va("prologo", {"S", "LF"}, "blanco") \cup Va("prologo", {"CR"}, "blancoCr")
  \cup Da("blancoCr", {"FIN"}, "-PROLOG_S", 0) \cup Sigue("blancoCr", Hay, "blanco")
  \cup Va("blanco", {"S", "LF"}, "blanco") \cup Va("blanco", {"CR"}, "blancoR")
  \cup Da("blanco", Todas \ S3, "PROLOG_S", 0) \cup Da("blancoR", {"FIN"}, "PROLOG_S", -1) \cup Sigue("blancoR", Hay, "blanco")
corchetes ==
  Va("prologo", {"RSQB"}, "cierra") \cup Da("cierra", {"FIN"}, "ESPERA", 0) \cup Va("cierra", {"RSQB"}, "cierra1")
  \cup Da("cierra", Hay \ {"RSQB"}, "CLOSE_BRACKET", 0) \cup Da("cierra1", {"GT"}, "COND_SECT_CLOSE", 1)
  \cup Da("cierra1", Hay \ {"GT"}, "CLOSE_BRACKET", -1)
parentesis ==
  Va("prologo", {"RPAR"}, "par") \cup Da("par", {"FIN"}, "ESPERA", 0) \cup Da("par", {"AST"}, "CLOSE_PAREN_ASTERISK", 1)
  \cup Da("par", {"QUEST"}, "CLOSE_PAREN_QUESTION", 1) \cup Da("par", {"PLUS"}, "CLOSE_PAREN_PLUS", 1)
  \cup Da("par", S3 \cup {"GT", "COMMA", "VERBAR", "RPAR"}, "CLOSE_PAREN", 0)
prologTok ==
  Va("prologo", {"QUOT"}, "litQ") \cup Va("prologo", {"APOS"}, "litA") \cup Va("prologo", {"LT"}, "prologoLt")
  \cup Va("prologoLt", {"EXCL"}, "decl") \cup Va("prologoLt", {"QUEST"}, "pi")
  \cup Da("prologoLt", Inicial \cup {"CORTO"}, "INSTANCE_START", -1)
  \cup Va("prologo", {"PERCNT"}, "por") \cup Va("prologo", {"NUM"}, "numeral")
  \cup Da("prologo", {"COMMA"}, "COMMA", 1) \cup Da("prologo", {"LSQB"}, "OPEN_BRACKET", 1)
  \cup Da("prologo", {"LPAR"}, "OPEN_PAREN", 1) \cup Da("prologo", {"VERBAR"}, "OR", 1) \cup Da("prologo", {"GT"}, "DECL_CLOSE", 1)
  \cup Va("prologo", Inicial, "name") \cup Va("prologo", {"DIGIT", "NAME", "MINUS"}, "nmtoken")

(* The text of an attribute value, of which each character of more bytes   *)
(* is skipped whatever they are.                                           *)
attributeValueTok ==
  LET especiales == {"AMP", "LT", "CR", "LF", "S"} IN
  Da("atributo", {"FIN"}, "NONE", 0) \cup Va("atributo", {"AMP"}, "ref") \cup Da("atributo", {"LF"}, "DATA_NEWLINE", 1)
  \cup Da("atributo", {"S"}, "ATTRIBUTE_VALUE_S", 1) \cup Va("atributo", {"CR"}, "atributoCr")
  \cup Da("atributoCr", {"FIN"}, "TRAILING_CR", 0) \cup Da("atributoCr", {"LF"}, "DATA_NEWLINE", 1)
  \cup Da("atributoCr", Hay \ {"LF"}, "DATA_NEWLINE", 0)
  \cup Va("atributo", Hay \ especiales, "atributo1") \cup Va("atributo1", Hay \ especiales, "atributo1")
  \cup Da("atributo1", (especiales \ {"LT"}) \cup {"FIN"}, "DATA_CHARS", 0)

-----------------------------------------------------------------------------
Filas == UNION { scanComment, scanDecl, scanPi, scanEndTag, scanAtts, scanLt, contentTok, cdataSectionTok, scanPercent,
                 scanRef("", <<"da", "ENTITY_REF", 1>>, <<"da", "CHAR_REF", 1>>), scanPoundName, scanLit("litQ", "QUOT"),
                 scanLit("litA", "APOS"), nombres, espacios, corchetes, parentesis, prologTok, attributeValueTok }
Estados == { f[1] : f \in Filas } \cup {"cdata"}
(* What no row takes is not valid, but for the end of the text, and for a  *)
(* character that it cuts where one could stand.                           *)
SinFila(e, c) ==
  CASE c = "FIN" -> <<"da", "PARTIAL", 0>>
    [] c = "CORTO" /\ <<e, "LEAD2">> \in { <<f[1], f[2]>> : f \in Filas } -> <<"da", "PARTIAL_CHAR", 0>>
    [] OTHER -> <<"da", "INVALID", 0>>
Tabla ==
  LET conFila == { <<f[1], f[2]>> : f \in Filas }
  IN  [ec \in conFila |-> (CHOOSE f \in Filas : <<f[1], f[2]>> = ec)[3]]
      @@ [ec \in (Estados \X Todas) |-> SinFila(ec[1], ec[2])]

(* The target of an instruction: xml is a declaration, and not in capitals. *)
checkPiTarget(target) ==
  IF EnMinusculas(target) # <<"x", "m", "l">> THEN "PI" ELSE IF target = EnMinusculas(target) THEN "XML_DECL" ELSE "INVALID"
CDATA_LSQB == <<"C", "D", "A", "T", "A", "[">>
scanCdataSection(s, p) ==
  IF Len(s) < p + 5 THEN [tok |-> "PARTIAL", sig |-> p]
  ELSE [tok |-> IF SubSeq(s, p, p + 5) = CDATA_LSQB THEN "CDATA_SECT_OPEN" ELSE "INVALID", sig |-> p + 6]

(* The token of s by the function that begins in a state: its class and    *)
(* the place after it.                                                     *)
PrimerToken(s, inicial) ==
  LET Hacer(e, p, c, a) == IF a[1] = "da" THEN [tok |-> a[2], sig |-> p + a[3], e |-> e]
                           ELSE [tok |-> "", sig |-> p + a[3] * Ancho(c), e |-> a[2]]
      Accion(e, p, c) ==
        IF e = "pi1" /\ c \in S3 \cup {"QUEST"} /\ checkPiTarget(SubSeq(s, 3, p - 1)) = "INVALID" THEN <<"da", "INVALID", 0>>
        ELSE Tabla[<<e, c>>]
      desde[e \in Estados, p \in 1..(Len(s) + 2)] ==
        LET Seguir(r) == IF r.tok = "" THEN desde[r.e, r.sig] ELSE r
        IN  IF e = "cdata" THEN scanCdataSection(s, p) ELSE Seguir(Hacer(e, p, Clase(s, p), Accion(e, p, Clase(s, p))))
      objetivo == SubSeq(s, 3, CHOOSE i \in 2..Len(s) : /\ BYTE_TYPE(s[i + 1]) \in S3 \cup {"QUEST"}
                                                       /\ \A j \in 3..i : BYTE_TYPE(s[j]) \notin S3 \cup {"QUEST"})
      Cual(r) == [tok |-> IF r.tok = "PI" THEN checkPiTarget(objetivo) ELSE r.tok, sig |-> r.sig]
  IN  Cual(desde[inicial, 1])
=============================================================================
