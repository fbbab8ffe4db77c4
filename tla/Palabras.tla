------------------------------ MODULE Palabras ------------------------------
(***************************************************************************)
(* ParserWrapper: a file is given to expat line by line, without the line  *)
(* ends, and the words of its character data are counted.  expat is        *)
(* prologProcessor, contentProcessor, doCdataSection and epilogProcessor   *)
(* as this program uses them: a handler of character data and no other.    *)
(* The files are in UTF-8, have no internal subset, and their XML          *)
(* declarations are correct.                                               *)
(***************************************************************************)
EXTENDS Escaner
LOCAL INSTANCE SequencesExt
LOCAL INSTANCE FiniteSetsExt
LOCAL INSTANCE BagsExt
LOCAL INSTANCE Consulta WITH INT_MAX <- 0
R == INSTANCE Roles

CONSTANT Archivos      \* the files that may be read, each a sequence of lines

VARIABLES
  archivo, linea,      \* the file and the lines read from it
  buffer,              \* what expat has and is not yet part of a token
  processor, prologState, tags, hasParamEntityRefs, errorCode,    \* expat
  lexico,              \* the words counted
  leidos               \* history: the tokens taken, [en, tok, txt]
vars == <<archivo, linea, buffer, processor, prologState, tags, hasParamEntityRefs, errorCode, lexico, leidos>>

Init ==
  /\ archivo \in Archivos /\ linea = 0 /\ buffer = <<>>
  /\ processor = "prolog" /\ prologState = R!PrologStateInit /\ tags = <<>> /\ hasParamEntityRefs = FALSE
  /\ errorCode = "NONE" /\ lexico = EmptyBag /\ leidos = <<>>

-----------------------------------------------------------------------------
Letra(b) == b \in ToSet(Mayusculas) \cup ToSet(Minusculas) \cup ToSet(Digitos)

(* charHandler: the runs of letters and digits of a text, in lower case.   *)
(* char is signed, so that the accents the code asks for are never found.  *)
Contar(a) == [lex |-> IF a.word = <<>> THEN a.lex ELSE BagAdd(a.lex, EnMinusculas(a.word)), word |-> <<>>]
Acumular(a, b) == IF Letra(b) THEN [a EXCEPT !.word = Append(@, b)] ELSE Contar(a)
(* Fault: the word at the end of the text is not counted.                  *)
charHandler_SinUltima(lex, s) == FoldLeft(Acumular, [lex |-> lex, word |-> <<>>], s).lex
charHandler(lex, s) == Contar(FoldLeft(Acumular, [lex |-> lex, word |-> <<>>], s)).lex

Cuerpo(txt, antes, despues) == SubSeq(txt, antes + 1, Len(txt) - despues)
NombreEn(txt, desde) ==
  SubSeq(txt, desde, Min({ i \in desde..Len(txt) : ~(BYTE_TYPE(txt[i]) \in DeNombre \cup {"TRAIL"}) } \cup {Len(txt) + 1}) - 1)

(* The number of a character reference; what is no character is -1.        *)
Cifra(c) == IF c \in ToSet(Digitos) THEN Lugar(Digitos, c) - 1 ELSE 9 + Lugar(Minusculas, EnMinusculas(<<c>>)[1])
charRefNumber(txt) ==
  LET hexa == txt[3] = "x"
      Tras(n, c) == IF n = -1 THEN -1
                    ELSE LET m == (IF hexa THEN 16 ELSE 10) * n + Cifra(c) IN IF m >= 1114112 THEN -1 ELSE m
      n == FoldLeft(Tras, 0, Cuerpo(txt, IF hexa THEN 3 ELSE 2, 1))
  IN  IF n \in {65534, 65535} \cup 55296..57343 \cup (0..31 \ {9, 10, 13}) THEN -1 ELSE n
(* XmlEncode, of which only letters and digits matter.                     *)
XmlEncode(n) ==
  CASE n \in 48..57 -> <<Digitos[n - 47]>> [] n \in 65..90 -> <<Mayusculas[n - 64]>>
    [] n \in 97..122 -> <<Minusculas[n - 96]>> [] OTHER -> <<"{">>

XmlPredefinedEntityName(nombre) ==
  nombre \in { <<"l", "t">>, <<"g", "t">>, <<"a", "m", "p">>, <<"q", "u", "o", "t">>, <<"a", "p", "o", "s">> }

(* What is wrong with a reference.  There are no entities: they are an     *)
(* error, unless the file names a DTD, which nobody reads.                 *)
FalloDe(t) ==
  CASE t.tok = "CHAR_REF" -> IF charRefNumber(t.txt) = -1 THEN "BAD_CHAR_REF" ELSE "NONE"
    [] t.tok = "ENTITY_REF" -> IF XmlPredefinedEntityName(Cuerpo(t.txt, 1, 1)) \/ hasParamEntityRefs THEN "NONE"
                               ELSE "UNDEFINED_ENTITY"
    [] OTHER -> "NONE"

(* getAtts: the names and values of the attributes of a tag.               *)
getAtts(txt) ==
  LET Otro(a) == IF a.state = "inName" THEN [a EXCEPT !.state = "other"] ELSE a
      Comilla(a, c) == IF a.state # "inValue" THEN [a EXCEPT !.state = "inValue", !.open = c]
                       ELSE IF a.open # c THEN [a EXCEPT !.value = Append(@, c)]
                       ELSE [state |-> "other", open |-> "", name |-> <<>>, value |-> <<>>,
                             atts |-> Append(a.atts, [name |-> a.name, value |-> a.value])]
      Con(a, c) == CASE c \in {"'", "\""} -> Comilla(a, c)
                     [] a.state = "inValue" /\ c \notin {"'", "\""} -> [a EXCEPT !.value = Append(@, c)]
                     [] a.state # "inValue" /\ BYTE_TYPE(c) \in DeNombre \cup {"TRAIL"} ->
                          [a EXCEPT !.state = "inName", !.name = Append(@, c)]
                     [] OTHER -> Otro(a)
      inicio == [state |-> "other", open |-> "", name |-> <<>>, value |-> <<>>, atts |-> <<>>]
  IN  FoldLeft(Con, inicio, SubSeq(txt, 2 + Len(NombreEn(txt, 2)), Len(txt))).atts

(* appendAttributeValue: the first thing that is wrong in a value.         *)
FalloDeValor(valor) ==
  LET desde[p \in 1..(Len(valor) + 1)] ==
        LET Seguir(fallo, sig) == IF fallo = "NONE" THEN desde[sig] ELSE fallo
            Con(r) == Seguir(FalloDe([tok |-> r.tok, txt |-> SubSeq(valor, p, p + r.sig - 2)]), p + r.sig - 1)
        IN  IF p > Len(valor) THEN "NONE" ELSE Con(PrimerToken(SubSeq(valor, p, Len(valor)), "atributo"))
  IN  desde[1]

(* storeAtts: a name that is repeated, or something wrong in a value,      *)
(* whichever comes first.                                                  *)
Primero(fallos) == FoldLeft(LAMBDA a, b : IF a = "NONE" THEN b ELSE a, "NONE", fallos)
storeAtts(txt) ==
  LET Fallos(atts) ==
        [i \in DOMAIN atts |-> IF \E j \in 1..(i - 1) : atts[j].name = atts[i].name THEN "DUPLICATE_ATTRIBUTE"
                               ELSE FalloDeValor(atts[i].value)]
  IN  Primero(Fallos(getAtts(txt)))

-----------------------------------------------------------------------------
(* The steps.  t is the token that begins the buffer.                      *)
Inicio == CASE processor \in {"prolog", "epilog"} -> "prologo" [] processor = "content" -> "contenido"
            [] processor = "cdata" -> "seccion" [] OTHER -> ""
Proximo == LET Token(r) == [tok |-> r.tok, txt |-> SubSeq(buffer, 1, r.sig - 1)] IN Token(PrimerToken(buffer, Inicio))
Falta == {"NONE", "PARTIAL", "PARTIAL_CHAR", "TRAILING_CR", "TRAILING_RSQB"}
FaltaEn == IF processor = "prolog" THEN Falta \cup {"ESPERA", "-PROLOG_S"} ELSE Falta

Tomar(t) ==
  /\ buffer' = SubSeq(buffer, Len(t.txt) + 1, Len(buffer))
  /\ leidos' = Append(leidos, [en |-> processor, tok |-> t.tok, txt |-> t.txt])
  /\ UNCHANGED <<archivo, linea>>
Fallar(e) ==
  /\ errorCode' = e /\ processor' = "error"
  /\ UNCHANGED <<archivo, linea, buffer, prologState, tags, hasParamEntityRefs, lexico, leidos>>
EnProlog == UNCHANGED <<tags, lexico>>
EnContenido == UNCHANGED <<prologState, hasParamEntityRefs, errorCode>>

(* Parse: the next line, when expat can do no more with what it has.       *)
Linea(t) ==
  /\ t.tok \in FaltaEn /\ linea < Len(archivo)
  /\ linea' = linea + 1 /\ buffer' = buffer \o archivo[linea + 1]
  /\ UNCHANGED <<archivo, processor, prologState, tags, hasParamEntityRefs, errorCode, lexico, leidos>>
(* The end of the file: done is not given to expat, which is never told.   *)
Terminar(t) ==
  /\ t.tok \in FaltaEn /\ linea = Len(archivo)
  /\ processor' = "fin"
  /\ UNCHANGED <<archivo, linea, buffer, prologState, tags, hasParamEntityRefs, errorCode, lexico, leidos>>

Invalido(t) == t.tok = "INVALID" /\ Fallar("INVALID_TOKEN")

Claves == (<<"<", "!", "D", "O", "C", "T", "Y", "P", "E">> :> "DOCTYPE")
          @@ (<<"S", "Y", "S", "T", "E", "M">> :> "SYSTEM") @@ (<<"P", "U", "B", "L", "I", "C">> :> "PUBLIC")
isPublicId(txt) ==
  \A i \in 2..(Len(txt) - 1) :
    /\ txt[i] # "\t"
    /\ BYTE_TYPE(txt[i]) \in Nmstrt \cup S3 \cup {"DIGIT", "HEX", "MINUS", "APOS", "LPAR", "RPAR", "PLUS", "COMMA", "SOL", "EQUALS",
                                                 "QUEST", "SEMI", "EXCL", "AST", "PERCNT", "NUM", "NAME"}

(* doProlog, without declarations.                                         *)
Prolog(t) ==
  /\ processor = "prolog" /\ t.tok \notin FaltaEn \cup {"INVALID"}
  /\ \E r \in {R!XmlTokenRole(prologState, [tok |-> t.tok, txt |-> IF t.txt \in DOMAIN Claves THEN Claves[t.txt] ELSE ""])} :
       CASE r.role = "ERROR" ->
              Fallar(CASE t.tok = "XML_DECL" -> "MISPLACED_XML_PI" [] t.tok = "PARAM_ENTITY_REF" -> "PARAM_ENTITY_REF"
                       [] OTHER -> "SYNTAX")
         [] r.role = "DOCTYPE_PUBLIC_ID" /\ ~isPublicId(t.txt) -> Fallar("PUBLICID")
         [] r.role = "INSTANCE_START" ->
              processor' = "content" /\ prologState' = r.state /\ EnProlog
              /\ UNCHANGED <<archivo, linea, buffer, hasParamEntityRefs, errorCode, leidos>>
         [] OTHER ->
              /\ Tomar(t) /\ prologState' = r.state /\ EnProlog /\ UNCHANGED <<processor, errorCode>>
              /\ hasParamEntityRefs' = (hasParamEntityRefs \/ r.role \in {"DOCTYPE_PUBLIC_ID", "DOCTYPE_SYSTEM_ID"})

Texto(t) ==
  /\ t.tok \in {"DATA_CHARS", "DATA_NEWLINE"} /\ processor \in {"content", "cdata"}
  /\ Tomar(t) /\ lexico' = charHandler(lexico, t.txt)
  /\ UNCHANGED <<processor, tags>> /\ EnContenido

Referencia(t) ==
  /\ t.tok \in {"CHAR_REF", "ENTITY_REF"} /\ processor = "content"
  /\ IF FalloDe(t) # "NONE" THEN Fallar(FalloDe(t))
     ELSE /\ Tomar(t)
          /\ lexico' = IF t.tok = "CHAR_REF" THEN charHandler(lexico, XmlEncode(charRefNumber(t.txt))) ELSE lexico
          /\ UNCHANGED <<processor, tags>> /\ EnContenido

Abrir(t) ==
  /\ t.tok \in {"START_TAG", "EMPTY_ELEMENT"} /\ processor = "content"
  /\ \E fallo \in {storeAtts(t.txt)} :
       IF fallo # "NONE" THEN Fallar(fallo)
       ELSE /\ Tomar(t)
            /\ tags' = IF t.tok = "START_TAG" THEN Append(tags, NombreEn(t.txt, 2)) ELSE tags
            /\ processor' = IF tags' = <<>> THEN "epilog" ELSE processor
            /\ UNCHANGED lexico /\ EnContenido

Cerrar(t) ==
  /\ t.tok = "END_TAG" /\ processor = "content"
  /\ IF NombreEn(t.txt, 3) # Last(tags) THEN Fallar("TAG_MISMATCH")
     ELSE /\ Tomar(t) /\ tags' = Front(tags)
          /\ processor' = IF tags' = <<>> THEN "epilog" ELSE processor
          /\ UNCHANGED lexico /\ EnContenido

Seccion(t) ==
  /\ t.tok \in {"CDATA_SECT_OPEN", "CDATA_SECT_CLOSE"} /\ processor \in {"content", "cdata"}
  /\ Tomar(t)
  /\ processor' = IF t.tok = "CDATA_SECT_OPEN" THEN "cdata" ELSE "content"
  /\ UNCHANGED <<tags, lexico>> /\ EnContenido

Ignorar(t) ==
  /\ \/ processor = "content" /\ t.tok \in {"PI", "COMMENT"}
     \/ processor = "epilog" /\ t.tok \in {"PI", "COMMENT", "PROLOG_S", "-PROLOG_S"}
  /\ Tomar(t) /\ UNCHANGED <<processor, tags, lexico>> /\ EnContenido

FueraDeLugar(t) ==
  \/ processor = "content" /\ t.tok = "XML_DECL" /\ Fallar("MISPLACED_XML_PI")
  \/ processor = "epilog" /\ Fallar("JUNK_AFTER_DOC_ELEMENT")
     /\ t.tok \notin Falta \cup {"INVALID", "PI", "COMMENT", "PROLOG_S", "-PROLOG_S"}

Paso(t) ==
  \/ Linea(t) \/ Terminar(t) \/ Invalido(t) \/ Prolog(t) \/ Texto(t) \/ Referencia(t) \/ Abrir(t) \/ Cerrar(t)
  \/ Seccion(t) \/ Ignorar(t) \/ FueraDeLugar(t)
Next == processor \notin {"fin", "error"} /\ \E t \in {Proximo} : Paso(t)
Spec == Init /\ [][Next]_vars
=============================================================================
