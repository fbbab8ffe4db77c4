----------------------------- MODULE MCPalabras -----------------------------
(***************************************************************************)
(* Files for Palabras, and what is to be read in them: the productions of  *)
(* the XML recommendation over the whole text of a file, its lines joined. *)
(***************************************************************************)
EXTENDS Palabras
LOCAL INSTANCE SequencesExt
LOCAL INSTANCE FiniteSetsExt
LOCAL INSTANCE BagsExt
LOCAL INSTANCE Functions
LOCAL INSTANCE Consulta WITH INT_MAX <- 0

-----------------------------------------------------------------------------
(* Characters: a letter of two bytes is one, ~, and what is left of such   *)
(* letters is no character, like the control ones.                         *)
Unir(bytes) ==
  LET Con(a, b) == IF b = "a9" /\ a # <<>> /\ a[Len(a)] = "c3" THEN Front(a) \o <<"~">> ELSE Append(a, b)
  IN  FoldLeft(Con, <<>>, bytes)
NoChar == {"c3", "a9", "01"}

(* A production takes the places where it may begin to those where it may  *)
(* end: one character of a set or out of it, all those that follow, a      *)
(* text, any number of times.                                              *)
Una(s, P, cs) == { p + 1 : p \in { q \in P : q <= Len(s) /\ s[q] \in cs } }
OtraQue(s, P, cs) == { p + 1 : p \in { q \in P : q <= Len(s) /\ s[q] \notin cs \cup NoChar } }
Varias(s, P, cs) == { Min({ i \in p..Len(s) : s[i] \notin cs } \cup {Len(s) + 1}) : p \in P }
Esto(s, P, cadena) == { p + Len(cadena) : p \in { q \in P : SubSeq(s, q, Min({Len(s), q + Len(cadena) - 1})) = cadena } }
Veces(s, P, Uno(_)) ==
  LET mas[todos, nuevos \in SUBSET (1..(Len(s) + 1))] ==
        LET Con(Q) == mas[todos \cup Q, Q \ todos] IN IF nuevos = {} THEN todos ELSE Con(Uno(nuevos))
  IN  mas[P, P]

Cadena(str) == [i \in 1..Len(str) |-> SubSeq(str, i, i)]
L == ToSet(Mayusculas) \cup ToSet(Minusculas)
NameStart == L \cup {"_", ":", "~"}
NameChar == NameStart \cup ToSet(Digitos) \cup {".", "-"}
Blanco == {" ", "\t", "\r"}
Hexadecimal == ToSet(Digitos) \cup { c \in L : EnMinusculas(<<c>>)[1] \in ToSet(SubSeq(Minusculas, 1, 6)) }

Name(s, P) == Varias(s, Una(s, P, NameStart), NameChar)
White(s, P) == Varias(s, Una(s, P, Blanco), Blanco)
EspacioOpcional(s, P) == Varias(s, P, Blanco)
EntityRef(s, P) == Una(s, Name(s, Una(s, P, {"&"})), {";"})
Numero(s, P, cs) == Una(s, Varias(s, Una(s, P, cs), cs), {";"})
CharRef(s, P) == Numero(s, Esto(s, P, <<"&", "#">>), ToSet(Digitos)) \cup Numero(s, Esto(s, P, <<"&", "#", "x">>), Hexadecimal)
Valor(s, P, comilla) ==
  LET Parte(Q) == OtraQue(s, Q, {comilla, "<", "&"}) \cup EntityRef(s, Q) \cup CharRef(s, Q)
  IN  Esto(s, Veces(s, Esto(s, P, <<comilla>>), Parte), <<comilla>>)
Attribute(s, P) ==
  LET eq == EspacioOpcional(s, Una(s, EspacioOpcional(s, Name(s, White(s, P))), {"="})) IN Valor(s, eq, "'") \cup Valor(s, eq, "\"")
Etiqueta(s, P) ==
  LET Uno(Q) == Attribute(s, Q) IN EspacioOpcional(s, Veces(s, Name(s, Una(s, P, {"<"})), Uno))
STag(s, P) == Una(s, Etiqueta(s, P), {">"})
EmptyElemTag(s, P) == Esto(s, Etiqueta(s, P), <<"/", ">">>)
ETag(s, P) == Una(s, EspacioOpcional(s, Name(s, Esto(s, P, <<"<", "/">>))), {">"})
Comment(s, P) ==
  LET Parte(Q) == OtraQue(s, Q, {"-"}) \cup OtraQue(s, Una(s, Q, {"-"}), {"-"})
  IN  Esto(s, Veces(s, Esto(s, P, <<"<", "!", "-", "-">>), Parte), <<"-", "-", ">">>)
(* What is between two places, without that text in it.                    *)
Hasta(s, P, fin) ==
  LET Parte(Q) == OtraQue(s, { q \in Q : Esto(s, {q}, fin) = {} }, {}) IN Esto(s, Veces(s, P, Parte), fin)
EsXml(s, p, q) == EnMinusculas(SubSeq(s, p, q - 1)) = <<"x", "m", "l">>
PI(s, P) ==
  UNION { LET destino == { q \in Name(s, {p}) : ~EsXml(s, p, q) }
          IN  Esto(s, destino, <<"?", ">">>) \cup Hasta(s, White(s, destino), <<"?", ">">>) : p \in Esto(s, P, <<"<", "?">>) }

(* The prolog: without internal subset, and with this XML declaration.     *)
XMLDecl == Cadena("<?xml version='1.0'?>")
Misc(s, P) == LET Uno(Q) == Comment(s, Q) \cup PI(s, Q) \cup White(s, Q) IN Veces(s, P, Uno)
PubidChar == L \cup ToSet(Digitos) \cup ToSet(Cadena(" -'()+,./:=?;!*#@$_%")) \cup {"\r"}
PubidLiteral(s, P) == UNION { Una(s, Varias(s, Una(s, P, {c}), PubidChar \ {c}), {c}) : c \in {"'", "\""} }
SystemLiteral(s, P) == UNION { LET Uno(Q) == OtraQue(s, Q, {c}) IN Una(s, Veces(s, Una(s, P, {c}), Uno), {c}) : c \in {"'", "\""} }
ExternalID(s, P) ==
  SystemLiteral(s, White(s, Esto(s, P, Cadena("SYSTEM"))
                            \cup PubidLiteral(s, White(s, Esto(s, P, Cadena("PUBLIC"))))))
doctypedecl(s, P, conDTD) ==
  LET nombre == Name(s, White(s, Esto(s, P, Cadena("<!DOCTYPE"))))
  IN  Una(s, EspacioOpcional(s, IF conDTD THEN ExternalID(s, White(s, nombre)) ELSE nombre), {">"})
AntesDelTipo(s) == Misc(s, {1} \cup Esto(s, {1}, XMLDecl))
prolog(s) == AntesDelTipo(s) \cup Misc(s, UNION { doctypedecl(s, AntesDelTipo(s), con) : con \in BOOLEAN })
ConDTD(s) == doctypedecl(s, AntesDelTipo(s), TRUE) # {}
(* Where the root begins, if it does: a name may be cut in its first byte. *)
Raiz(s) == { p \in prolog(s) : Una(s, {p}, {"<"}) # {} /\ p < Len(s) /\ s[p + 1] \in NameStart \cup {"c3"} }

-----------------------------------------------------------------------------
(* The reading of a text from its root on: what begins at each place, and  *)
(* where it ends, until nothing does or a constraint is broken.            *)
Comienzan(s, en, p) ==
  LET De(que, Q) == { [que |-> que, de |-> p, a |-> q] : q \in Q }
      cierra == Esto(s, {p}, <<"]", "]", ">">>)
  IN  CASE en = "cdata" -> IF cierra # {} THEN De("CDATA_SECT_CLOSE", cierra) ELSE De("CHAR", OtraQue(s, {p}, {}))
        [] en = "epilog" -> De("COMMENT", Comment(s, {p})) \cup De("PI", PI(s, {p})) \cup De("CHAR", Una(s, {p}, Blanco))
        [] OTHER -> De("START_TAG", STag(s, {p})) \cup De("EMPTY_ELEMENT", EmptyElemTag(s, {p})) \cup De("END_TAG", ETag(s, {p}))
                    \cup De("COMMENT", Comment(s, {p})) \cup De("PI", PI(s, {p}))
                    \cup De("CDATA_SECT_OPEN", Esto(s, {p}, Cadena("<![CDATA[")))
                    \cup De("ENTITY_REF", EntityRef(s, {p})) \cup De("CHAR_REF", CharRef(s, {p}))
                    \cup IF cierra = {} THEN De("CHAR", OtraQue(s, {p}, {"<", "&"})) ELSE {}

NombreDesde(s, p) == SubSeq(s, p, Max(Name(s, {p})) - 1)
NumeroDe(s, p) ==
  LET base == IF s[p + 2] = "x" THEN 16 ELSE 10
      cifras == SubSeq(s, IF base = 16 THEN p + 3 ELSE p + 2, Min({ i \in p..Len(s) : s[i] = ";" }) - 1)
  IN  FoldLeft(LAMBDA n, c : base * n + Lugar(Cadena("0123456789abcdef"), EnMinusculas(<<c>>)[1]) - 1, 0, cifras)
Char(n) == n \in {9, 10, 13} \/ n \in 32..55295 \/ n \in 57344..65533 \/ n \in 65536..1114111
PredefinidasXML == { Cadena(c) : c \in {"lt", "gt", "amp", "apos", "quot"} }
NombresDeAtributos(s, x) ==
  LET Uno(Q) == Attribute(s, Q)
  IN  [p \in { q \in Veces(s, Name(s, {x.de + 1}), Uno) : Attribute(s, {q}) # {} } |-> NombreDesde(s, Max(White(s, {p})))]
Fallos(s, x, abiertos, conDTD) ==
  LET refs == IF x.que \in {"START_TAG", "EMPTY_ELEMENT", "ENTITY_REF", "CHAR_REF"}
              THEN { i \in x.de..(x.a - 1) : s[i] = "&" } ELSE {}
      atts == IF x.que \in {"START_TAG", "EMPTY_ELEMENT"} THEN NombresDeAtributos(s, x) ELSE <<>>
  IN  { e \in {"UNDEFINED_ENTITY"} : ~conDTD /\ \E i \in refs : s[i + 1] # "#" /\ NombreDesde(s, i + 1) \notin PredefinidasXML }
      \cup { e \in {"BAD_CHAR_REF"} : \E i \in refs : s[i + 1] = "#" /\ ~Char(NumeroDe(s, i)) }
      \cup { e \in {"DUPLICATE_ATTRIBUTE"} : ~IsInjective(atts) }
      \cup { e \in {"TAG_MISMATCH"} : x.que = "END_TAG" /\ NombreDesde(s, x.de + 2) # Last(abiertos) }

Avanza(s, a, x) ==
  LET abiertos == CASE x.que = "START_TAG" -> Append(a.abiertos, NombreDesde(s, x.de + 1))
                    [] x.que = "END_TAG" -> Front(a.abiertos) [] OTHER -> a.abiertos
      en == CASE x.que = "CDATA_SECT_OPEN" -> "cdata" [] x.que = "CDATA_SECT_CLOSE" -> "content"
              [] x.que \in {"END_TAG", "EMPTY_ELEMENT"} /\ abiertos = <<>> -> "epilog" [] OTHER -> a.en
  IN  [a EXCEPT !.p = x.a, !.partes = Append(@, x), !.abiertos = abiertos, !.en = en]
Lectura(s, raiz) ==
  LET conDTD == ConDTD(s)
      Con(a, x, fallos) == IF fallos = {} THEN Avanza(s, a, x) ELSE [a EXCEPT !.fallos = fallos]
      Lee(a, xs) ==
        IF a.fallos # {} \/ xs = {} THEN a
        ELSE LET x == CHOOSE y \in xs : TRUE IN Con(a, x, Fallos(s, x, a.abiertos, conDTD))
      hasta[n \in 0..Len(s)] ==
        IF n = 0 THEN [p |-> raiz, en |-> "content", abiertos |-> <<>>, partes |-> <<>>, fallos |-> {}]
        ELSE LET Tras(a) == Lee(a, Comienzan(s, a.en, a.p)) IN Tras(hasta[n - 1])
  IN  hasta[Len(s)]

-----------------------------------------------------------------------------
(* What was taken, as a reading: character data one by one.                *)
Enteros == {"DATA_CHARS", "DATA_NEWLINE", "PROLOG_S", "-PROLOG_S"}
Tomadas(raiz) ==
  LET Con(a, t) ==
        LET n == Len(Unir(t.txt)) IN
        [p |-> a.p + n,
         partes |-> a.partes \o IF t.tok \in Enteros THEN [i \in 1..n |-> [que |-> "CHAR", de |-> a.p + i - 1, a |-> a.p + i]]
                                ELSE << [que |-> t.tok, de |-> a.p, a |-> a.p + n] >>]
  IN  FoldLeft(Con, [p |-> raiz, partes |-> <<>>], SelectSeq(leidos, LAMBDA t : t.en # "prolog")).partes
DelProlog == FlattenSeq([i \in DOMAIN leidos |-> IF leidos[i].en = "prolog" THEN leidos[i].txt ELSE <<>>])
Todo == Unir(FlattenSeq(archivo))

DeEstructura == {"INVALID_TOKEN", "MISPLACED_XML_PI", "JUNK_AFTER_DOC_ELEMENT"}
Concuerda(s, tomadas, r) ==
  LET resto == SubSeq(r.partes, Len(tomadas) + 1, Len(r.partes))
      soloTexto == \A i \in DOMAIN resto : resto[i].que = "CHAR"
  IN  /\ IsPrefix(tomadas, r.partes)
      /\ errorCode \in DeEstructura => r.fallos = {} /\ soloTexto /\ r.p <= Len(s)
      /\ errorCode \notin DeEstructura \cup {"NONE"} => errorCode \in r.fallos /\ resto = <<>>
      /\ errorCode = "NONE" => r.fallos = {} /\ soloTexto /\ \A i \in DOMAIN resto : s[resto[i].de] \in {"]", "\r"}

(* A file cut in lines anywhere is read as its whole text is by the        *)
(* productions of XML: each token taken from a buffer is one of them, or   *)
(* its character data; what is refused begins none, or breaks the          *)
(* constraint that is reported; and the prolog is left where one ends.     *)
LeidoComoXML ==
  processor \in {"fin", "error"} =>
    IF Raiz(Todo) = {} THEN \A i \in DOMAIN leidos : leidos[i].en = "prolog"
    ELSE \E raiz \in Raiz(Todo) :
           /\ Unir(DelProlog) = SubSeq(Todo, 1, raiz - 1)
           /\ Concuerda(Todo, Tomadas(raiz), Lectura(Todo, raiz))

(* The letters and digits of the character data; those next to each other  *)
(* in a line are a word, and so is each one that is a reference.           *)
Alfanumerico == L \cup ToSet(Digitos)
Letras(s, partes) == { x.de : x \in { y \in ToSet(partes) : y.que = "CHAR" /\ s[y.de] \in Alfanumerico } }
Inicios == { 1 + Len(Unir(FlattenSeq(SubSeq(archivo, 1, k)))) : k \in 0..Len(archivo) }
Corridas(P) ==
  { c \in P \X P : /\ c[1]..c[2] \subseteq P /\ c[1] <= c[2] /\ ((c[1] + 1)..c[2]) \cap Inicios = {}
                   /\ c[1] - 1 \notin P \/ c[1] \in Inicios
                   /\ c[2] + 1 \notin P \/ c[2] + 1 \in Inicios }
PorNumero(s, partes) ==
  [i \in DOMAIN partes |-> IF partes[i].que = "CHAR_REF" THEN NumeroDe(s, partes[i].de) ELSE 0]
Ascii == [n \in 48..122 |-> CASE n \in 48..57 -> Digitos[n - 47] [] n \in 65..90 -> Minusculas[n - 64]
                              [] n \in 97..122 -> Minusculas[n - 96] [] OTHER -> ""]
PalabrasDe(s, partes) ==
  LET numeros == SelectSeq(PorNumero(s, partes), LAMBDA n : n \in 48..122 /\ Ascii[n] # "")
      seguidas == FoldSet(LAMBDA c, b : BagAdd(b, EnMinusculas(SubSeq(s, c[1], c[2]))), EmptyBag, Corridas(Letras(s, partes)))
  IN  FoldLeft(LAMBDA b, n : BagAdd(b, <<Ascii[n]>>), seguidas, numeros)

(* The words counted of a file that is accepted are those of its character *)
(* data: no markup, nothing twice, none lost or glued to another by where  *)
(* the lines or the tokens end.                                            *)
PalabrasDelTexto ==
  processor = "fin" =>
    lexico = IF Raiz(Todo) = {} THEN EmptyBag
             ELSE PalabrasDe(Todo, Lectura(Todo, CHOOSE raiz \in Raiz(Todo) : TRUE).partes)

-----------------------------------------------------------------------------
(* The files: ~ is the letter of two bytes and ^ a control character.      *)
Bytes(str) ==
  LET De(c) == CASE c = "~" -> <<"c3", "a9">> [] c = "^" -> <<"01">> [] OTHER -> <<c>>
  IN  FlattenSeq([i \in 1..Len(str) |-> De(SubSeq(str, i, i))])
Cortado(b, cortes) ==
  LET fines == cortes \cup {Len(b)}
      fin(i) == CHOOSE x \in fines \cup {0} : Cardinality({ y \in fines : y <= x }) = i
  IN  [i \in 1..Cardinality(fines) |-> SubSeq(b, fin(i - 1) + 1, fin(i))]
EnDosCortes ==
  { "<r>a<b c='d'>E5</b>f&#98;g</r>", "<!--x--><r>~]]c<?p ?>?></r> ", "<r><![CDATA[c]]d]]]>]]</r>\r",
    "<!DOCTYPE r SYSTEM 's'><r>a&n;</r>", "<r f='&lt;' g=\"&#x;\"/>", "<r>a&#x1;c</r>" }
EnUno ==
  { "<?xml version='1.0'?><!DOCTYPE r PUBLIC 'p' \"s\"><r>a&nbsp;b</r> <!-- q --><?z?>",
    "<r a='1' a='&x;'>z</r>", "<r a='&x;' a='1'>z</r>", "<r>a]]>b</r>", "<r>]]</r >", "<!DOCTYPE r><r/>a",
    "<!DOCTYPE r PUBLIC '{' 's'><r/>", "<r>a<!-- x - y -->b</r>", "<r><a></r></a>", "<r>a<?xml version='1.0'?>b</r>",
    "<r/><?XmL a?>", "<r>1<!--a--b--></r>", "<r><!----><!--->--></r>", "<r><!-a--></r>", "<r><![CDATA]]></r>",
    "<r><?p??>2</r>", "<r><?p?a?></r>", "<r><?p\r?></r\r><?xm a>?>", "<r a= \r'b' c =\"d\"/>", "<r a='1'b='2'/>", "<r a='<'/>", "<r a='b&'/>",
    "<r / >", "<!DOCTYPE r><!DOCTYPE r><r/>", "<!DOCTYPE r PUBLIC 'p'><r/>", "<!DOCTYPE r SYSTEM 's' ><r a='&lt'/>", "<!DOCTYPE r 5><r/>",
    "<r><a\r\t></a></r><r/>", "<r>]a]]b] ]></r>", "<r><![CDATA[]]a]>]]>b</r>", "<r>&#x;&#;</r>", "<r>&#98</r>", "<r>&a b;</r>",
    "<!ELEMENT r EMPTY><r/>", "<!DOCTYPE r PUBLIC \"a~\" 's'><r/>", "\r <r/>\r<!--", "<r></r", "<r a='&#xd800;'/>",
    "<rs at  =  'x'  bc='y'></rs  >", "<r><?p a?b?c?></r>", "<r>a]]]b]]]></r>",
    "<r a='&#1;&amp;'/>", "<r>&#55296;&#1114112;&#65534;&#x5a;&#x7A;&#53;&#10;</r>", "<r>&b;&apos;</r>", "<r><![CDATA[\r^]]></r>",
    "<r>a^b</r>", "<r>~a&amp;Z\ra</r>\r\r ", "<r><~ ~='~'/>a b</r>", "%p;<r/>", " <?xml version='1.0'?><r/>" }
Contextos == {"", "<r>", "<r ", "<r><![CDATA[", "<r/>", "<!DOCTYPE r "}
Alfabeto == {"<", ">", "&", "/", "!", "?", "-", "]", "=", "'", "a", "1", ";", "#", " ", "\r", "~"}
Breves == { c \o a \o b : c \in Contextos, a, b \in Alfabeto }
MCArchivos ==
  UNION { { Cortado(Bytes(d), {i, j}) : i, j \in 1..Len(Bytes(d)) } : d \in EnDosCortes }
  \cup UNION { { Cortado(Bytes(d), {i}) : i \in 1..Len(Bytes(d)) } \cup {Cortado(Bytes(d), 1..Len(Bytes(d)))} : d \in EnUno }
  \cup UNION { { Cortado(Bytes(d), cs) : cs \in {{}, 1..Len(Bytes(d))} } : d \in Breves }
=============================================================================
