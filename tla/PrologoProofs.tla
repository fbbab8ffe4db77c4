--------------------------- MODULE PrologoProofs ---------------------------
(***************************************************************************)
(* The prolog of expat, proved for every document, every set of options    *)
(* and handlers and every hash: the tables hold what was declared, the     *)
(* marks of open entities are right, and nothing is declared after an      *)
(* entity that was not read.                                               *)
(*                                                                         *)
(* What makes them inductive (InvDoProlog): the tables are tables of the   *)
(* names of dtd.entidades (InvDtd); each parser of the stack has a text,   *)
(* and only the first one is that of the document (Pila); when             *)
(* declarations do not count the document does not stand alone, and a      *)
(* parser is in the state prolog0 only at the very start (Marcas), for     *)
(* otherwise an XML declaration could make a document stand alone after an *)
(* entity was not read; and the entities open are those being read         *)
(* (Sanas).  Each action has its lemma, Paso and its name, which also      *)
(* gives what the step may change when declarations do not count.          *)
(***************************************************************************)
EXTENDS Prologo, TablasProofs
LOCAL INSTANCE SequencesExt

(* Sequences of whatever they are made of.                                 *)
EsSecuencia(s) == \E S : s \in Seq(S)

(* What Append does to a sequence, ...                                     *)
LEMMA Agrega ==
  ASSUME NEW s, EsSecuencia(s), NEW x
  PROVE  /\ EsSecuencia(Append(s, x)) /\ Len(s) \in Nat /\ Len(Append(s, x)) = Len(s) + 1
         /\ DOMAIN s = 1..Len(s) /\ DOMAIN Append(s, x) = 1..(Len(s) + 1)
         /\ Append(s, x)[Len(s) + 1] = x /\ \A i \in 1..Len(s) : Append(s, x)[i] = s[i]
<1>1. PICK S : s \in Seq(S)
  BY DEF EsSecuencia
<1>2. s \in Seq(S \cup {x}) /\ x \in S \cup {x}
  BY <1>1
<1>3. Append(s, x) \in Seq(S \cup {x})
  BY <1>2
<1>4. /\ Len(s) \in Nat /\ Len(Append(s, x)) = Len(s) + 1 /\ DOMAIN s = 1..Len(s)
      /\ Append(s, x)[Len(s) + 1] = x /\ \A i \in 1..Len(s) : Append(s, x)[i] = s[i]
  BY <1>2
<1>5. DOMAIN Append(s, x) = 1..(Len(s) + 1)
  BY <1>3, <1>4
<1> QED
  BY <1>3, <1>4, <1>5 DEF EsSecuencia

(* ... what the change of one place does, ...                              *)
LEMMA Cambia ==
  ASSUME NEW s, EsSecuencia(s), NEW i \in 1..Len(s), NEW x
  PROVE  /\ EsSecuencia([s EXCEPT ![i] = x]) /\ Len([s EXCEPT ![i] = x]) = Len(s)
         /\ Len(s) \in Nat /\ DOMAIN s = 1..Len(s) /\ DOMAIN [s EXCEPT ![i] = x] = 1..Len(s)
         /\ [s EXCEPT ![i] = x][i] = x /\ \A j \in 1..Len(s) : j # i => [s EXCEPT ![i] = x][j] = s[j]
<1>1. PICK S : s \in Seq(S)
  BY DEF EsSecuencia
<1>2. s \in Seq(S \cup {x}) /\ x \in S \cup {x}
  BY <1>1
<1>3. [s EXCEPT ![i] = x] \in Seq(S \cup {x})
  BY <1>2
<1>4. Len([s EXCEPT ![i] = x]) = Len(s) /\ Len(s) \in Nat /\ DOMAIN s = 1..Len(s)
  BY <1>2
<1>5. [s EXCEPT ![i] = x][i] = x /\ \A j \in 1..Len(s) : j # i => [s EXCEPT ![i] = x][j] = s[j]
  BY <1>4
<1> QED
  BY <1>3, <1>4, <1>5 DEF EsSecuencia

(* ... what Front does, ...                                                *)
LEMMA Saca ==
  ASSUME NEW s, EsSecuencia(s), Len(s) # 0
  PROVE  /\ EsSecuencia(Front(s)) /\ Len(s) \in Nat /\ Len(Front(s)) = Len(s) - 1
         /\ DOMAIN s = 1..Len(s) /\ DOMAIN Front(s) = 1..(Len(s) - 1)
         /\ \A i \in 1..(Len(s) - 1) : Front(s)[i] = s[i]
<1>1. PICK S : s \in Seq(S)
  BY DEF EsSecuencia
<1>2. Len(s) \in Nat /\ DOMAIN s = 1..Len(s)
  BY <1>1
<1>3. /\ SubSeq(s, 1, Len(s) - 1) \in Seq(S) /\ Len(SubSeq(s, 1, Len(s) - 1)) = Len(s) - 1
      /\ \A i \in 1..(Len(s) - 1) : SubSeq(s, 1, Len(s) - 1)[i] = s[i]
  BY <1>1, <1>2
<1>4. Front(s) = SubSeq(s, 1, Len(s) - 1)
  BY DEF Front
<1>5. DOMAIN SubSeq(s, 1, Len(s) - 1) = 1..(Len(s) - 1)
  BY <1>3
<1> QED
  BY <1>2, <1>3, <1>4, <1>5 DEF EsSecuencia

(* ... and the sequences of one and of none.                               *)
LEMMA Una ==
  ASSUME NEW x
  PROVE  EsSecuencia(<<x>>) /\ EsSecuencia(<<>>) /\ Len(<<x>>) = 1 /\ <<x>>[1] = x
<1>1. <<x>> \in Seq({x}) /\ <<>> \in Seq({x})
  OBVIOUS
<1> QED
  BY <1>1 DEF EsSecuencia

-----------------------------------------------------------------------------
(* The entities of a DTD and its two tables.                               *)
CamposEntidad == {"is_param", "is_internal", "textPtr", "tieneTexto", "systemId", "publicId", "notation", "open"}
EsEntidad(x) ==
  /\ x = [c \in DOMAIN x |-> x[c]] /\ CamposEntidad \subseteq DOMAIN x
  /\ x.open \in BOOLEAN
EsClave(e) == e = <<e[1], e[2]>> /\ e[1] \in {"param", "general"}
CamposDtd == {"general", "param", "entidades", "atributos", "keepProcessing", "standalone"}
InvDtd(d) ==
  /\ CamposDtd \subseteq DOMAIN d
  /\ d.keepProcessing \in BOOLEAN /\ d.standalone \in BOOLEAN
  /\ \A e \in DOMAIN d.entidades : EsClave(e) /\ EsEntidad(d.entidades[e])
  /\ TablaDe(d.param, Declarados(d, "param")) /\ TablaDe(d.general, Declarados(d, "general"))

(* d2 has the entities of d, and they are declared as they were.           *)
MismasEntidades(d, d2) ==
  /\ CamposDtd \subseteq DOMAIN d2
  /\ d2.param = d.param /\ d2.general = d.general
  /\ d2.keepProcessing \in BOOLEAN /\ d2.standalone \in BOOLEAN
  /\ DOMAIN d2.entidades = DOMAIN d.entidades
  /\ \A e \in DOMAIN d.entidades : EsEntidad(d2.entidades[e])

(* Tables that hold the entities go on holding them.                       *)
LEMMA MismasEntidadesInv ==
  ASSUME NEW d, InvDtd(d), NEW d2, MismasEntidades(d, d2)
  PROVE  InvDtd(d2)
<1>1. \A tabla : Declarados(d2, tabla) = Declarados(d, tabla)
  BY DEF Declarados, MismasEntidades
<1> QED
  BY <1>1 DEF InvDtd, MismasEntidades

(* lookup finds an entity exactly when it was declared.                    *)
LEMMA ExisteEntidad ==
  ASSUME NEW d, InvDtd(d), NEW n, NEW tabla \in {"param", "general"}
  PROVE  Existe(d, <<tabla, n>>) <=> <<tabla, n>> \in DOMAIN d.entidades
<1>1. n \in Declarados(d, tabla) <=> <<tabla, n>> \in DOMAIN d.entidades
  <2>1. ASSUME n \in Declarados(d, tabla) PROVE <<tabla, n>> \in DOMAIN d.entidades
    <3>1. PICK x \in DOMAIN d.entidades : x[1] = tabla /\ x[2] = n
      BY <2>1 DEF Declarados
    <3>2. x = <<x[1], x[2]>>
      BY DEF InvDtd, EsClave
    <3> QED
      BY <3>1, <3>2
  <2>2. ASSUME <<tabla, n>> \in DOMAIN d.entidades PROVE n \in Declarados(d, tabla)
    <3> DEFINE x == <<tabla, n>>
    <3>1. x \in DOMAIN d.entidades /\ x[1] = tabla /\ x[2] = n
      BY <2>2
    <3> HIDE DEF x
    <3> QED
      BY <3>1 DEF Declarados
  <2> QED
    BY <2>1, <2>2
<1> DEFINE t == IF tabla = "param" THEN d.param ELSE d.general
<1>2. TablaDe(t, Declarados(d, tabla))
  BY DEF InvDtd
<1>3. (lookup(t, n) # -1) <=> (n \in Declarados(d, tabla))
  <2> HIDE DEF t
  <2> QED
    BY <1>2, LookupHalla
<1>4. Existe(d, <<tabla, n>>) <=> lookup(t, n) # -1
  BY DEF Existe
<1> QED
  BY <1>1, <1>3, <1>4

(* A declaration that counts adds its entity and its name.                 *)
Crecio(d, d2, e) ==
  /\ InvDtd(d2) /\ Abiertas(d2) = Abiertas(d)
  /\ DOMAIN d2.entidades = DOMAIN d.entidades \cup {e}
  /\ \A x \in DOMAIN d.entidades : d2.entidades[x] = d.entidades[x]
  /\ d2.keepProcessing = d.keepProcessing /\ d2.standalone = d.standalone /\ d2.atributos = d.atributos

(* Agregar of a name that is there changes nothing; of another, adds it.   *)
LEMMA AgregarEntidad ==
  ASSUME NEW d, InvDtd(d), NEW n, NEW tabla \in {"param", "general"}, NEW nueva, EsEntidad(nueva), nueva.open = FALSE
  PROVE  Crecio(d, Agregar(d, <<tabla, n>>, nueva), <<tabla, n>>)
<1> DEFINE e == <<tabla, n>>
           d2 == Agregar(d, e, nueva)
<1>0. Existe(d, e) <=> e \in DOMAIN d.entidades
  BY ExisteEntidad
<1>1. CASE e \in DOMAIN d.entidades
  <2>1. d2 = d
    BY <1>0, <1>1 DEF Agregar
  <2> HIDE DEF d2
  <2>2. DOMAIN d2.entidades = DOMAIN d.entidades \cup {e}
    BY <1>1, <2>1
  <2> HIDE DEF e
  <2> QED
    BY <2>1, <2>2 DEF d2, e, Crecio
<1>2. CASE e \notin DOMAIN d.entidades
  <2>1. /\ DOMAIN Definir(d.entidades, e, nueva) = DOMAIN d.entidades \cup {e}
        /\ Definir(d.entidades, e, nueva)[e] = nueva
        /\ \A x \in DOMAIN d.entidades : Definir(d.entidades, e, nueva)[x] = d.entidades[x]
    BY <1>2 DEF Definir
  <2> DEFINE con == [d EXCEPT !.entidades = Definir(@, e, nueva)]
  <2>2. d2 = IF tabla = "param" THEN [con EXCEPT !.param = Crear(@, n)] ELSE [con EXCEPT !.general = Crear(@, n)]
    BY <1>0, <1>2 DEF Agregar
  <2>3. /\ CamposDtd \subseteq DOMAIN con /\ con.entidades = Definir(d.entidades, e, nueva)
        /\ con.param = d.param /\ con.general = d.general /\ con.atributos = d.atributos
        /\ con.keepProcessing = d.keepProcessing /\ con.standalone = d.standalone
    BY DEF InvDtd, CamposDtd
  <2> HIDE DEF con
  <2>4. /\ CamposDtd \subseteq DOMAIN d2 /\ d2.entidades = Definir(d.entidades, e, nueva)
        /\ d2.param = (IF tabla = "param" THEN Crear(d.param, n) ELSE d.param)
        /\ d2.general = (IF tabla = "general" THEN Crear(d.general, n) ELSE d.general)
        /\ d2.atributos = d.atributos
        /\ d2.keepProcessing = d.keepProcessing /\ d2.standalone = d.standalone
    <3>1. CASE tabla = "param"
      <4>1. d2 = [con EXCEPT !.param = Crear(@, n)]
        BY <2>2, <3>1
      <4> HIDE DEF d2, e
      <4> QED
        BY <2>3, <3>1, <4>1 DEF CamposDtd
    <3>2. CASE tabla = "general"
      <4>1. d2 = [con EXCEPT !.general = Crear(@, n)]
        BY <2>2, <3>2
      <4> HIDE DEF d2, e
      <4> QED
        BY <2>3, <3>2, <4>1 DEF CamposDtd
    <3> QED
      BY <3>1, <3>2
  <2>5. e[1] = tabla /\ e[2] = n /\ EsClave(e)
    BY DEF EsClave
  <2> HIDE DEF e, d2
  <2>6. /\ Declarados(d2, tabla) = Declarados(d, tabla) \cup {n}
        /\ \A x : x # tabla => Declarados(d2, x) = Declarados(d, x)
    <3>1. DOMAIN d2.entidades = DOMAIN d.entidades \cup {e}
      BY <2>1, <2>4
    <3> QED
      BY <2>5, <3>1 DEF Declarados
  <2>7. TablaDe(d2.param, Declarados(d2, "param"))
    <3>1. TablaDe(d.param, Declarados(d, "param"))
      BY DEF InvDtd
    <3>2. TablaDe(Crear(d.param, n), Declarados(d, "param") \cup {n})
      BY <3>1, CrearTabla
    <3> QED
      BY <2>4, <2>6, <3>1, <3>2
  <2>8. TablaDe(d2.general, Declarados(d2, "general"))
    <3>1. TablaDe(d.general, Declarados(d, "general"))
      BY DEF InvDtd
    <3>2. TablaDe(Crear(d.general, n), Declarados(d, "general") \cup {n})
      BY <3>1, CrearTabla
    <3> QED
      BY <2>4, <2>6, <3>1, <3>2
  <2>9. \A x \in DOMAIN d2.entidades : EsClave(x) /\ EsEntidad(d2.entidades[x])
    <3>1. \A x \in DOMAIN d.entidades : EsClave(x) /\ EsEntidad(d.entidades[x])
      BY DEF InvDtd
    <3> QED
      BY <2>1, <2>4, <2>5, <3>1
  <2>10. Abiertas(d2) = Abiertas(d)
    <3>1. nueva.open = FALSE
      OBVIOUS
    <3> QED
      BY <1>2, <2>1, <2>4, <3>1 DEF Abiertas
  <2>11. InvDtd(d2)
    <3>1. d.keepProcessing \in BOOLEAN /\ d.standalone \in BOOLEAN
      BY DEF InvDtd
    <3> QED
      BY <2>4, <2>7, <2>8, <2>9, <3>1 DEF InvDtd
  <2>12. /\ DOMAIN d2.entidades = DOMAIN d.entidades \cup {e}
         /\ \A x \in DOMAIN d.entidades : d2.entidades[x] = d.entidades[x]
    BY <2>1, <2>4
  <2> QED
    BY <2>4, <2>10, <2>11, <2>12 DEF d2, e, Crecio
<1> QED
  BY <1>1, <1>2

(* A new entity is not open.                                               *)
LEMMA EntidadNuevaEs ==
  ASSUME NEW is_param, NEW is_internal
  PROVE  EsEntidad(EntidadNueva(is_param, is_internal)) /\ EntidadNueva(is_param, is_internal).open = FALSE
<1> DEFINE x == EntidadNueva(is_param, is_internal)
<1>1. DOMAIN x = CamposEntidad /\ x.open = FALSE /\ x = [c \in DOMAIN x |-> x[c]]
  BY DEF EntidadNueva, CamposEntidad
<1> QED
  BY <1>1 DEF EsEntidad

(* The entity of the external subset is added once.                        *)
LEMMA ConSubsetInv ==
  ASSUME NEW d, InvDtd(d)
  PROVE  Crecio(d, ConSubset(d), externalSubset)
<1> DEFINE nueva == EntidadNueva(FALSE, FALSE)
<1>1. EsEntidad(nueva) /\ nueva.open = FALSE
  BY EntidadNuevaEs
<1>2. "param" \in {"param", "general"}
  OBVIOUS
<1>3. ConSubset(d) = Agregar(d, <<"param", "#">>, nueva)
  BY DEF ConSubset, externalSubset
<1> HIDE DEF nueva
<1> QED
  BY <1>1, <1>2, <1>3, AgregarEntidad DEF externalSubset

(* What is kept of an entity: neither whether it is open nor its public    *)
(* identifier; and of a DTD when nothing counts any more.                  *)
Quitada(x) == [x EXCEPT !.open = FALSE, !.publicId = <<>>]
Congelada(d, d2) ==
  /\ DOMAIN d.entidades \subseteq DOMAIN d2.entidades
  /\ DOMAIN d2.entidades \subseteq DOMAIN d.entidades \cup {externalSubset}
  /\ \A e \in DOMAIN d.entidades : Quitada(d2.entidades[e]) = Quitada(d.entidades[e])
  /\ d2.atributos = d.atributos
MismasMarcas(d, d2) == d2.keepProcessing = d.keepProcessing /\ d2.standalone = d.standalone
MismaDtd(d, d2) == InvDtd(d2) /\ Abiertas(d2) = Abiertas(d) /\ MismasMarcas(d, d2)

(* A DTD that stays frozen in two steps does in both.                      *)
LEMMA CongeladaLuego ==
  ASSUME NEW d, NEW d2, NEW d3, Congelada(d, d2), Congelada(d2, d3)
  PROVE  Congelada(d, d3)
BY DEF Congelada

(* Entities that differ only in what is not kept are the same.             *)
LEMMA QuitadaIgual ==
  ASSUME NEW x, NEW y, EsEntidad(x), EsEntidad(y), DOMAIN x = DOMAIN y,
         \A c \in DOMAIN x : c # "open" /\ c # "publicId" => x[c] = y[c]
  PROVE  Quitada(x) = Quitada(y)
<1>1. Quitada(x) = [c \in DOMAIN x |-> IF c = "publicId" THEN <<>> ELSE IF c = "open" THEN FALSE ELSE x[c]]
  BY DEF Quitada, EsEntidad
<1>2. Quitada(y) = [c \in DOMAIN y |-> IF c = "publicId" THEN <<>> ELSE IF c = "open" THEN FALSE ELSE y[c]]
  BY DEF Quitada, EsEntidad
<1> QED
  BY <1>1, <1>2

(* A field of an entity that is not whether it is open.                    *)
LEMMA CampoDeEntidad ==
  ASSUME NEW d, InvDtd(d), NEW e, NEW c \in CamposEntidad \ {"open"}, NEW v
  PROVE  LET d2 == [d EXCEPT !.entidades[e][c] = v]
         IN  /\ MismaDtd(d, d2) /\ DOMAIN d2.entidades = DOMAIN d.entidades
             /\ c = "publicId" => Congelada(d, d2)
<1> DEFINE x2 == [d.entidades[e] EXCEPT ![c] = v]
           d2 == [d EXCEPT !.entidades[e][c] = v]
<1>1. /\ CamposDtd \subseteq DOMAIN d2 /\ d2.entidades = [d.entidades EXCEPT ![e] = x2]
      /\ d2.param = d.param /\ d2.general = d.general /\ d2.atributos = d.atributos
      /\ d2.keepProcessing = d.keepProcessing /\ d2.standalone = d.standalone
  BY DEF InvDtd, CamposDtd
<1> HIDE DEF d2, x2
<1>2. DOMAIN d2.entidades = DOMAIN d.entidades
  BY <1>1
<1>3. \A x \in DOMAIN d.entidades : x # e => d2.entidades[x] = d.entidades[x]
  BY <1>1
<1>4. ASSUME e \in DOMAIN d.entidades
      PROVE  /\ EsEntidad(d2.entidades[e]) /\ d2.entidades[e].open = d.entidades[e].open
             /\ c = "publicId" => Quitada(d2.entidades[e]) = Quitada(d.entidades[e])
  <2>1. EsEntidad(d.entidades[e]) /\ d2.entidades[e] = x2
    BY <1>1, <1>4 DEF InvDtd
  <2> DEFINE y == d.entidades[e]
  <2>2. x2 = [y EXCEPT ![c] = v]
    BY DEF x2
  <2>3. /\ DOMAIN x2 = DOMAIN y /\ x2.open = y.open /\ x2 = [f \in DOMAIN x2 |-> x2[f]]
    <3> HIDE DEF y
    <3> QED
      BY <2>1, <2>2 DEF EsEntidad, CamposEntidad, y
  <2>5. EsEntidad(x2)
    BY <2>1, <2>3 DEF EsEntidad
  <2>4. c = "publicId" => Quitada(x2) = Quitada(y)
    <3> HIDE DEF y
    <3>1. \A f \in DOMAIN x2 : f # c => x2[f] = y[f]
      BY <2>2, <2>3
    <3> QED
      BY <2>1, <2>3, <2>5, <3>1, QuitadaIgual DEF y
  <2> QED
    BY <2>1, <2>3, <2>4, <2>5
<1>5. MismasEntidades(d, d2)
  BY <1>1, <1>2, <1>3, <1>4 DEF InvDtd, MismasEntidades
<1>6. InvDtd(d2)
  BY <1>5, MismasEntidadesInv
<1>7. Abiertas(d2) = Abiertas(d)
  BY <1>2, <1>3, <1>4 DEF Abiertas
<1>8. c = "publicId" => \A x \in DOMAIN d.entidades : Quitada(d2.entidades[x]) = Quitada(d.entidades[x])
  BY <1>3, <1>4
<1> QED
  BY <1>1, <1>2, <1>6, <1>7, <1>8 DEF d2, MismaDtd, MismasMarcas, Congelada

(* What is not of the entities leaves them.                                *)
Ajeno(d, d2) ==
  /\ CamposDtd \subseteq DOMAIN d2
  /\ d2.param = d.param /\ d2.general = d.general /\ d2.entidades = d.entidades
(* A change of what is not of the entities is none of them.                *)
LEMMA OtroCampo ==
  ASSUME NEW d, InvDtd(d), NEW d2, Ajeno(d, d2), d2.keepProcessing \in BOOLEAN, d2.standalone \in BOOLEAN
  PROVE  /\ InvDtd(d2) /\ Abiertas(d2) = Abiertas(d)
         /\ d2.atributos = d.atributos => Congelada(d, d2)
BY DEF InvDtd, Abiertas, Declarados, Ajeno, Congelada

(* The external subset may be added when nothing counts any more.          *)
LEMMA CrecioCongelada ==
  ASSUME NEW d, InvDtd(d), NEW d2, Crecio(d, d2, externalSubset)
  PROVE  MismaDtd(d, d2) /\ Congelada(d, d2)
BY DEF Crecio, MismaDtd, MismasMarcas, Congelada

(* An entity is marked open, or not any more.                              *)
LEMMA AbrirEntidad ==
  ASSUME NEW d, InvDtd(d), NEW e \in DOMAIN d.entidades, NEW open \in BOOLEAN
  PROVE  LET d2 == Abrir(d, e, open)
         IN  /\ InvDtd(d2)
             /\ Abiertas(d2) = IF open THEN Abiertas(d) \cup {e} ELSE Abiertas(d) \ {e}
             /\ DOMAIN d2.entidades = DOMAIN d.entidades
             /\ Congelada(d, d2) /\ MismasMarcas(d, d2)
<1> DEFINE y == d.entidades[e]
           x2 == [y EXCEPT !.open = open]
           d2 == Abrir(d, e, open)
<1>1. /\ CamposDtd \subseteq DOMAIN d2 /\ d2.entidades = [d.entidades EXCEPT ![e] = x2]
      /\ d2.param = d.param /\ d2.general = d.general /\ d2.atributos = d.atributos
      /\ d2.keepProcessing = d.keepProcessing /\ d2.standalone = d.standalone
  BY DEF InvDtd, CamposDtd, Abrir
<1> HIDE DEF d2, x2
<1>2. DOMAIN d2.entidades = DOMAIN d.entidades
  BY <1>1
<1>3. \A x \in DOMAIN d.entidades : x # e => d2.entidades[x] = d.entidades[x]
  BY <1>1
<1>4. EsEntidad(y) /\ d2.entidades[e] = x2
  BY <1>1 DEF InvDtd
<1>5. EsEntidad(x2) /\ x2.open = open /\ Quitada(x2) = Quitada(y)
  <2> HIDE DEF y
  <2>1. DOMAIN x2 = DOMAIN y /\ x2.open = open /\ x2 = [f \in DOMAIN x2 |-> x2[f]]
    BY <1>4 DEF EsEntidad, CamposEntidad, x2
  <2>2. Quitada(x2) = Quitada(y)
    BY <1>4 DEF EsEntidad, x2, Quitada
  <2> QED
    BY <1>4, <2>1, <2>2 DEF EsEntidad
<1>6. MismasEntidades(d, d2)
  BY <1>1, <1>2, <1>3, <1>4, <1>5 DEF InvDtd, MismasEntidades
<1>7. InvDtd(d2)
  BY <1>6, MismasEntidadesInv
<1>8. Abiertas(d2) = IF open THEN Abiertas(d) \cup {e} ELSE Abiertas(d) \ {e}
  BY <1>2, <1>3, <1>4, <1>5 DEF Abiertas
<1>9. \A x \in DOMAIN d.entidades : Quitada(d2.entidades[x]) = Quitada(d.entidades[x])
  BY <1>3, <1>4, <1>5
<1> QED
  BY <1>1, <1>2, <1>7, <1>8, <1>9 DEF d2, Congelada, MismasMarcas

-----------------------------------------------------------------------------
(* The rows of xmlrole.c: the XML declaration comes first, nothing leads   *)
(* back to the start, and only what has no role leaves it where it is.     *)
FilaBien(f) ==
  /\ f[4] = "XML_DECL" => f[1] = "prolog0"
  /\ f[5] # "prolog0"
  /\ f[1] = "prolog0" /\ f[5] = "=" => f[4] = "NONE"

(* The rows, table by table.                                               *)
LEMMA FilasBien == \A f \in Filas : FilaBien(f)
<1>1. \A f \in prolog : FilaBien(f)
  BY DEF prolog, FilaBien
<1>2. \A f \in doctype : FilaBien(f)
  BY DEF doctype, FilaBien
<1>3. \A f \in subset : FilaBien(f)
  BY DEF subset, FilaBien
<1>4. \A f \in entityGeneral : FilaBien(f)
  BY DEF entityGeneral, FilaBien
<1>5. \A f \in entityResto : FilaBien(f)
  BY DEF entityResto, FilaBien
<1>6. \A f \in notation : FilaBien(f)
  BY DEF notation, FilaBien
<1>7. \A f \in attlistTipo : FilaBien(f)
  <2>1. \A t \in TiposAtributo : RolDeTipo[t] # "XML_DECL"
    BY DEF TiposAtributo, RolDeTipo
  <2> QED
    BY <2>1 DEF attlistTipo, FilaBien
<1>8. \A f \in attlistValor : FilaBien(f)
  BY DEF attlistValor, FilaBien
<1>9. \A f \in elementInicio : FilaBien(f)
  BY DEF elementInicio, elementNombres, FilaBien
<1>10. \A f \in elementGrupos : FilaBien(f)
  BY DEF elementGrupos, elementNombres, FilaBien
<1>11. \A f \in condSect : FilaBien(f)
  BY DEF condSect, FilaBien
<1> QED
  BY <1>1, <1>2, <1>3, <1>4, <1>5, <1>6, <1>7, <1>8, <1>9, <1>10, <1>11 DEF Filas

CamposProlog == {"handler", "documentEntity", "role_none", "level", "includeLevel"}
InvProlog(s) ==
  /\ CamposProlog \subseteq DOMAIN s
  /\ s.documentEntity \in BOOLEAN
  /\ s.role_none # "XML_DECL"
  /\ s.handler = "prolog0" => s.documentEntity

(* The role of a token, and the state it leaves.                           *)
RolBien(state, r) ==
  /\ InvProlog(r.state)
  /\ r.state.handler = "prolog0" => state.handler = "prolog0" /\ r.role = "NONE"
  /\ r.role = "XML_DECL" => state.handler = "prolog0"

(* What has no role is not an XML declaration.                             *)
LEMMA NingunRolBien == \A h : NingunRol(h) # "XML_DECL"
BY DEF NingunRol

(* common: an error, or a reference inside a declaration.                  *)
LEMMA CommonBien ==
  ASSUME NEW s, InvProlog(s), NEW tok
  PROVE  RolBien(s, common(s, tok))
<1> DEFINE r == common(s, tok)
<1>1. CASE ~s.documentEntity /\ tok.tok = "PARAM_ENTITY_REF"
  <2>1. r.role = "INNER_PARAM_ENTITY_REF" /\ r.state = s
    BY <1>1 DEF common
  <2> QED
    BY <1>1, <2>1 DEF RolBien, InvProlog
<1>2. CASE ~(~s.documentEntity /\ tok.tok = "PARAM_ENTITY_REF")
  <2>1. r.role = "ERROR" /\ r.state = [s EXCEPT !.handler = "error"]
    BY <1>2 DEF common
  <2> QED
    BY <2>1 DEF RolBien, InvProlog, CamposProlog
<1> QED
  BY <1>1, <1>2

(* A token that the tables of rows take, or do not.                        *)
LEMMA PorTablaBien ==
  ASSUME NEW s, InvProlog(s), NEW tok
  PROVE  RolBien(s, PorTabla(s, tok))
<1> DEFINE filas == { f \in Filas : f[1] = s.handler /\ Toma(s, tok, f) }
           fila == CHOOSE f \in filas : TRUE
           h == HandlerTras(s, fila)
           r == PorTabla(s, tok)
<1>1. CASE filas = {}
  <2>1. r = common(s, tok)
    BY <1>1 DEF PorTabla
  <2> QED
    BY <2>1, CommonBien
<1>2. CASE filas # {}
  <2>1. r = [role |-> fila[4],
             state |-> [s EXCEPT !.handler = h,
                                 !.level = NivelTras(s, fila),
                                 !.includeLevel = IncludeTras(s, fila),
                                 !.role_none = IF h = "declClose" THEN NingunRol(fila[1]) ELSE @]]
    BY <1>2 DEF PorTabla
  <2>2. fila \in Filas /\ fila[1] = s.handler
    <3>1. fila \in filas
      BY <1>2
    <3> QED
      BY <3>1
  <2> HIDE DEF fila, filas
  <2>3. FilaBien(fila)
    BY <2>2, FilasBien
  <2>4. h = "prolog0" => s.handler = "prolog0" /\ fila[4] = "NONE"
    BY <2>2, <2>3 DEF HandlerTras, setTopLevel, FilaBien
  <2> HIDE DEF h
  <2>5. /\ r.role = fila[4] /\ CamposProlog \subseteq DOMAIN r.state
        /\ r.state.handler = h /\ r.state.documentEntity = s.documentEntity
        /\ r.state.role_none = IF h = "declClose" THEN NingunRol(fila[1]) ELSE s.role_none
    <3> DEFINE n == IF h = "declClose" THEN NingunRol(fila[1]) ELSE s.role_none
               a == NivelTras(s, fila)
               b == IncludeTras(s, fila)
               st == [s EXCEPT !.handler = h, !.level = a, !.includeLevel = b, !.role_none = n]
    <3>1. r.role = fila[4] /\ r.state = st
      BY <2>1
    <3> HIDE DEF n, a, b
    <3>2. /\ CamposProlog \subseteq DOMAIN st
          /\ st.handler = h /\ st.documentEntity = s.documentEntity /\ st.role_none = n
      BY DEF InvProlog, CamposProlog
    <3> HIDE DEF st
    <3> QED
      BY <3>1, <3>2 DEF n
  <2>6. r.state.role_none # "XML_DECL"
    BY <2>5, NingunRolBien DEF InvProlog
  <2> QED
    BY <2>2, <2>3, <2>4, <2>5, <2>6 DEF RolBien, InvProlog, FilaBien
<1> QED
  BY <1>1, <1>2

(* The end of a declaration goes back to the top.                          *)
LEMMA DeclCloseBien ==
  ASSUME NEW s, InvProlog(s), s.handler # "prolog0", NEW tok
  PROVE  RolBien(s, declClose(s, tok))
<1> DEFINE r == declClose(s, tok)
<1>1. CASE tok.tok = "PROLOG_S"
  <2>1. r.role = s.role_none /\ r.state = s
    BY <1>1 DEF declClose
  <2> QED
    BY <2>1 DEF RolBien, InvProlog
<1>2. CASE tok.tok = "DECL_CLOSE"
  <2>1. r.role = s.role_none /\ r.state = [s EXCEPT !.handler = setTopLevel(s)]
    BY <1>2 DEF declClose
  <2>2. setTopLevel(s) # "prolog0"
    BY DEF setTopLevel
  <2> QED
    BY <2>1, <2>2 DEF RolBien, InvProlog, CamposProlog
<1>3. CASE tok.tok # "PROLOG_S" /\ tok.tok # "DECL_CLOSE"
  <2>1. r = common(s, tok)
    BY <1>3 DEF declClose
  <2> QED
    BY <2>1, CommonBien
<1> QED
  BY <1>1, <1>2, <1>3

(* Every token leaves a state of the prolog.                               *)
LEMMA XmlTokenRoleBien ==
  ASSUME NEW s, InvProlog(s), NEW tok
  PROVE  RolBien(s, XmlTokenRole(s, tok))
<1> DEFINE st == IF s.handler = "externalSubset0" THEN [s EXCEPT !.handler = "externalSubset1"] ELSE s
           r == XmlTokenRole(s, tok)
<1>1. InvProlog(st) /\ (st.handler = "prolog0" <=> s.handler = "prolog0")
  BY DEF InvProlog, CamposProlog
<1>2. r = CASE st.handler = "error" -> [role |-> "NONE", state |-> st]
            [] s.handler = "externalSubset0" /\ tok.tok = "XML_DECL" -> [role |-> "TEXT_DECL", state |-> st]
            [] st.handler = "declClose" -> declClose(st, tok)
            [] st.handler # "declClose" /\ tok.tok = "PROLOG_S" ->
                 [role |-> NingunRol(st.handler),
                  state |-> IF st.handler = "prolog0" THEN [st EXCEPT !.handler = "prolog1"] ELSE st]
            [] OTHER -> PorTabla(st, tok)
  BY DEF XmlTokenRole
<1>3. st.handler = "error" \/ st.handler = "declClose" => st.handler # "prolog0"
  OBVIOUS
<1> HIDE DEF st
<1>4. CASE r = [role |-> "NONE", state |-> st] /\ st.handler = "error"
  <2>1. r.role = "NONE" /\ r.state = st
    BY <1>4
  <2> QED
    BY <1>1, <1>4, <2>1 DEF RolBien
<1>5. CASE r = [role |-> "TEXT_DECL", state |-> st] /\ s.handler = "externalSubset0"
  <2>1. r.role = "TEXT_DECL" /\ r.state = st
    BY <1>5
  <2> QED
    BY <1>1, <1>5, <2>1 DEF RolBien
<1>6. CASE r = declClose(st, tok) /\ st.handler = "declClose"
  <2>1. RolBien(st, r)
    BY <1>1, <1>3, <1>6, DeclCloseBien
  <2> QED
    BY <1>1, <2>1 DEF RolBien
<1>7. CASE r = [role |-> NingunRol(st.handler),
                state |-> IF st.handler = "prolog0" THEN [st EXCEPT !.handler = "prolog1"] ELSE st]
  <2>1. r.role # "XML_DECL" /\ r.state = IF st.handler = "prolog0" THEN [st EXCEPT !.handler = "prolog1"] ELSE st
    BY <1>7, NingunRolBien
  <2>2. InvProlog(r.state) /\ r.state.handler # "prolog0"
    BY <1>1, <2>1 DEF InvProlog, CamposProlog
  <2> QED
    BY <2>1, <2>2 DEF RolBien
<1>8. CASE r = PorTabla(st, tok)
  <2>1. RolBien(st, r)
    BY <1>1, <1>8, PorTablaBien
  <2> QED
    BY <1>1, <2>1 DEF RolBien
<1>9. \/ r = [role |-> "NONE", state |-> st] /\ st.handler = "error"
      \/ r = [role |-> "TEXT_DECL", state |-> st] /\ s.handler = "externalSubset0"
      \/ r = declClose(st, tok) /\ st.handler = "declClose"
      \/ r = [role |-> NingunRol(st.handler),
              state |-> IF st.handler = "prolog0" THEN [st EXCEPT !.handler = "prolog1"] ELSE st]
      \/ r = PorTabla(st, tok)
  BY <1>2
<1> QED
  BY <1>4, <1>5, <1>6, <1>7, <1>8, <1>9

-----------------------------------------------------------------------------
(* The stack of parsers, each with its texts.                              *)
CamposParser == {"prolog", "textos", "espera", "isParamEntity"}
CamposTexto == {"entidad", "resto", "betweenDecl"}
InvParser(p) ==
  /\ CamposParser \subseteq DOMAIN p
  /\ InvProlog(p.prolog)
  /\ EsSecuencia(p.textos) /\ Len(p.textos) # 0
  /\ \A j \in 1..Len(p.textos) : CamposTexto \subseteq DOMAIN p.textos[j]
  /\ p.prolog.handler = "prolog0" => p.espera = <<>>
Pila(ps) == EsSecuencia(ps) /\ Len(ps) # 0 /\ \A i \in 1..Len(ps) : InvParser(ps[i])

(* What a stack of parsers is reading, and the entities of it, once each.  *)
EsperaRef(p) == p.espera # <<>> /\ p.espera[1] = "ref"
LecturasDe(ps) ==
  (UNION { { <<i, j>> : j \in 2..Len(ps[i].textos) } : i \in DOMAIN ps })
  \cup { <<i, 0>> : i \in { k \in DOMAIN ps : EsperaRef(ps[k]) } }
EntidadDe(ps, l) == IF l[2] = 0 THEN ps[l[1]].espera[2] ELSE ps[l[1]].textos[l[2]].entidad
Sanas(ps, abiertas) ==
  /\ { EntidadDe(ps, l) : l \in LecturasDe(ps) } = abiertas
  /\ \A l, m \in LecturasDe(ps) : EntidadDe(ps, l) = EntidadDe(ps, m) => l = m

(* The property of the model, said of the stack of parsers.                *)
LEMMA SanasDef == EntidadesAbiertas <=> Sanas(parsers, Abiertas(dtd))
<1>1. Lecturas = LecturasDe(parsers)
  BY DEF Lecturas, LecturasDe, EsperaRef
<1>2. \A l : Entidad(l) = EntidadDe(parsers, l)
  BY DEF Entidad, EntidadDe
<1> QED
  BY <1>1, <1>2 DEF EntidadesAbiertas, Sanas

(* A reading is a text above the first, or what a handler reads.           *)
LEMMA EnLecturas ==
  ASSUME NEW ps, NEW l
  PROVE  l \in LecturasDe(ps) <=> /\ l = <<l[1], l[2]>> /\ l[1] \in DOMAIN ps
                                  /\ \/ l[2] \in 2..Len(ps[l[1]].textos)
                                     \/ l[2] = 0 /\ EsperaRef(ps[l[1]])
<1>1. ASSUME l \in LecturasDe(ps)
      PROVE  /\ l = <<l[1], l[2]>> /\ l[1] \in DOMAIN ps
             /\ \/ l[2] \in 2..Len(ps[l[1]].textos)
                \/ l[2] = 0 /\ EsperaRef(ps[l[1]])
  <2>1. CASE l \in UNION { { <<i, j>> : j \in 2..Len(ps[i].textos) } : i \in DOMAIN ps }
    <3>1. PICK i \in DOMAIN ps : \E j \in 2..Len(ps[i].textos) : l = <<i, j>>
      BY <2>1
    <3>2. PICK j \in 2..Len(ps[i].textos) : l = <<i, j>>
      BY <3>1
    <3> QED
      BY <3>2
  <2>2. CASE l \in { <<i, 0>> : i \in { k \in DOMAIN ps : EsperaRef(ps[k]) } }
    <3>1. PICK i \in DOMAIN ps : EsperaRef(ps[i]) /\ l = <<i, 0>>
      BY <2>2
    <3> QED
      BY <3>1
  <2> QED
    BY <1>1, <2>1, <2>2 DEF LecturasDe
<1>2. ASSUME l = <<l[1], l[2]>>, l[1] \in DOMAIN ps, l[2] \in 2..Len(ps[l[1]].textos)
      PROVE  l \in LecturasDe(ps)
  <2>1. l \in { <<l[1], j>> : j \in 2..Len(ps[l[1]].textos) }
    BY <1>2
  <2> QED
    BY <1>2, <2>1 DEF LecturasDe
<1>3. ASSUME l = <<l[1], l[2]>>, l[1] \in DOMAIN ps, l[2] = 0 /\ EsperaRef(ps[l[1]])
      PROVE  l \in LecturasDe(ps)
  BY <1>3 DEF LecturasDe
<1> QED
  BY <1>1, <1>2, <1>3

(* The same readings are of the same entities.                             *)
LEMMA SanasMismas ==
  ASSUME NEW ps, NEW ps2, NEW A, Sanas(ps, A), LecturasDe(ps2) = LecturasDe(ps),
         \A l \in LecturasDe(ps) : EntidadDe(ps2, l) = EntidadDe(ps, l)
  PROVE  Sanas(ps2, A)
BY DEF Sanas

(* One more reading opens one more entity.                                 *)
LEMMA SanasMas ==
  ASSUME NEW ps, NEW ps2, NEW A, Sanas(ps, A), NEW m, m \notin LecturasDe(ps),
         LecturasDe(ps2) = LecturasDe(ps) \cup {m},
         \A l \in LecturasDe(ps) : EntidadDe(ps2, l) = EntidadDe(ps, l),
         EntidadDe(ps2, m) \notin A
  PROVE  Sanas(ps2, A \cup {EntidadDe(ps2, m)})
BY DEF Sanas

(* One reading less closes its entity, and no other.                       *)
LEMMA SanasMenos ==
  ASSUME NEW ps, NEW ps2, NEW A, Sanas(ps, A), NEW m \in LecturasDe(ps),
         LecturasDe(ps2) = LecturasDe(ps) \ {m},
         \A l \in LecturasDe(ps2) : EntidadDe(ps2, l) = EntidadDe(ps, l)
  PROVE  Sanas(ps2, A \ {EntidadDe(ps, m)})
BY DEF Sanas

(* q reads what p reads.                                                   *)
Parecido(p, q) ==
  /\ InvParser(q)
  /\ q.isParamEntity = p.isParamEntity
  /\ Len(q.textos) = Len(p.textos)
  /\ \A j \in 1..Len(p.textos) : q.textos[j].entidad = p.textos[j].entidad

(* The parser on top changes.                                              *)
LEMMA CambiaPila ==
  ASSUME NEW ps, Pila(ps), NEW q, InvParser(q)
  PROVE  LET n == Len(ps)
             ps2 == [ps EXCEPT ![n] = q]
         IN  /\ n \in Nat /\ n \in 1..n /\ Pila(ps2) /\ Len(ps2) = n /\ DOMAIN ps2 = 1..n /\ DOMAIN ps = 1..n
             /\ ps2[n] = q /\ \A i \in 1..n : i # n => ps2[i] = ps[i]
             /\ InvParser(ps[n])
<1> DEFINE n == Len(ps)
           ps2 == [ps EXCEPT ![n] = q]
<1>1. n \in Nat /\ n # 0
  BY Agrega DEF Pila
<1>2. n \in 1..n
  BY <1>1
<1>3. /\ EsSecuencia(ps2) /\ Len(ps2) = n /\ DOMAIN ps2 = 1..n /\ DOMAIN ps = 1..n
      /\ ps2[n] = q /\ \A i \in 1..n : i # n => ps2[i] = ps[i]
  BY <1>2, Cambia DEF Pila
<1> HIDE DEF ps2
<1>4. Pila(ps2)
  BY <1>1, <1>3 DEF Pila
<1> QED
  BY <1>1, <1>2, <1>3, <1>4 DEF Pila, ps2

(* The parser on top reads the same after the step.                        *)
LEMMA ParecidoSano ==
  ASSUME NEW ps, Pila(ps), NEW A, Sanas(ps, A), NEW q, Parecido(ps[Len(ps)], q),
         q.espera = ps[Len(ps)].espera \/ (~EsperaRef(q) /\ ~EsperaRef(ps[Len(ps)]))
  PROVE  Sanas([ps EXCEPT ![Len(ps)] = q], A)
<1> DEFINE n == Len(ps)
           p == ps[n]
           ps2 == [ps EXCEPT ![n] = q]
<1>1. /\ n \in Nat /\ Pila(ps2) /\ DOMAIN ps2 = 1..n /\ DOMAIN ps = 1..n
      /\ ps2[n] = q /\ \A i \in 1..n : i # n => ps2[i] = ps[i]
  BY CambiaPila DEF Parecido
<1>2. /\ EsperaRef(q) <=> EsperaRef(p)
      /\ EsperaRef(q) => q.espera = p.espera
      /\ Len(q.textos) = Len(p.textos) /\ Len(p.textos) \in Nat
      /\ \A j \in 1..Len(p.textos) : q.textos[j].entidad = p.textos[j].entidad
  <2>1. Len(q.textos) \in Nat
    BY Agrega DEF Parecido, InvParser
  <2> QED
    BY <2>1 DEF Parecido, EsperaRef
<1> HIDE DEF ps2, p
<1>3. p = ps[n]
  BY DEF p
<1>4. \A i \in 1..n : Len(ps2[i].textos) = Len(ps[i].textos) /\ (EsperaRef(ps2[i]) <=> EsperaRef(ps[i]))
  BY <1>1, <1>2, <1>3
<1> HIDE DEF n
<1>5. ASSUME NEW l PROVE l \in LecturasDe(ps2) <=> l \in LecturasDe(ps)
  BY <1>1, <1>4, EnLecturas
<1>6. ASSUME NEW l \in LecturasDe(ps) PROVE EntidadDe(ps2, l) = EntidadDe(ps, l)
  <2>1. /\ l[1] \in 1..n
        /\ \/ l[2] \in 2..Len(ps[l[1]].textos)
           \/ l[2] = 0 /\ EsperaRef(ps[l[1]])
    BY <1>1, EnLecturas
  <2>2. CASE l[1] # n
    BY <1>1, <2>1, <2>2 DEF EntidadDe
  <2>3. CASE l[1] = n /\ l[2] = 0 /\ EsperaRef(p)
    BY <1>1, <1>2, <1>3, <2>3 DEF EntidadDe
  <2>4. CASE l[1] = n /\ l[2] \in 2..Len(p.textos)
    <3>1. l[2] # 0 /\ l[2] \in 1..Len(p.textos)
      BY <1>2, <2>4
    <3> QED
      BY <1>1, <1>2, <1>3, <2>4, <3>1 DEF EntidadDe
  <2> QED
    BY <1>3, <2>1, <2>2, <2>3, <2>4
<1>7. LecturasDe(ps2) = LecturasDe(ps)
  BY <1>5
<1> QED
  BY <1>6, <1>7, SanasMismas DEF ps2, n

(* A text of an entity is begun.                                           *)
LEMMA TextoMasSano ==
  ASSUME NEW ps, Pila(ps), NEW A, Sanas(ps, A), NEW q, InvParser(q),
         q.espera = ps[Len(ps)].espera,
         Len(q.textos) = Len(ps[Len(ps)].textos) + 1,
         \A j \in 1..Len(ps[Len(ps)].textos) : q.textos[j].entidad = ps[Len(ps)].textos[j].entidad,
         NEW e, e \notin A, q.textos[Len(q.textos)].entidad = e
  PROVE  Sanas([ps EXCEPT ![Len(ps)] = q], A \cup {e})
<1> DEFINE n == Len(ps)
           p == ps[n]
           k == Len(p.textos)
           ps2 == [ps EXCEPT ![n] = q]
           m == <<n, k + 1>>
<1>1. /\ n \in Nat /\ n \in 1..n /\ Pila(ps2) /\ DOMAIN ps2 = 1..n /\ DOMAIN ps = 1..n
      /\ ps2[n] = q /\ (\A i \in 1..n : i # n => ps2[i] = ps[i]) /\ InvParser(ps[n])
  BY CambiaPila
<1>2. k \in Nat /\ k # 0
  BY <1>1, Agrega DEF InvParser
<1>3. /\ EsperaRef(q) <=> EsperaRef(p)
      /\ q.espera = p.espera /\ Len(q.textos) = k + 1 /\ q.textos[k + 1].entidad = e
      /\ \A j \in 1..k : q.textos[j].entidad = p.textos[j].entidad
  BY DEF EsperaRef
<1> HIDE DEF ps2, p
<1>4. p = ps[n]
  BY DEF p
<1>5. k = Len(p.textos)
  OBVIOUS
<1>6. m = <<n, k + 1>> /\ m[1] = n /\ m[2] = k + 1
  OBVIOUS
<1> HIDE DEF n, k, m
<1>7. ASSUME NEW l PROVE l \in LecturasDe(ps2) <=> l \in LecturasDe(ps) \cup {m}
  <2>1. CASE l = m
    <3>1. m[2] \in 2..Len(ps2[m[1]].textos)
      BY <1>1, <1>2, <1>3, <1>6
    <3>2. m \in LecturasDe(ps2)
      BY <1>1, <1>6, <3>1, EnLecturas
    <3> QED
      BY <2>1, <3>2
  <2>2. CASE l # m
    <3>1. ASSUME l = <<l[1], l[2]>>, l[1] = n PROVE l[2] \in 2..Len(q.textos) <=> l[2] \in 2..Len(p.textos)
      <4>1. l[2] # k + 1
        BY <1>6, <2>2, <3>1
      <4> QED
        BY <1>2, <1>3, <1>5, <4>1
    <3>2. CASE l[1] # n
      BY <1>1, <2>2, <3>2, EnLecturas
    <3>3. CASE l[1] = n
      <4>1. n \in DOMAIN ps2 /\ n \in DOMAIN ps /\ ps2[n] = q /\ ps[n] = p
        BY <1>1, <1>4
      <4> QED
        BY <1>3, <2>2, <3>1, <3>3, <4>1, EnLecturas
    <3> QED
      BY <3>2, <3>3
  <2> QED
    BY <2>1, <2>2
<1>8. m \notin LecturasDe(ps)
  <2>1. ~(k + 1 \in 2..k) /\ k + 1 # 0
    BY <1>2
  <2> QED
    BY <1>4, <1>5, <1>6, <2>1, EnLecturas
<1>9. ASSUME NEW l \in LecturasDe(ps) PROVE EntidadDe(ps2, l) = EntidadDe(ps, l)
  <2>1. /\ l[1] \in 1..n
        /\ \/ l[2] \in 2..Len(ps[l[1]].textos)
           \/ l[2] = 0 /\ EsperaRef(ps[l[1]])
    BY <1>1, EnLecturas
  <2>2. CASE l[1] # n
    BY <1>1, <2>1, <2>2 DEF EntidadDe
  <2>3. CASE l[1] = n /\ l[2] = 0 /\ EsperaRef(p)
    BY <1>1, <1>3, <1>4, <2>3 DEF EntidadDe
  <2>4. CASE l[1] = n /\ l[2] \in 2..Len(p.textos)
    <3>1. l[2] # 0 /\ l[2] \in 1..k
      BY <1>2, <1>5, <2>4
    <3> QED
      BY <1>1, <1>3, <1>4, <2>4, <3>1 DEF EntidadDe
  <2> QED
    BY <1>4, <2>1, <2>2, <2>3, <2>4
<1>10. EntidadDe(ps2, m) = e
  <2>1. k + 1 # 0
    BY <1>2
  <2> QED
    BY <1>1, <1>3, <1>6, <2>1 DEF EntidadDe
<1>11. LecturasDe(ps2) = LecturasDe(ps) \cup {m}
  BY <1>7
<1>12. Sanas(ps2, A \cup {EntidadDe(ps2, m)})
  BY <1>8, <1>9, <1>10, <1>11, SanasMas
<1> QED
  BY <1>10, <1>12 DEF ps2, n

(* A text of an entity is ended: the same step backwards.                  *)
LEMMA TextoMenosSano ==
  ASSUME NEW ps, Pila(ps), NEW A, Sanas(ps, A), NEW q, InvParser(q),
         q.espera = ps[Len(ps)].espera,
         Len(q.textos) = Len(ps[Len(ps)].textos) - 1,
         \A j \in 1..Len(q.textos) : q.textos[j].entidad = ps[Len(ps)].textos[j].entidad
  PROVE  LET e == ps[Len(ps)].textos[Len(ps[Len(ps)].textos)].entidad
         IN  e \in A /\ Sanas([ps EXCEPT ![Len(ps)] = q], A \ {e})
<1> DEFINE n == Len(ps)
           p == ps[n]
           k == Len(q.textos)
           ps2 == [ps EXCEPT ![n] = q]
           m == <<n, k + 1>>
<1>1. /\ n \in Nat /\ n \in 1..n /\ Pila(ps2) /\ DOMAIN ps2 = 1..n /\ DOMAIN ps = 1..n
      /\ ps2[n] = q /\ (\A i \in 1..n : i # n => ps2[i] = ps[i]) /\ InvParser(ps[n])
  BY CambiaPila
<1>2. k \in Nat /\ k # 0
  BY Agrega DEF InvParser
<1>3. /\ EsperaRef(q) <=> EsperaRef(p)
      /\ q.espera = p.espera
      /\ \A j \in 1..k : q.textos[j].entidad = p.textos[j].entidad
  BY DEF EsperaRef
<1>0. Len(p.textos) = k + 1
  <2>1. Len(p.textos) \in Nat
    BY <1>1, Agrega DEF InvParser
  <2> QED
    BY <1>2, <2>1
<1> HIDE DEF ps2, p
<1>4. p = ps[n]
  BY DEF p
<1>5. k = Len(q.textos)
  OBVIOUS
<1>6. m = <<n, k + 1>> /\ m[1] = n /\ m[2] = k + 1
  OBVIOUS
<1> HIDE DEF n, k, m
<1>7. ASSUME NEW l PROVE l \in LecturasDe(ps2) <=> l \in LecturasDe(ps) \ {m}
  <2>1. CASE l = m
    <3>1. ~(m[2] \in 2..Len(ps2[m[1]].textos)) /\ m[2] # 0
      BY <1>1, <1>2, <1>5, <1>6
    <3>2. m \notin LecturasDe(ps2)
      BY <3>1, EnLecturas
    <3> QED
      BY <2>1, <3>2
  <2>2. CASE l # m
    <3>1. ASSUME l = <<l[1], l[2]>>, l[1] = n PROVE l[2] \in 2..Len(q.textos) <=> l[2] \in 2..Len(p.textos)
      <4>1. l[2] # k + 1
        BY <1>6, <2>2, <3>1
      <4> QED
        BY <1>0, <1>2, <1>5, <4>1
    <3> QED
      BY <1>1, <1>3, <1>4, <2>2, <3>1, EnLecturas
  <2> QED
    BY <2>1, <2>2
<1>8. m \in LecturasDe(ps)
  <2>1. k + 1 \in 2..Len(p.textos)
    BY <1>0, <1>2
  <2> QED
    BY <1>1, <1>4, <1>6, <2>1, EnLecturas
<1>9. ASSUME NEW l \in LecturasDe(ps2) PROVE EntidadDe(ps2, l) = EntidadDe(ps, l)
  <2>1. /\ l[1] \in 1..n
        /\ \/ l[2] \in 2..Len(ps2[l[1]].textos)
           \/ l[2] = 0 /\ EsperaRef(ps2[l[1]])
    BY <1>1, EnLecturas
  <2>2. CASE l[1] # n
    BY <1>1, <2>1, <2>2 DEF EntidadDe
  <2>3. CASE l[1] = n /\ l[2] = 0 /\ EsperaRef(q)
    BY <1>1, <1>3, <1>4, <2>3 DEF EntidadDe
  <2>4. CASE l[1] = n /\ l[2] \in 2..Len(q.textos)
    <3>1. l[2] # 0 /\ l[2] \in 1..k
      BY <1>2, <1>5, <2>4
    <3> QED
      BY <1>1, <1>3, <1>4, <2>4, <3>1 DEF EntidadDe
  <2> QED
    BY <1>1, <2>1, <2>2, <2>3, <2>4
<1> DEFINE e == EntidadDe(ps, m)
<1>10. e = p.textos[Len(p.textos)].entidad
  <2>1. k + 1 # 0
    BY <1>2
  <2> QED
    BY <1>0, <1>4, <1>6, <2>1 DEF EntidadDe
<1>11. LecturasDe(ps2) = LecturasDe(ps) \ {m}
  BY <1>7
<1>12. Sanas(ps2, A \ {e}) /\ e \in A
  <2>1. Sanas(ps2, A \ {e})
    BY <1>8, <1>9, <1>11, SanasMenos
  <2>2. e \in A
    BY <1>8 DEF Sanas
  <2> QED
    BY <2>1, <2>2
<1> HIDE DEF e
<1> QED
  BY <1>10, <1>12 DEF ps2, n, p

(* The handler of external entities is called for a reference.             *)
LEMMA EsperaSana ==
  ASSUME NEW ps, Pila(ps), NEW A, Sanas(ps, A), NEW q, Parecido(ps[Len(ps)], q),
         ps[Len(ps)].espera = <<>>, NEW e, e \notin A, q.espera = <<"ref", e>>
  PROVE  Sanas([ps EXCEPT ![Len(ps)] = q], A \cup {e})
<1> DEFINE n == Len(ps)
           p == ps[n]
           ps2 == [ps EXCEPT ![n] = q]
           m == <<n, 0>>
<1>1. /\ n \in Nat /\ n \in 1..n /\ Pila(ps2) /\ DOMAIN ps2 = 1..n /\ DOMAIN ps = 1..n
      /\ ps2[n] = q /\ (\A i \in 1..n : i # n => ps2[i] = ps[i])
  BY CambiaPila DEF Parecido
<1>2. /\ EsperaRef(q) /\ ~EsperaRef(p) /\ q.espera[2] = e
      /\ Len(q.textos) = Len(p.textos) /\ Len(p.textos) \in Nat
      /\ \A j \in 1..Len(p.textos) : q.textos[j].entidad = p.textos[j].entidad
  <2>1. Len(q.textos) \in Nat
    BY Agrega DEF Parecido, InvParser
  <2>2. Len(q.textos) = Len(p.textos) /\ \A j \in 1..Len(p.textos) : q.textos[j].entidad = p.textos[j].entidad
    BY DEF Parecido
  <2>3. <<"ref", e>> # <<>> /\ <<"ref", e>>[1] = "ref" /\ <<"ref", e>>[2] = e
    OBVIOUS
  <2> QED
    BY <2>1, <2>2, <2>3 DEF EsperaRef
<1> HIDE DEF ps2, p
<1>3. p = ps[n]
  BY DEF p
<1>4. m = <<n, 0>> /\ m[1] = n /\ m[2] = 0
  OBVIOUS
<1> HIDE DEF n, m
<1>5. ASSUME NEW l PROVE l \in LecturasDe(ps2) <=> l \in LecturasDe(ps) \cup {m}
  <2>1. CASE l = m
    <3>1. m \in LecturasDe(ps2)
      BY <1>1, <1>2, <1>4, EnLecturas
    <3> QED
      BY <2>1, <3>1
  <2>2. CASE l # m
    <3>1. l = <<l[1], l[2]>> /\ l[1] = n => l[2] # 0
      BY <1>4, <2>2
    <3> QED
      BY <1>1, <1>2, <1>3, <2>2, <3>1, EnLecturas
  <2> QED
    BY <2>1, <2>2
<1>6. m \notin LecturasDe(ps)
  <2>1. ~(0 \in 2..Len(p.textos))
    BY <1>2
  <2> QED
    BY <1>2, <1>3, <1>4, <2>1, EnLecturas
<1>7. ASSUME NEW l \in LecturasDe(ps) PROVE EntidadDe(ps2, l) = EntidadDe(ps, l)
  <2>1. /\ l[1] \in 1..n
        /\ \/ l[2] \in 2..Len(ps[l[1]].textos)
           \/ l[2] = 0 /\ EsperaRef(ps[l[1]])
    BY <1>1, EnLecturas
  <2>2. CASE l[1] # n
    BY <1>1, <2>1, <2>2 DEF EntidadDe
  <2>3. CASE l[1] = n
    <3>1. l[2] # 0 /\ l[2] \in 1..Len(p.textos)
      BY <1>2, <1>3, <2>1, <2>3
    <3> QED
      BY <1>1, <1>2, <1>3, <2>3, <3>1 DEF EntidadDe
  <2> QED
    BY <2>2, <2>3
<1>8. EntidadDe(ps2, m) = e
  BY <1>1, <1>2, <1>4 DEF EntidadDe
<1>9. LecturasDe(ps2) = LecturasDe(ps) \cup {m}
  BY <1>5
<1>10. Sanas(ps2, A \cup {EntidadDe(ps2, m)})
  BY <1>6, <1>7, <1>8, <1>9, SanasMas
<1> QED
  BY <1>8, <1>10 DEF ps2, n

(* It returns.                                                             *)
LEMMA VuelveSana ==
  ASSUME NEW ps, Pila(ps), NEW A, Sanas(ps, A), NEW q, Parecido(ps[Len(ps)], q),
         EsperaRef(ps[Len(ps)]), q.espera = <<>>
  PROVE  /\ ps[Len(ps)].espera[2] \in A
         /\ Sanas([ps EXCEPT ![Len(ps)] = q], A \ {ps[Len(ps)].espera[2]})
<1> DEFINE n == Len(ps)
           p == ps[n]
           ps2 == [ps EXCEPT ![n] = q]
           m == <<n, 0>>
<1>1. /\ n \in Nat /\ n \in 1..n /\ Pila(ps2) /\ DOMAIN ps2 = 1..n /\ DOMAIN ps = 1..n
      /\ ps2[n] = q /\ (\A i \in 1..n : i # n => ps2[i] = ps[i])
  BY CambiaPila DEF Parecido
<1>2. /\ ~EsperaRef(q) /\ EsperaRef(p)
      /\ Len(q.textos) = Len(p.textos) /\ Len(p.textos) \in Nat
      /\ \A j \in 1..Len(p.textos) : q.textos[j].entidad = p.textos[j].entidad
  <2>1. Len(q.textos) \in Nat
    BY Agrega DEF Parecido, InvParser
  <2>2. Len(q.textos) = Len(p.textos) /\ \A j \in 1..Len(p.textos) : q.textos[j].entidad = p.textos[j].entidad
    BY DEF Parecido
  <2> QED
    BY <2>1, <2>2 DEF EsperaRef
<1> HIDE DEF ps2, p
<1>3. p = ps[n]
  BY DEF p
<1>4. m = <<n, 0>> /\ m[1] = n /\ m[2] = 0
  OBVIOUS
<1> HIDE DEF n, m
<1>5. ASSUME NEW l PROVE l \in LecturasDe(ps2) <=> l \in LecturasDe(ps) \ {m}
  <2>1. CASE l = m
    <3>1. ~(0 \in 2..Len(q.textos))
      BY <1>2
    <3>2. m \notin LecturasDe(ps2)
      BY <1>1, <1>2, <1>4, <3>1, EnLecturas
    <3> QED
      BY <2>1, <3>2
  <2>2. CASE l # m
    <3>1. l = <<l[1], l[2]>> /\ l[1] = n => l[2] # 0
      BY <1>4, <2>2
    <3> QED
      BY <1>1, <1>2, <1>3, <2>2, <3>1, EnLecturas
  <2> QED
    BY <2>1, <2>2
<1>6. m \in LecturasDe(ps)
  BY <1>1, <1>2, <1>3, <1>4, EnLecturas
<1>7. ASSUME NEW l \in LecturasDe(ps2) PROVE EntidadDe(ps2, l) = EntidadDe(ps, l)
  <2>1. /\ l[1] \in 1..n
        /\ \/ l[2] \in 2..Len(ps2[l[1]].textos)
           \/ l[2] = 0 /\ EsperaRef(ps2[l[1]])
    BY <1>1, EnLecturas
  <2>2. CASE l[1] # n
    BY <1>1, <2>1, <2>2 DEF EntidadDe
  <2>3. CASE l[1] = n
    <3>1. l[2] # 0 /\ l[2] \in 1..Len(p.textos)
      BY <1>1, <1>2, <2>1, <2>3
    <3> QED
      BY <1>1, <1>2, <1>3, <2>3, <3>1 DEF EntidadDe
  <2> QED
    BY <2>2, <2>3
<1> DEFINE e == EntidadDe(ps, m)
<1>8. e = p.espera[2]
  BY <1>3, <1>4 DEF EntidadDe
<1>9. LecturasDe(ps2) = LecturasDe(ps) \ {m}
  BY <1>5
<1>10. Sanas(ps2, A \ {e}) /\ e \in A
  <2>1. Sanas(ps2, A \ {e})
    BY <1>6, <1>7, <1>9, SanasMenos
  <2>2. e \in A
    BY <1>6 DEF Sanas
  <2> QED
    BY <2>1, <2>2
<1> HIDE DEF e
<1> QED
  BY <1>8, <1>10 DEF ps2, n, p

(* A parser that reads nothing comes or goes.                              *)
LEMMA ParserMasSano ==
  ASSUME NEW ps, Pila(ps), NEW A, Sanas(ps, A), NEW q, InvParser(q), ~EsperaRef(q), Len(q.textos) = 1
  PROVE  Pila(Append(ps, q)) /\ Sanas(Append(ps, q), A) /\ Len(Append(ps, q)) = Len(ps) + 1
         /\ \A i \in 1..Len(ps) : Append(ps, q)[i] = ps[i]
<1> DEFINE n == Len(ps)
           ps2 == Append(ps, q)
<1>1. /\ EsSecuencia(ps2) /\ Len(ps2) = n + 1 /\ DOMAIN ps2 = 1..(n + 1) /\ DOMAIN ps = 1..n
      /\ ps2[n + 1] = q /\ n \in Nat /\ \A i \in 1..n : ps2[i] = ps[i]
  BY Agrega DEF Pila
<1> HIDE DEF ps2, n
<1>2. \A i \in 1..(n + 1) : i \in 1..n \/ i = n + 1
  BY <1>1
<1>3. Pila(ps2)
  <2>1. n + 1 # 0
    BY <1>1
  <2> QED
    BY <1>1, <1>2, <2>1 DEF Pila, n
<1>4. LecturasDe(ps2) = LecturasDe(ps)
  <2> SUFFICES ASSUME NEW l PROVE l \in LecturasDe(ps2) <=> l \in LecturasDe(ps)
    OBVIOUS
  <2>1. CASE l[1] = n + 1
    <3>1. l[1] \notin 1..n /\ ~(l[2] \in 2..1)
      BY <1>1, <2>1
    <3> QED
      BY <1>1, <2>1, <3>1, EnLecturas
  <2>2. CASE l[1] # n + 1
    <3>1. l[1] \in 1..(n + 1) <=> l[1] \in 1..n
      BY <1>1, <2>2
    <3> QED
      BY <1>1, <3>1, EnLecturas
  <2> QED
    BY <2>1, <2>2
<1>5. \A l \in LecturasDe(ps) : EntidadDe(ps2, l) = EntidadDe(ps, l)
  BY <1>1, EnLecturas DEF EntidadDe
<1>6. Sanas(ps2, A)
  BY <1>4, <1>5, SanasMismas
<1> QED
  BY <1>1, <1>3, <1>6 DEF ps2, n

(* The parser of a handler ends: it reads nothing any more.                *)
LEMMA ParserMenosSano ==
  ASSUME NEW ps, Pila(ps), Len(ps) # 1, NEW A, Sanas(ps, A), ~EsperaRef(ps[Len(ps)]), Len(ps[Len(ps)].textos) = 1
  PROVE  Pila(Front(ps)) /\ Sanas(Front(ps), A) /\ Len(Front(ps)) = Len(ps) - 1 /\ Len(ps) \in Nat
         /\ \A i \in 1..(Len(ps) - 1) : Front(ps)[i] = ps[i]
<1> DEFINE n == Len(ps)
           ps2 == Front(ps)
<1>1. /\ EsSecuencia(ps2) /\ Len(ps2) = n - 1 /\ DOMAIN ps2 = 1..(n - 1) /\ DOMAIN ps = 1..n
      /\ n \in Nat /\ n # 0 /\ n # 1 /\ \A i \in 1..(n - 1) : ps2[i] = ps[i]
  BY Saca DEF Pila
<1> HIDE DEF ps2, n
<1>2. \A i \in 1..(n - 1) : i \in 1..n
  BY <1>1
<1>3. Pila(ps2)
  <2>1. n - 1 # 0
    BY <1>1
  <2> QED
    BY <1>1, <1>2, <2>1 DEF Pila, n
<1>4. LecturasDe(ps2) = LecturasDe(ps)
  <2> SUFFICES ASSUME NEW l PROVE l \in LecturasDe(ps2) <=> l \in LecturasDe(ps)
    OBVIOUS
  <2>1. CASE l[1] = n
    <3>1. l[1] \notin 1..(n - 1) /\ ~(l[2] \in 2..1)
      BY <1>1, <2>1
    <3>2. ~EsperaRef(ps[n]) /\ Len(ps[n].textos) = 1
      BY DEF n
    <3> QED
      BY <1>1, <2>1, <3>1, <3>2, EnLecturas
  <2>2. CASE l[1] # n
    <3>1. l[1] \in 1..(n - 1) <=> l[1] \in 1..n
      BY <1>1, <2>2
    <3> QED
      BY <1>1, <3>1, EnLecturas
  <2> QED
    BY <2>1, <2>2
<1>5. \A l \in LecturasDe(ps) : EntidadDe(ps2, l) = EntidadDe(ps, l)
  BY <1>1, <1>4, EnLecturas DEF EntidadDe
<1>6. Sanas(ps2, A)
  BY <1>4, <1>5, SanasMismas
<1> QED
  BY <1>1, <1>3, <1>6 DEF ps2, n

-----------------------------------------------------------------------------
(* What handlers are given when nothing counts any more.                   *)
Declaran == {"entityDecl", "unparsedEntityDecl", "attlistDecl"}
Prolonga(s, s2) ==
  /\ EsSecuencia(s2) /\ Len(s) \in Nat /\ Len(s2) \in Nat /\ Len(s) <= Len(s2)
  /\ \A i \in 1..Len(s) : s2[i] = s[i]
  /\ \A i \in (Len(s) + 1)..Len(s2) : s2[i][1] \notin Declaran

(* Nothing is given to the handlers, ...                                   *)
LEMMA ProlongaMisma ==
  ASSUME NEW s, EsSecuencia(s)
  PROVE  Prolonga(s, s)
<1>1. Len(s) \in Nat
  BY Agrega
<1> QED
  BY <1>1 DEF Prolonga

(* ... one thing that is not a declaration, ...                            *)
LEMMA ProlongaUno ==
  ASSUME NEW s, EsSecuencia(s), NEW x, x[1] \notin Declaran
  PROVE  Prolonga(s, Append(s, x))
<1> DEFINE s2 == Append(s, x)
<1>1. /\ EsSecuencia(s2) /\ Len(s) \in Nat /\ Len(s2) = Len(s) + 1
      /\ s2[Len(s) + 1] = x /\ \A i \in 1..Len(s) : s2[i] = s[i]
  BY Agrega
<1> HIDE DEF s2
<1>2. \A i \in (Len(s) + 1)..Len(s2) : i = Len(s) + 1
  BY <1>1
<1> QED
  BY <1>1, <1>2 DEF Prolonga, s2

(* ... or what two steps give.                                             *)
LEMMA ProlongaLuego ==
  ASSUME NEW s, NEW s2, NEW s3, Prolonga(s, s2), Prolonga(s2, s3)
  PROVE  Prolonga(s, s3)
<1>1. /\ Len(s) \in Nat /\ Len(s2) \in Nat /\ Len(s3) \in Nat /\ Len(s) <= Len(s2) /\ Len(s2) <= Len(s3)
      /\ EsSecuencia(s3)
  BY DEF Prolonga
<1>2. ASSUME NEW i \in 1..Len(s) PROVE s3[i] = s[i]
  <2>1. i \in 1..Len(s2)
    BY <1>1
  <2> QED
    BY <2>1 DEF Prolonga
<1>3. ASSUME NEW i \in (Len(s) + 1)..Len(s3) PROVE s3[i][1] \notin Declaran
  <2>1. CASE i \in 1..Len(s2)
    <3>1. i \in (Len(s) + 1)..Len(s2)
      BY <1>1, <2>1
    <3> QED
      BY <2>1, <3>1 DEF Prolonga
  <2>2. CASE i \notin 1..Len(s2)
    <3>1. i \in (Len(s2) + 1)..Len(s3)
      BY <1>1, <2>2
    <3> QED
      BY <3>1 DEF Prolonga
  <2> QED
    BY <2>1, <2>2
<1> QED
  BY <1>1, <1>2, <1>3 DEF Prolonga

(* A sequence with one more, or none.                                      *)
LEMMA PegaUno ==
  ASSUME NEW s, EsSecuencia(s), NEW x
  PROVE  s \o <<x>> = Append(s, x) /\ s \o <<>> = s
<1>1. PICK S : s \in Seq(S)
  BY DEF EsSecuencia
<1>2. s \in Seq(S \cup {x}) /\ x \in S \cup {x}
  BY <1>1
<1> QED
  BY <1>2

-----------------------------------------------------------------------------
(* The invariant of the states of the parsers, and a step that keeps it.   *)
Marcas(d, ps) ==
  /\ ~d.keepProcessing => ~d.standalone
  /\ \A i \in 1..Len(ps) : ps[i].prolog.handler = "prolog0" => d.keepProcessing /\ Len(ps) = 1
InvEstado(d, ps, ev) ==
  /\ InvDtd(d) /\ Pila(ps) /\ ~ps[1].isParamEntity /\ Marcas(d, ps)
  /\ Sanas(ps, Abiertas(d)) /\ EsSecuencia(ev)
InvDoProlog == InvEstado(dtd, parsers, eventos)
Congela(d, d2, ev, ev2) == ~d.keepProcessing => ~d2.keepProcessing /\ Congelada(d, d2) /\ Prolonga(ev, ev2)
PasoBien == InvEstado(dtd', parsers', eventos') /\ Congela(dtd, dtd', eventos, eventos')

(* A token with its role is taken by the parser on top.                    *)
Situacion(r) == InvDoProlog /\ P.espera = <<>> /\ RolBien(P.prolog, r)
LeeBien(r, q) == Parecido(P, q) /\ q.espera = P.espera /\ q.prolog = r.state
MarcasTras(r, d, d2) ==
  \/ MismasMarcas(d, d2)
  \/ r.role # "NONE" /\ d2.standalone = d.standalone /\ d2.keepProcessing = d.standalone
  \/ r.role = "XML_DECL" /\ d2.keepProcessing = d.keepProcessing
DtdBien(r, d, d2) ==
  /\ InvDtd(d2) /\ Abiertas(d2) = Abiertas(d) /\ MarcasTras(r, d, d2)
  /\ ~d.keepProcessing => Congelada(d, d2)
EventosBien(d, ev, ev2) == EsSecuencia(ev2) /\ (~d.keepProcessing => Prolonga(ev, ev2))

(* keepProcessing goes on agreeing with standalone, and with the start.    *)
LEMMA MarcasQuedan ==
  ASSUME InvDoProlog, NEW r, RolBien(P.prolog, r), NEW d2, MarcasTras(r, dtd, d2), NEW q, q.prolog = r.state
  PROVE  /\ Marcas(d2, [parsers EXCEPT ![Len(parsers)] = q])
         /\ ~dtd.keepProcessing => ~d2.keepProcessing
<1> DEFINE n == Len(parsers)
           ps2 == [parsers EXCEPT ![n] = q]
<1>1. /\ n \in Nat /\ n # 0 /\ Len(ps2) = n /\ ps2[n] = q /\ \A i \in 1..n : i # n => ps2[i] = parsers[i]
  <2>1. EsSecuencia(parsers) /\ Len(parsers) # 0
    BY DEF InvDoProlog, InvEstado, Pila
  <2>2. n \in Nat
    BY <2>1, Agrega
  <2>3. n \in 1..n
    BY <2>1, <2>2
  <2> QED
    BY <2>1, <2>2, <2>3, Cambia
<1>2. /\ dtd.keepProcessing \in BOOLEAN /\ dtd.standalone \in BOOLEAN
      /\ ~dtd.keepProcessing => ~dtd.standalone
      /\ \A i \in 1..n : parsers[i].prolog.handler = "prolog0" => dtd.keepProcessing /\ n = 1
  BY DEF InvDoProlog, InvEstado, InvDtd, Marcas
<1>3. /\ r.state.handler = "prolog0" => parsers[n].prolog.handler = "prolog0" /\ r.role = "NONE"
      /\ r.role = "XML_DECL" => parsers[n].prolog.handler = "prolog0"
  BY DEF RolBien, P
<1> HIDE DEF ps2, n
<1>4. n \in 1..n
  BY <1>1
<1>5. (~dtd.keepProcessing => ~d2.keepProcessing) /\ (~d2.keepProcessing => ~d2.standalone)
  BY <1>2, <1>3, <1>4 DEF MarcasTras, MismasMarcas
<1>6. ASSUME NEW i \in 1..n, ps2[i].prolog.handler = "prolog0"
      PROVE  d2.keepProcessing /\ n = 1
  <2>1. CASE i # n
    <3>1. n = 1
      BY <1>1, <1>2, <1>6, <2>1
    <3>2. i = n
      BY <1>1, <3>1
    <3> QED
      BY <2>1, <3>2
  <2>2. CASE i = n
    <3>1. r.state.handler = "prolog0"
      BY <1>1, <1>6, <2>2
    <3>2. parsers[n].prolog.handler = "prolog0" /\ r.role = "NONE"
      BY <1>3, <3>1
    <3>3. dtd.keepProcessing /\ n = 1
      BY <1>2, <1>4, <3>2
    <3> QED
      BY <3>2, <3>3 DEF MarcasTras, MismasMarcas
  <2> QED
    BY <2>1, <2>2
<1> QED
  BY <1>1, <1>5, <1>6 DEF Marcas, ps2, n

(* The first parser is still that of the document.                         *)
LEMMA PrimeroQueda ==
  ASSUME InvDoProlog, NEW q, InvParser(q), q.isParamEntity = P.isParamEntity
  PROVE  LET ps2 == [parsers EXCEPT ![Len(parsers)] = q]
         IN  /\ Pila(ps2) /\ ~ps2[1].isParamEntity /\ Len(ps2) = Len(parsers) /\ Len(parsers) \in Nat
             /\ Len(parsers) # 0 /\ InvParser(P)
<1> DEFINE n == Len(parsers)
           ps2 == [parsers EXCEPT ![n] = q]
<1>1. Pila(parsers) /\ ~parsers[1].isParamEntity /\ n # 0
  BY DEF InvDoProlog, InvEstado, Pila
<1>2. /\ n \in Nat /\ n \in 1..n /\ Pila(ps2) /\ Len(ps2) = n /\ ps2[n] = q
      /\ (\A i \in 1..n : i # n => ps2[i] = parsers[i]) /\ InvParser(parsers[n])
  BY <1>1, CambiaPila
<1> HIDE DEF ps2
<1>3. ~ps2[1].isParamEntity
  BY <1>1, <1>2 DEF P
<1> QED
  BY <1>1, <1>2, <1>3 DEF ps2, P

(* A step of the parser on top keeps the invariant.                        *)
LEMMA PasoDeTope ==
  ASSUME InvDoProlog, NEW r, RolBien(P.prolog, r), NEW q, InvParser(q), q.isParamEntity = P.isParamEntity,
         q.prolog = r.state, Cambiar(q), InvDtd(dtd'), MarcasTras(r, dtd, dtd'),
         Sanas([parsers EXCEPT ![Len(parsers)] = q], Abiertas(dtd')),
         ~dtd.keepProcessing => Congelada(dtd, dtd'), EventosBien(dtd, eventos, eventos')
  PROVE  PasoBien
<1>1. parsers' = [parsers EXCEPT ![Len(parsers)] = q]
  BY DEF Cambiar
<1>2. Pila(parsers') /\ ~parsers'[1].isParamEntity
  BY <1>1, PrimeroQueda
<1>3. Marcas(dtd', parsers') /\ (~dtd.keepProcessing => ~dtd'.keepProcessing)
  BY <1>1, MarcasQuedan
<1>4. Sanas(parsers', Abiertas(dtd'))
  BY <1>1
<1> QED
  BY <1>2, <1>3, <1>4 DEF PasoBien, InvEstado, Congela, EventosBien

(* A step that opens and closes nothing keeps it.                          *)
LEMMA PasoComun ==
  ASSUME NEW r, Situacion(r), NEW q, LeeBien(r, q), Cambiar(q),
         DtdBien(r, dtd, dtd'), EventosBien(dtd, eventos, eventos')
  PROVE  PasoBien
<1>1. InvDoProlog /\ RolBien(P.prolog, r)
  BY DEF Situacion
<1>2. InvParser(q) /\ q.isParamEntity = P.isParamEntity /\ q.prolog = r.state
  BY DEF LeeBien, Parecido
<1>3. Sanas([parsers EXCEPT ![Len(parsers)] = q], Abiertas(dtd))
  <2>1. Pila(parsers) /\ Sanas(parsers, Abiertas(dtd))
    BY <1>1 DEF InvDoProlog, InvEstado
  <2> QED
    BY <2>1, ParecidoSano DEF LeeBien, P
<1>4. /\ InvDtd(dtd') /\ Abiertas(dtd') = Abiertas(dtd) /\ MarcasTras(r, dtd, dtd')
      /\ ~dtd.keepProcessing => Congelada(dtd, dtd')
  BY DEF DtdBien
<1> QED
  BY <1>1, <1>2, <1>3, <1>4, PasoDeTope

(* A step that leaves everything, like that of an error.                   *)
LEMMA PasoQuieto ==
  ASSUME InvDoProlog, UNCHANGED <<dtd, parsers, eventos>>
  PROVE  PasoBien
<1>1. dtd' = dtd /\ parsers' = parsers /\ eventos' = eventos
  OBVIOUS
<1>2. Congelada(dtd, dtd)
  BY DEF Congelada
<1>3. Prolonga(eventos, eventos)
  BY ProlongaMisma DEF InvDoProlog, InvEstado
<1> QED
  BY <1>1, <1>2, <1>3 DEF PasoBien, Congela, InvDoProlog

-----------------------------------------------------------------------------
(* A parser that differs from another in what the proofs do not look at.   *)
IgualParser(p, q) ==
  /\ CamposParser \subseteq DOMAIN q
  /\ q.prolog = p.prolog /\ q.textos = p.textos /\ q.espera = p.espera /\ q.isParamEntity = p.isParamEntity

(* The parser on top is one of the stack, and has a text.                  *)
LEMMA TopeBien ==
  ASSUME InvDoProlog
  PROVE  InvParser(P) /\ Len(P.textos) \in Nat /\ Len(P.textos) \in 1..Len(P.textos)
<1>1. Pila(parsers)
  BY DEF InvDoProlog, InvEstado
<1>2. InvParser(P)
  <2>1. Len(parsers) \in Nat
    BY <1>1, Agrega DEF Pila
  <2> QED
    BY <1>1, <2>1 DEF Pila, P
<1>3. Len(P.textos) \in Nat /\ Len(P.textos) # 0
  BY <1>2, Agrega DEF InvParser
<1> QED
  BY <1>2, <1>3

(* A text with other tokens left is the same text.                         *)
SonTextos(s) == EsSecuencia(s) /\ Len(s) # 0 /\ \A j \in 1..Len(s) : CamposTexto \subseteq DOMAIN s[j]
MismosTextos(s, s2) ==
  /\ SonTextos(s2) /\ Len(s2) = Len(s)
  /\ \A j \in 1..Len(s) : s2[j].entidad = s[j].entidad
ConResto(s, x) == [s EXCEPT ![Len(s)].resto = x]
(* What is left of the text on top is not part of what it is.              *)
LEMMA OtroResto ==
  ASSUME NEW s, SonTextos(s), NEW x
  PROVE  MismosTextos(s, ConResto(s, x))
<1> DEFINE n == Len(s)
           y == [s[n] EXCEPT !.resto = x]
           s2 == ConResto(s, x)
<1>1. s2 = [s EXCEPT ![n] = y]
  BY DEF ConResto
<1>0. EsSecuencia(s) /\ n # 0 /\ \A j \in 1..n : CamposTexto \subseteq DOMAIN s[j]
  BY DEF SonTextos
<1>2. n \in Nat /\ n \in 1..n
  <2>1. n \in Nat
    BY <1>0, Agrega
  <2> QED
    BY <1>0, <2>1
<1> HIDE DEF y, s2
<1>3. /\ EsSecuencia(s2) /\ Len(s2) = n /\ s2[n] = y /\ \A j \in 1..n : j # n => s2[j] = s[j]
  <2>1. EsSecuencia(s) /\ n \in 1..Len(s)
    BY <1>0, <1>2
  <2> HIDE DEF n
  <2>2. /\ EsSecuencia([s EXCEPT ![n] = y]) /\ Len([s EXCEPT ![n] = y]) = Len(s)
        /\ [s EXCEPT ![n] = y][n] = y /\ \A j \in 1..Len(s) : j # n => [s EXCEPT ![n] = y][j] = s[j]
    BY <2>1, Cambia
  <2> QED
    BY <1>1, <2>2 DEF n
<1>4. CamposTexto \subseteq DOMAIN y /\ y.entidad = s[n].entidad
  <2>1. CamposTexto \subseteq DOMAIN s[n]
    BY <1>0, <1>2
  <2> QED
    BY <2>1 DEF y, CamposTexto
<1>5. \A j \in 1..n : CamposTexto \subseteq DOMAIN s2[j] /\ s2[j].entidad = s[j].entidad
  BY <1>0, <1>3, <1>4
<1> QED
  BY <1>0, <1>3, <1>5 DEF s2, SonTextos, MismosTextos

(* Leido takes a token and leaves what the parser reads.                   *)
LEMMA LeidoBien ==
  ASSUME NEW r, Situacion(r), NEW t
  PROVE  LeeBien(r, Leido(t, r)) /\ InvParser(Leido(t, r)) /\ InvParser(P) /\ InvDoProlog
<1> DEFINE n == Len(P.textos)
           x == IF P.textos[n].resto = <<>> THEN P.textos[n].resto ELSE Tail(P.textos[n].resto)
           l == IF r.role = "ELEMENT_NAME" THEN <<>>
                ELSE IF r.role \in {"ELEMENT_NONE", "INNER_PARAM_ENTITY_REF"} /\ t.tok # "OR" THEN P.leidos
                ELSE Append(P.leidos, t)
           s2 == [P.textos EXCEPT ![n].resto = x]
           p == Leido(t, r)
<1>1. p = [P EXCEPT !.prolog = r.state, !.textos = s2, !.leidos = l]
  BY DEF Leido
<1>2. InvParser(P) /\ InvDoProlog /\ P.espera = <<>> /\ InvProlog(r.state)
  BY TopeBien DEF Situacion, RolBien
<1> HIDE DEF l, p, x
<1>3. SonTextos(P.textos) /\ s2 = ConResto(P.textos, x)
  BY <1>2 DEF InvParser, SonTextos, ConResto
<1>7. MismosTextos(P.textos, s2)
  BY <1>3, OtroResto
<1> HIDE DEF s2, n
<1>4. /\ CamposParser \subseteq DOMAIN p /\ p.prolog = r.state /\ p.textos = s2 /\ p.espera = P.espera
      /\ p.isParamEntity = P.isParamEntity
  BY <1>1, <1>2 DEF InvParser, CamposParser
<1>5. InvParser(p)
  BY <1>2, <1>7, <1>4 DEF InvParser, MismosTextos, SonTextos
<1>6. Parecido(P, p)
  BY <1>7, <1>4, <1>5 DEF Parecido, MismosTextos
<1> QED
  BY <1>2, <1>4, <1>5, <1>6 DEF LeeBien, p

(* What the parser keeps of a declaration is not of what it reads.         *)
LEMMA IgualBien ==
  ASSUME NEW r, NEW p, LeeBien(r, p), NEW q, IgualParser(p, q)
  PROVE  LeeBien(r, q)
BY DEF LeeBien, Parecido, IgualParser, InvParser

(* What is kept when nothing changes.                                      *)
LEMMA DtdQuieta ==
  ASSUME InvDoProlog, NEW r
  PROVE  DtdBien(r, dtd, dtd)
BY DEF InvDoProlog, InvEstado, DtdBien, MarcasTras, MismasMarcas, Congelada

(* A step that touches neither the entities nor the attributes.            *)
LEMMA DtdAjena ==
  ASSUME InvDoProlog, NEW r, NEW d2, Ajeno(dtd, d2), MismasMarcas(dtd, d2), ~dtd.keepProcessing => d2.atributos = dtd.atributos
  PROVE  DtdBien(r, dtd, d2)
<1>1. InvDtd(dtd)
  BY DEF InvDoProlog, InvEstado
<1>2. d2.keepProcessing \in BOOLEAN /\ d2.standalone \in BOOLEAN
  BY <1>1 DEF InvDtd, MismasMarcas
<1> QED
  BY <1>1, <1>2, OtroCampo DEF DtdBien, MarcasTras

(* No handler is called.                                                   *)
LEMMA EventosQuietos ==
  ASSUME InvDoProlog
  PROVE  EventosBien(dtd, eventos, eventos) /\ EsSecuencia(eventos)
BY ProlongaMisma DEF InvDoProlog, InvEstado, EventosBien

(* A handler is called that declares nothing, or may still declare.        *)
LEMMA AvisarBien ==
  ASSUME InvDoProlog, NEW h, NEW ev, Avisar(h, ev), ~dtd.keepProcessing => ev[1] \notin Declaran
  PROVE  EventosBien(dtd, eventos, eventos')
<1>1. EsSecuencia(eventos)
  BY EventosQuietos
<1>2. eventos' = eventos \/ eventos' = Append(eventos, ev)
  BY DEF Avisar
<1>3. CASE eventos' = eventos
  BY <1>3, EventosQuietos
<1>4. CASE eventos' = Append(eventos, ev)
  BY <1>1, <1>4, Agrega, ProlongaUno DEF EventosBien
<1> QED
  BY <1>2, <1>3, <1>4

-----------------------------------------------------------------------------
(* The operations.                                                         *)
LEMMA PasoNombreDelDoctype ==
  ASSUME NEW t, NEW r, Situacion(r), NombreDelDoctype(t, r)
  PROVE  PasoBien
<1> DEFINE p == Leido(t, r)
           x == IF Tiene("startDoctypeDecl") THEN t.val ELSE p.doctypeName
           q == [p EXCEPT !.doctypeName = x, !.doctypeSysid = Nada]
<1>1. LeeBien(r, p) /\ InvParser(p) /\ InvDoProlog
  BY LeidoBien
<1>2. Cambiar(q) /\ dtd' = dtd /\ eventos' = eventos
  BY DEF NombreDelDoctype
<1> HIDE DEF p, x
<1>3. IgualParser(p, q)
  BY <1>1 DEF InvParser, CamposParser, IgualParser
<1> HIDE DEF q
<1> QED
  BY <1>1, <1>2, <1>3, IgualBien, DtdQuieta, EventosQuietos, PasoComun

(* SubsetInterno keeps the invariant.                                      *)
LEMMA PasoSubsetInterno ==
  ASSUME NEW t, NEW r, Situacion(r), SubsetInterno(t, r)
  PROVE  PasoBien
<1> DEFINE p == Leido(t, r)
           q == [p EXCEPT !.doctypeName = Nada]
           ev == <<"startDoctypeDecl", P.doctypeName, P.doctypeSysid, P.doctypePubid, TRUE>>
<1>1. LeeBien(r, p) /\ InvParser(p) /\ InvDoProlog
  BY LeidoBien
<1>2. Cambiar(q) /\ dtd' = dtd /\ Avisar("startDoctypeDecl", ev)
  BY DEF SubsetInterno, StartDoctype
<1> HIDE DEF p
<1>3. IgualParser(p, q)
  BY <1>1 DEF InvParser, CamposParser, IgualParser
<1>4. ev[1] \notin Declaran
  BY DEF Declaran
<1> HIDE DEF q, ev
<1> QED
  BY <1>1, <1>2, <1>3, <1>4, IgualBien, DtdQuieta, AvisarBien, PasoComun

(* IdPublicoDelDoctype keeps it.                                           *)
LEMMA PasoIdPublicoDelDoctype ==
  ASSUME NEW t, NEW r, Situacion(r), IdPublicoDelDoctype(t, r)
  PROVE  PasoBien
<1>1. CASE UNCHANGED <<dtd, parsers, eventos>>
  BY <1>1, PasoQuieto DEF Situacion
<1> DEFINE p == Leido(t, r)
           x == IF Tiene("startDoctypeDecl") THEN normalizePublicId(t.val) ELSE p.doctypePubid
           q == [p EXCEPT !.useForeignDTD = FALSE, !.declEntity = externalSubset, !.doctypePubid = x]
           d1 == ConSubset(dtd)
           d == [d1 EXCEPT !.hasParamEntityRefs = TRUE]
           d2 == [d EXCEPT !.entidades[externalSubset].publicId = normalizePublicId(t.val)]
<1>2. CASE Cambiar(q) /\ dtd' = (IF d.keepProcessing THEN d2 ELSE d) /\ eventos' = eventos
  <2>1. LeeBien(r, p) /\ InvParser(p) /\ InvDoProlog
    BY LeidoBien
  <2> HIDE DEF p, x
  <2>2. IgualParser(p, q)
    BY <2>1 DEF InvParser, CamposParser, IgualParser
  <2>3. InvDtd(dtd)
    BY <2>1 DEF InvDoProlog, InvEstado
  <2>4. MismaDtd(dtd, d1) /\ Congelada(dtd, d1)
    BY <2>3, ConSubsetInv, CrecioCongelada
  <2> HIDE DEF d1
  <2>5. Ajeno(d1, d) /\ MismasMarcas(d1, d) /\ d.atributos = d1.atributos /\ InvDtd(d1)
        /\ d.keepProcessing \in BOOLEAN /\ d.standalone \in BOOLEAN
    BY <2>4 DEF Ajeno, MismasMarcas, MismaDtd, InvDtd, CamposDtd
  <2> HIDE DEF d
  <2>6. InvDtd(d) /\ Abiertas(d) = Abiertas(d1) /\ Congelada(d1, d)
    BY <2>5, OtroCampo
  <2>7. MismaDtd(dtd, d) /\ Congelada(dtd, d)
    BY <2>4, <2>5, <2>6, CongeladaLuego DEF MismaDtd, MismasMarcas
  <2>8. MismaDtd(d, d2) /\ Congelada(d, d2)
    <3>1. "publicId" \in CamposEntidad \ {"open"}
      BY DEF CamposEntidad
    <3> QED
      BY <2>6, <3>1, CampoDeEntidad
  <2> HIDE DEF d2
  <2>9. MismaDtd(dtd, dtd') /\ Congelada(dtd, dtd')
    BY <1>2, <2>7, <2>8, CongeladaLuego DEF MismaDtd, MismasMarcas
  <2>10. DtdBien(r, dtd, dtd')
    BY <2>9 DEF DtdBien, MismaDtd, MarcasTras
  <2> HIDE DEF q
  <2> QED
    BY <1>2, <2>1, <2>2, <2>10, IgualBien, EventosQuietos, PasoComun
<1> QED
  BY <1>1, <1>2 DEF IdPublicoDelDoctype, Error

(* IdDeSistemaDelDoctype keeps it.                                         *)
LEMMA PasoIdDeSistemaDelDoctype ==
  ASSUME NEW t, NEW r, Situacion(r), IdDeSistemaDelDoctype(t, r)
  PROVE  PasoBien
<1>1. CASE UNCHANGED <<dtd, parsers, eventos>>
  BY <1>1, PasoQuieto DEF Situacion
<1> DEFINE p == Leido(t, r)
           x == IF Tiene("startDoctypeDecl") THEN t.val ELSE "#"
           q1 == [p EXCEPT !.useForeignDTD = FALSE, !.doctypeSysid = x]
           q == [q1 EXCEPT !.declEntity = externalSubset]
           d == [dtd EXCEPT !.hasParamEntityRefs = TRUE]
           d1 == ConSubset(d)
           nd == IF P.declEntity # <<>> THEN d
                 ELSE [d1 EXCEPT !.entidades[externalSubset].publicId = <<>>]
           d2 == [nd EXCEPT !.entidades[externalSubset].systemId = t.val]
<1>2. CASE Cambiar(q) /\ dtd' = (IF d.keepProcessing THEN d2 ELSE nd) /\ eventos' = eventos
  <2>1. LeeBien(r, p) /\ InvParser(p) /\ InvDoProlog
    BY LeidoBien
  <2> HIDE DEF p, x
  <2>2. IgualParser(p, q)
    BY <2>1 DEF InvParser, CamposParser, IgualParser
  <2>3. InvDtd(dtd)
    BY <2>1 DEF InvDoProlog, InvEstado
  <2>4. Ajeno(dtd, d) /\ MismasMarcas(dtd, d) /\ d.atributos = dtd.atributos
        /\ d.keepProcessing \in BOOLEAN /\ d.standalone \in BOOLEAN
    BY <2>3 DEF Ajeno, MismasMarcas, InvDtd, CamposDtd
  <2> HIDE DEF d
  <2>5. MismaDtd(dtd, d) /\ Congelada(dtd, d)
    BY <2>3, <2>4, OtroCampo DEF MismaDtd
  <2>6. MismaDtd(d, d1) /\ Congelada(d, d1) /\ InvDtd(d1)
    BY <2>5, ConSubsetInv, CrecioCongelada DEF MismaDtd
  <2> HIDE DEF d1
  <2> DEFINE d3 == [d1 EXCEPT !.entidades[externalSubset].publicId = <<>>]
  <2>7. MismaDtd(d1, d3) /\ Congelada(d1, d3)
    <3>1. "publicId" \in CamposEntidad \ {"open"}
      BY DEF CamposEntidad
    <3> QED
      BY <2>6, <3>1, CampoDeEntidad
  <2>8. nd = d \/ nd = d3
    OBVIOUS
  <2> HIDE DEF d3, nd
  <2>9. MismaDtd(dtd, nd) /\ Congelada(dtd, nd)
    <3>1. MismaDtd(dtd, d3) /\ Congelada(dtd, d3)
      BY <2>5, <2>6, <2>7, CongeladaLuego DEF MismaDtd, MismasMarcas
    <3> QED
      BY <2>5, <2>8, <3>1
  <2>10. MismaDtd(nd, d2)
    <3>1. "systemId" \in CamposEntidad \ {"open"}
      BY DEF CamposEntidad
    <3>2. InvDtd(nd)
      BY <2>9 DEF MismaDtd
    <3> QED
      BY <3>1, <3>2, CampoDeEntidad
  <2> HIDE DEF d2
  <2>11. MismaDtd(dtd, dtd') /\ (~dtd.keepProcessing => Congelada(dtd, dtd'))
    <3>1. d.keepProcessing <=> dtd.keepProcessing
      BY <2>4 DEF MismasMarcas
    <3> QED
      BY <1>2, <2>9, <2>10, <3>1 DEF MismaDtd, MismasMarcas
  <2>12. DtdBien(r, dtd, dtd')
    BY <2>11 DEF DtdBien, MismaDtd, MarcasTras
  <2> HIDE DEF q
  <2> QED
    BY <1>2, <2>1, <2>2, <2>12, IgualBien, EventosQuietos, PasoComun
<1> QED
  BY <1>1, <1>2 DEF IdDeSistemaDelDoctype, Error

-----------------------------------------------------------------------------
(* NombresDeAtributo keeps it.                                             *)
LEMMA PasoNombresDeAtributo ==
  ASSUME NEW t, NEW r, Situacion(r), NombresDeAtributo(t, r)
  PROVE  PasoBien
<1> DEFINE p == Leido(t, r)
           q1 == [p EXCEPT !.declElementType = t.val]
           q2 == [p EXCEPT !.declAttributeId = t.val, !.declAttributeIsCdata = FALSE,
                           !.declAttributeIsId = FALSE, !.declAttributeType = <<>>]
           q == IF r.role = "ATTLIST_ELEMENT_NAME" THEN q1 ELSE q2
<1>1. LeeBien(r, p) /\ InvParser(p) /\ InvDoProlog
  BY LeidoBien
<1>2. Cambiar(q) /\ dtd' = dtd /\ eventos' = eventos
  BY DEF NombresDeAtributo
<1> HIDE DEF p
<1>3. IgualParser(p, q1) /\ IgualParser(p, q2)
  BY <1>1 DEF InvParser, CamposParser, IgualParser
<1>4. q = q1 \/ q = q2
  OBVIOUS
<1> HIDE DEF q, q1, q2
<1> QED
  BY <1>1, <1>2, <1>3, <1>4, IgualBien, DtdQuieta, EventosQuietos, PasoComun

(* TipoDeAtributo keeps it.                                                *)
LEMMA PasoTipoDeAtributo ==
  ASSUME NEW t, NEW r, Situacion(r), TipoDeAtributo(t, r)
  PROVE  PasoBien
<1> DEFINE p == Leido(t, r)
           prefix == IF P.declAttributeType # <<>> THEN "|"
                     ELSE IF r.role = "ATTRIBUTE_NOTATION_VALUE" THEN "NOTATION(" ELSE "("
           esCdata == p.declAttributeIsCdata \/ t.txt = "CDATA"
           esId == p.declAttributeIsId \/ t.txt = "ID"
           mas == p.tempPool \o <<prefix, t.val>>
           tipo == P.tempPool \o <<prefix, t.val>>
           q1 == [p EXCEPT !.declAttributeType = <<t.txt>>, !.declAttributeIsCdata = esCdata,
                           !.declAttributeIsId = esId]
           q2 == [p EXCEPT !.tempPool = mas, !.declAttributeType = tipo]
<1>1. LeeBien(r, p) /\ InvParser(p) /\ InvDoProlog
  BY LeidoBien
<1>2. (Cambiar(q1) \/ Cambiar(p) \/ Cambiar(q2)) /\ dtd' = dtd /\ eventos' = eventos
  BY DEF TipoDeAtributo
<1> HIDE DEF p, esCdata, esId, mas, tipo, prefix
<1>3. IgualParser(p, q1) /\ IgualParser(p, q2)
  BY <1>1 DEF InvParser, CamposParser, IgualParser
<1> HIDE DEF q1, q2
<1> QED
  BY <1>1, <1>2, <1>3, IgualBien, DtdQuieta, EventosQuietos, PasoComun

(* ValorDeAtributo keeps it.                                               *)
LEMMA PasoValorDeAtributo ==
  ASSUME NEW t, NEW r, Situacion(r), ValorDeAtributo(t, r)
  PROVE  PasoBien
<1>0. CASE UNCHANGED <<dtd, parsers, eventos>>
  BY <1>0, PasoQuieto DEF Situacion
<1> SUFFICES ASSUME ~ UNCHANGED <<dtd, parsers, eventos>>
             PROVE  PasoBien
  BY <1>0
<1> DEFINE p == Leido(t, r)
           q == [p EXCEPT !.tempPool = <<>>]
<1>1. LeeBien(r, p) /\ InvParser(p) /\ InvDoProlog /\ InvDtd(dtd)
  BY LeidoBien DEF InvDoProlog, InvEstado
<1>2. Cambiar(p) \/ Cambiar(q)
  BY DEF ValorDeAtributo, Error
<1>3. \/ dtd' = dtd /\ eventos' = eventos
      \/ /\ dtd.keepProcessing
         /\ \E x : dtd' = [dtd EXCEPT !.atributos = x]
         /\ \E ev : eventos' = eventos \/ eventos' = Append(eventos, ev)
  BY DEF ValorDeAtributo, Error
<1> HIDE DEF p
<1>4. IgualParser(p, q)
  BY <1>1 DEF InvParser, CamposParser, IgualParser
<1>5. DtdBien(r, dtd, dtd')
  <2>1. CASE dtd' = dtd
    BY <1>1, <2>1, DtdQuieta
  <2>2. ASSUME dtd.keepProcessing, NEW x, dtd' = [dtd EXCEPT !.atributos = x] PROVE DtdBien(r, dtd, dtd')
    <3>1. Ajeno(dtd, dtd') /\ MismasMarcas(dtd, dtd')
      BY <1>1, <2>2 DEF InvDtd, CamposDtd, Ajeno, MismasMarcas
    <3> QED
      BY <1>1, <2>2, <3>1, DtdAjena
  <2> QED
    BY <1>3, <2>1, <2>2
<1>6. EventosBien(dtd, eventos, eventos')
  <2>1. CASE eventos' = eventos
    BY <1>1, <2>1, EventosQuietos
  <2>2. ASSUME dtd.keepProcessing, NEW ev, eventos' = Append(eventos, ev) PROVE EventosBien(dtd, eventos, eventos')
    BY <1>1, <2>2, EventosQuietos, Agrega DEF EventosBien
  <2> QED
    BY <1>3, <2>1, <2>2
<1> HIDE DEF q
<1> QED
  BY <1>1, <1>2, <1>4, <1>5, <1>6, IgualBien, PasoComun

(* Notacion keeps it.                                                      *)
LEMMA PasoNotacion ==
  ASSUME NEW t, NEW r, Situacion(r), Notacion(t, r)
  PROVE  PasoBien
<1>1. CASE UNCHANGED <<dtd, parsers, eventos>>
  BY <1>1, PasoQuieto DEF Situacion
<1> DEFINE p == Leido(t, r)
           limpio == [p EXCEPT !.tempPool = <<>>]
           q1 == [p EXCEPT !.declNotationPublicId = Nada, !.declNotationName = <<>>]
           q2 == [limpio EXCEPT !.declNotationPublicId = Nada, !.declNotationName = Append(P.tempPool, t.val)]
           q3 == [limpio EXCEPT !.declNotationPublicId = normalizePublicId(t.val)]
           ev == <<"notationDecl", P.declNotationName, IF r.role = "NOTATION_SYSTEM_ID" THEN t.val ELSE Nada,
                   P.declNotationPublicId>>
<1>2. CASE /\ Cambiar(p) \/ Cambiar(limpio) \/ Cambiar(q1) \/ Cambiar(q2) \/ Cambiar(q3)
           /\ dtd' = dtd /\ (eventos' = eventos \/ eventos' = Append(eventos, ev))
  <2>1. LeeBien(r, p) /\ InvParser(p) /\ InvDoProlog
    BY LeidoBien
  <2> HIDE DEF p
  <2>2. IgualParser(p, limpio) /\ IgualParser(p, q1) /\ IgualParser(p, q2) /\ IgualParser(p, q3)
    <3> DEFINE a == Append(P.tempPool, t.val)
               b == normalizePublicId(t.val)
    <3>1. q2 = [limpio EXCEPT !.declNotationPublicId = Nada, !.declNotationName = a]
          /\ q3 = [limpio EXCEPT !.declNotationPublicId = b]
      OBVIOUS
    <3> HIDE DEF a, b, q2, q3
    <3>2. IgualParser(p, limpio) /\ IgualParser(p, q1)
      BY <2>1 DEF InvParser, CamposParser, IgualParser
    <3> HIDE DEF limpio, q1
    <3> QED
      BY <3>1, <3>2 DEF InvParser, CamposParser, IgualParser
  <2>3. ev[1] \notin Declaran
    BY DEF Declaran
  <2> HIDE DEF ev, q1, q2, q3, limpio
  <2>4. EventosBien(dtd, eventos, eventos')
    <3>1. EventosBien(dtd, eventos, eventos) /\ EsSecuencia(eventos)
      BY <2>1, EventosQuietos
    <3>2. EventosBien(dtd, eventos, Append(eventos, ev))
      BY <2>3, <3>1, Agrega, ProlongaUno DEF EventosBien
    <3> QED
      BY <1>2, <3>1, <3>2
  <2> QED
    BY <1>2, <2>1, <2>2, <2>4, IgualBien, DtdQuieta, PasoComun
<1> QED
  BY <1>1, <1>2 DEF Notacion, Error

(* ComentarioOInstruccion keeps it.                                        *)
LEMMA PasoComentarioOInstruccion ==
  ASSUME NEW t, NEW r, Situacion(r), ComentarioOInstruccion(t, r)
  PROVE  PasoBien
<1> DEFINE p == Leido(t, r)
           q == [p EXCEPT !.tempPool = <<>>]
           h == IF r.role = "PI" THEN "processingInstruction" ELSE "comment"
           ev == <<h, Append(P.tempPool, t.val)>>
<1>1. LeeBien(r, p) /\ InvParser(p) /\ InvDoProlog
  BY LeidoBien
<1>2. (Cambiar(p) \/ Cambiar(q)) /\ dtd' = dtd /\ Avisar(h, ev)
  BY DEF ComentarioOInstruccion
<1> HIDE DEF p
<1>3. IgualParser(p, q)
  BY <1>1 DEF InvParser, CamposParser, IgualParser
<1>4. ev[1] \notin Declaran
  BY DEF Declaran
<1> HIDE DEF q, ev, h
<1> QED
  BY <1>1, <1>2, <1>3, <1>4, IgualBien, DtdQuieta, AvisarBien, PasoComun

(* DeclaracionXml keeps it.                                                *)
LEMMA PasoDeclaracionXml ==
  ASSUME NEW t, NEW r, Situacion(r), DeclaracionXml(t, r)
  PROVE  PasoBien
<1> DEFINE p == Leido(t, r)
           q == [p EXCEPT !.paramEntityParsing = "NEVER"]
           d2 == [dtd EXCEPT !.standalone = TRUE]
<1>1. LeeBien(r, p) /\ InvParser(p) /\ InvDoProlog /\ InvDtd(dtd) /\ Marcas(dtd, parsers)
  BY LeidoBien DEF InvDoProlog, InvEstado
<1>2. (Cambiar(p) \/ Cambiar(q)) /\ (dtd' = dtd \/ (r.role = "XML_DECL" /\ dtd' = d2)) /\ eventos' = eventos
  BY DEF DeclaracionXml
<1> HIDE DEF p
<1>3. IgualParser(p, q)
  BY <1>1 DEF InvParser, CamposParser, IgualParser
<1>4. ASSUME r.role = "XML_DECL" PROVE DtdBien(r, dtd, d2)
  <2>1. Ajeno(dtd, d2) /\ d2.atributos = dtd.atributos /\ d2.keepProcessing = dtd.keepProcessing /\ d2.standalone = TRUE
    BY <1>1 DEF InvDtd, CamposDtd, Ajeno
  <2> HIDE DEF d2
  <2>2. d2.keepProcessing \in BOOLEAN /\ d2.standalone \in BOOLEAN
    BY <1>1, <2>1 DEF InvDtd
  <2>3. InvDtd(d2) /\ Abiertas(d2) = Abiertas(dtd) /\ Congelada(dtd, d2)
    BY <1>1, <2>1, <2>2, OtroCampo
  <2> QED
    BY <1>4, <2>1, <2>3 DEF DtdBien, MarcasTras
<1> HIDE DEF q, d2
<1> QED
  BY <1>1, <1>2, <1>3, <1>4, IgualBien, DtdQuieta, EventosQuietos, PasoComun

(* SeccionIgnorada keeps it.                                               *)
LEMMA PasoSeccionIgnorada ==
  ASSUME NEW t, NEW r, Situacion(r), SeccionIgnorada(t, r)
  PROVE  PasoBien
<1>1. CASE UNCHANGED <<dtd, parsers, eventos>>
  BY <1>1, PasoQuieto DEF Situacion
<1> DEFINE p == Leido(t, r)
<1>2. ASSUME NEW x, Cambiar([p EXCEPT !.textos[Len(p.textos)].resto = x]), dtd' = dtd, eventos' = eventos
      PROVE  PasoBien
  <2>1. LeeBien(r, p) /\ InvParser(p) /\ InvDoProlog
    BY LeidoBien
  <2> HIDE DEF p
  <2> DEFINE s == p.textos
             s2 == [s EXCEPT ![Len(s)].resto = x]
             q == [p EXCEPT !.textos = s2]
  <2>2. Cambiar(q)
    BY <1>2
  <2>3. SonTextos(s)
    BY <2>1 DEF InvParser, SonTextos
  <2>4. MismosTextos(s, s2)
    <3>1. s2 = ConResto(s, x)
      BY DEF ConResto
    <3> QED
      BY <2>3, <3>1, OtroResto
  <2> HIDE DEF s, s2
  <2>5. /\ CamposParser \subseteq DOMAIN q /\ q.prolog = p.prolog /\ q.textos = s2 /\ q.espera = p.espera
        /\ q.isParamEntity = p.isParamEntity
    BY <2>1 DEF InvParser, CamposParser
  <2> HIDE DEF q
  <2>6. InvParser(q)
    BY <2>1, <2>4, <2>5 DEF InvParser, MismosTextos, SonTextos
  <2>7. LeeBien(r, q)
    BY <2>1, <2>4, <2>5, <2>6 DEF LeeBien, Parecido, MismosTextos, s
  <2> QED
    BY <1>2, <2>1, <2>2, <2>7, DtdQuieta, EventosQuietos, PasoComun
<1> QED
  BY <1>1, <1>2 DEF SeccionIgnorada, Error

(* RolSinEfecto keeps it.                                                  *)
LEMMA PasoRolSinEfecto ==
  ASSUME NEW t, NEW r, Situacion(r), RolSinEfecto(t, r)
  PROVE  PasoBien
<1>1. Cambiar(Leido(t, r)) /\ dtd' = dtd /\ eventos' = eventos
  BY DEF RolSinEfecto
<1> QED
  BY <1>1, LeidoBien, DtdQuieta, EventosQuietos, PasoComun

(* RolError keeps it.                                                      *)
LEMMA PasoRolError ==
  ASSUME NEW t, NEW r, Situacion(r), RolError(t, r)
  PROVE  PasoBien
<1>1. UNCHANGED <<dtd, parsers, eventos>>
  BY DEF RolError, Error
<1> QED
  BY <1>1, PasoQuieto DEF Situacion

-----------------------------------------------------------------------------
(* The declaration of an entity.                                           *)
LEMMA PasoNombreDeEntidad ==
  ASSUME NEW t, NEW r, Situacion(r), NombreDeEntidad(t, r)
  PROVE  PasoBien
<1> DEFINE p == Leido(t, r)
           param == r.role = "PARAM_ENTITY_NAME"
           tabla == IF param THEN "param" ELSE "general"
           e == <<tabla, t.val>>
           x == IF CuentaNombre(e) THEN e ELSE <<>>
           q == [p EXCEPT !.declEntity = x]
           nueva == EntidadNueva(param, Len(parsers) = 1 /\ EnPropio)
           d2 == Agregar(dtd, e, nueva)
<1>1. LeeBien(r, p) /\ InvParser(p) /\ InvDoProlog /\ InvDtd(dtd)
  BY LeidoBien DEF InvDoProlog, InvEstado
<1>2. Cambiar(q) /\ dtd' = (IF CuentaNombre(e) THEN d2 ELSE dtd) /\ eventos' = eventos
  BY DEF NombreDeEntidad
<1> HIDE DEF p, x
<1>3. IgualParser(p, q)
  BY <1>1 DEF InvParser, CamposParser, IgualParser
<1>4. Crecio(dtd, d2, e)
  <2>1. EsEntidad(nueva) /\ nueva.open = FALSE
    BY EntidadNuevaEs
  <2>2. tabla \in {"param", "general"}
    OBVIOUS
  <2> HIDE DEF nueva, tabla
  <2> QED
    BY <1>1, <2>1, <2>2, AgregarEntidad
<1> HIDE DEF d2, q, e
<1>5. CuentaNombre(e) => dtd.keepProcessing
  BY DEF CuentaNombre
<1>6. DtdBien(r, dtd, dtd')
  <2>1. CASE CuentaNombre(e)
    BY <1>2, <1>4, <1>5, <2>1 DEF DtdBien, Crecio, MarcasTras, MismasMarcas
  <2>2. CASE ~CuentaNombre(e)
    BY <1>1, <1>2, <2>2, DtdQuieta
  <2> QED
    BY <2>1, <2>2
<1> QED
  BY <1>1, <1>2, <1>3, <1>6, IgualBien, EventosQuietos, PasoComun

(* IdPublicoDeEntidad keeps it.                                            *)
LEMMA PasoIdPublicoDeEntidad ==
  ASSUME NEW t, NEW r, Situacion(r), IdPublicoDeEntidad(t, r)
  PROVE  PasoBien
<1>1. CASE UNCHANGED <<dtd, parsers, eventos>>
  BY <1>1, PasoQuieto DEF Situacion
<1> DEFINE p == Leido(t, r)
           d2 == [dtd EXCEPT !.entidades[p.declEntity].publicId = normalizePublicId(t.val)]
<1>2. CASE Cambiar(p) /\ (dtd' = dtd \/ dtd' = d2) /\ eventos' = eventos
  <2>1. LeeBien(r, p) /\ InvParser(p) /\ InvDoProlog /\ InvDtd(dtd)
    BY LeidoBien DEF InvDoProlog, InvEstado
  <2> HIDE DEF p
  <2>2. MismaDtd(dtd, d2) /\ Congelada(dtd, d2)
    <3>1. "publicId" \in CamposEntidad \ {"open"}
      BY DEF CamposEntidad
    <3> QED
      BY <2>1, <3>1, CampoDeEntidad
  <2> HIDE DEF d2
  <2>3. DtdBien(r, dtd, d2)
    BY <2>2 DEF DtdBien, MismaDtd, MarcasTras
  <2> QED
    BY <1>2, <2>1, <2>3, DtdQuieta, EventosQuietos, PasoComun
<1> QED
  BY <1>1, <1>2 DEF IdPublicoDeEntidad, Error

(* IdDeSistemaDeEntidad keeps it.                                          *)
LEMMA PasoIdDeSistemaDeEntidad ==
  ASSUME NEW t, NEW r, Situacion(r), IdDeSistemaDeEntidad(t, r)
  PROVE  PasoBien
<1> DEFINE p == Leido(t, r)
           d2 == [dtd EXCEPT !.entidades[P.declEntity].systemId = t.val]
<1>1. Cambiar(p) /\ (dtd' = dtd \/ (dtd.keepProcessing /\ dtd' = d2)) /\ eventos' = eventos
  BY DEF IdDeSistemaDeEntidad
<1>2. LeeBien(r, p) /\ InvParser(p) /\ InvDoProlog /\ InvDtd(dtd)
  BY LeidoBien DEF InvDoProlog, InvEstado
<1> HIDE DEF p
<1>3. MismaDtd(dtd, d2)
  <2>1. "systemId" \in CamposEntidad \ {"open"}
    BY DEF CamposEntidad
  <2> QED
    BY <1>2, <2>1, CampoDeEntidad
<1> HIDE DEF d2
<1>4. dtd.keepProcessing => DtdBien(r, dtd, d2)
  BY <1>3 DEF DtdBien, MismaDtd, MarcasTras
<1> QED
  BY <1>1, <1>2, <1>4, DtdQuieta, EventosQuietos, PasoComun

(* FinDeEntidad keeps it.                                                  *)
LEMMA PasoFinDeEntidad ==
  ASSUME NEW t, NEW r, Situacion(r), FinDeEntidad(t, r)
  PROVE  PasoBien
<1> DEFINE p == Leido(t, r)
           d2 == [dtd EXCEPT !.entidades[P.declEntity].notation = t.val]
<1>1. Cambiar(p) /\ (dtd' = dtd \/ (dtd.keepProcessing /\ dtd' = d2))
  BY DEF FinDeEntidad
<1>2. eventos' = eventos \/ (dtd.keepProcessing /\ \E h, ev : Avisar(h, ev))
  <2>1. CASE dtd.keepProcessing /\ P.declEntity # <<>>
    BY <2>1 DEF FinDeEntidad
  <2>2. CASE ~(dtd.keepProcessing /\ P.declEntity # <<>>)
    BY <2>2 DEF FinDeEntidad
  <2> QED
    BY <2>1, <2>2
<1>3. LeeBien(r, p) /\ InvParser(p) /\ InvDoProlog /\ InvDtd(dtd)
  BY LeidoBien DEF InvDoProlog, InvEstado
<1> HIDE DEF p
<1>4. MismaDtd(dtd, d2)
  <2>1. "notation" \in CamposEntidad \ {"open"}
    BY DEF CamposEntidad
  <2> QED
    BY <1>3, <2>1, CampoDeEntidad
<1> HIDE DEF d2
<1>5. DtdBien(r, dtd, dtd')
  <2>1. dtd.keepProcessing => DtdBien(r, dtd, d2)
    BY <1>4 DEF DtdBien, MismaDtd, MarcasTras
  <2> QED
    BY <1>1, <1>3, <2>1, DtdQuieta
<1>6. EventosBien(dtd, eventos, eventos')
  BY <1>2, <1>3, AvisarBien, EventosQuietos
<1> QED
  BY <1>1, <1>3, <1>5, <1>6, PasoComun

(* The value of an entity leaves the entities as they were, and may stop   *)
(* the declarations from counting.                                         *)
Lee(d, d2) ==
  /\ Ajeno(d, d2) /\ d2.standalone = d.standalone /\ d2.atributos = d.atributos
  /\ d2.keepProcessing = d.keepProcessing \/ d2.keepProcessing = d.standalone
(* storeEntityValue changes two marks and nothing else.                    *)
LEMMA ValorBien ==
  ASSUME NEW d, InvDtd(d), NEW piezas, NEW interno
  PROVE  Lee(d, storeEntityValue(d, piezas, interno).dtd)
<1>1. \A x, y : Lee(d, [d EXCEPT !.paramEntityRead = x, !.keepProcessing = IF y THEN d.standalone ELSE @])
  BY DEF InvDtd, CamposDtd, Lee, Ajeno
<1>2. \E x, y : storeEntityValue(d, piezas, interno).dtd
                = [d EXCEPT !.paramEntityRead = x, !.keepProcessing = IF y THEN d.standalone ELSE @]
  BY DEF storeEntityValue
<1> QED
  BY <1>1, <1>2

(* ValorDeEntidad keeps it.                                                *)
LEMMA PasoValorDeEntidad ==
  ASSUME NEW t, NEW r, Situacion(r), ValorDeEntidad(t, r)
  PROVE  PasoBien
<1> DEFINE p == Leido(t, r)
           v == storeEntityValue(dtd, t.val, P.isParamEntity \/ ~EnPropio)
           e == P.declEntity
           d1 == v.dtd
           d2 == [d1 EXCEPT !.entidades[e].textPtr = v.valor]
           d3 == [d2 EXCEPT !.entidades[e].tieneTexto = TRUE]
<1>1. Cambiar(p) /\ r.role = "ENTITY_VALUE"
  BY DEF ValorDeEntidad
<1>2. \/ dtd' = dtd /\ eventos' = eventos
      \/ dtd.keepProcessing /\ (dtd' = d1 \/ dtd' = d3) /\ (eventos' = eventos \/ \E h, ev : Avisar(h, ev))
  <2>1. CASE ~dtd.keepProcessing
    BY <2>1 DEF ValorDeEntidad
  <2>2. CASE dtd.keepProcessing /\ e = <<>>
    BY <2>2 DEF ValorDeEntidad
  <2>3. CASE dtd.keepProcessing /\ e # <<>>
    BY <2>3 DEF ValorDeEntidad
  <2> QED
    BY <2>1, <2>2, <2>3
<1>3. LeeBien(r, p) /\ InvParser(p) /\ InvDoProlog /\ InvDtd(dtd)
  BY LeidoBien DEF InvDoProlog, InvEstado
<1>4. Lee(dtd, d1)
  BY <1>3, ValorBien
<1> HIDE DEF p, d1, v, e
<1>5. InvDtd(d1) /\ Abiertas(d1) = Abiertas(dtd)
  <2>1. d1.keepProcessing \in BOOLEAN /\ d1.standalone \in BOOLEAN
    BY <1>3, <1>4 DEF Lee, InvDtd
  <2> QED
    BY <1>3, <1>4, <2>1, OtroCampo DEF Lee
<1>6. MismaDtd(d1, d2) /\ InvDtd(d2)
  <2>1. "textPtr" \in CamposEntidad \ {"open"}
    BY DEF CamposEntidad
  <2>2. MismaDtd(d1, d2)
    BY <1>5, <2>1, CampoDeEntidad
  <2> QED
    BY <2>2 DEF MismaDtd
<1> HIDE DEF d2
<1>7. MismaDtd(d2, d3)
  <2>1. "tieneTexto" \in CamposEntidad \ {"open"}
    BY DEF CamposEntidad
  <2> QED
    BY <1>6, <2>1, CampoDeEntidad
<1> HIDE DEF d3
<1>8. dtd.keepProcessing => DtdBien(r, dtd, d1) /\ DtdBien(r, dtd, d3)
  <2>1. r.role # "NONE"
    BY <1>1
  <2>2. MarcasTras(r, dtd, d1)
    BY <1>4, <2>1 DEF Lee, MarcasTras, MismasMarcas
  <2>3. MarcasTras(r, dtd, d3)
    BY <1>6, <1>7, <2>2 DEF MismaDtd, MarcasTras, MismasMarcas
  <2> QED
    BY <1>5, <1>6, <1>7, <2>2, <2>3 DEF DtdBien, MismaDtd
<1>9. DtdBien(r, dtd, dtd')
  BY <1>2, <1>3, <1>8, DtdQuieta
<1>10. EventosBien(dtd, eventos, eventos')
  BY <1>2, <1>3, AvisarBien, EventosQuietos
<1> QED
  BY <1>1, <1>3, <1>9, <1>10, PasoComun

-----------------------------------------------------------------------------
(* The declaration of an element: what it changes of the DTD is its model. *)
LEMMA PasoNombreDeElemento ==
  ASSUME NEW t, NEW r, Situacion(r), NombreDeElemento(t, r)
  PROVE  PasoBien
<1> DEFINE p == Leido(t, r)
           q == [p EXCEPT !.declElementType = t.val]
           d2 == [dtd EXCEPT !.scaffold = <<>>, !.scaffIndex = <<>>, !.in_eldecl = TRUE]
<1>1. LeeBien(r, p) /\ InvParser(p) /\ InvDoProlog /\ InvDtd(dtd)
  BY LeidoBien DEF InvDoProlog, InvEstado
<1>2. (Cambiar(p) \/ Cambiar(q)) /\ (dtd' = dtd \/ dtd' = d2) /\ eventos' = eventos
  BY DEF NombreDeElemento
<1> HIDE DEF p
<1>3. IgualParser(p, q)
  BY <1>1 DEF InvParser, CamposParser, IgualParser
<1>4. Ajeno(dtd, d2) /\ MismasMarcas(dtd, d2) /\ d2.atributos = dtd.atributos
  BY <1>1 DEF InvDtd, CamposDtd, Ajeno, MismasMarcas
<1> HIDE DEF q, d2
<1> QED
  BY <1>1, <1>2, <1>3, <1>4, IgualBien, DtdQuieta, DtdAjena, EventosQuietos, PasoComun

(* ContenidoSimple keeps it.                                               *)
LEMMA PasoContenidoSimple ==
  ASSUME NEW t, NEW r, Situacion(r), ContenidoSimple(t, r)
  PROVE  PasoBien
<1> DEFINE p == Leido(t, r)
           d2 == [dtd EXCEPT !.in_eldecl = FALSE]
           type == IF r.role = "CONTENT_ANY" THEN "ANY" ELSE "EMPTY"
           ev == <<"elementDecl", p.declElementType, [type |-> type, quant |-> "", name |-> Nada, children |-> <<>>], p.leidos>>
<1>1. LeeBien(r, p) /\ InvParser(p) /\ InvDoProlog /\ InvDtd(dtd)
  BY LeidoBien DEF InvDoProlog, InvEstado
<1>2. Cambiar(p) /\ dtd' = d2 /\ (eventos' = eventos \/ Avisar("elementDecl", ev))
  BY DEF ContenidoSimple, ElementDecl
<1> HIDE DEF p
<1>3. Ajeno(dtd, d2) /\ MismasMarcas(dtd, d2) /\ d2.atributos = dtd.atributos
  BY <1>1 DEF InvDtd, CamposDtd, Ajeno, MismasMarcas
<1>4. ev[1] \notin Declaran
  BY DEF Declaran
<1> HIDE DEF d2, ev
<1> QED
  BY <1>1, <1>2, <1>3, <1>4, DtdAjena, AvisarBien, EventosQuietos, PasoComun

(* The model of an element is all that a step changes of the DTD.          *)
SoloModelo(d, d2) == Ajeno(d, d2) /\ MismasMarcas(d, d2) /\ d2.atributos = d.atributos
(* nextScaffoldPart changes the content model and nothing else.            *)
LEMMA ParteBien ==
  ASSUME NEW d, CamposDtd \subseteq DOMAIN d, NEW type, NEW quant, NEW name
  PROVE  SoloModelo(d, nextScaffoldPart(d, type, quant, name))
<1>1. \A x : SoloModelo(d, [d EXCEPT !.scaffold = x])
  BY DEF SoloModelo, Ajeno, MismasMarcas, CamposDtd
<1>2. \E x : nextScaffoldPart(d, type, quant, name) = [d EXCEPT !.scaffold = x]
  BY DEF nextScaffoldPart, NuevaParte
<1> QED
  BY <1>1, <1>2

(* A step of an element declaration is one of the content model.           *)
LEMMA PasoModelo ==
  ASSUME NEW r, Situacion(r), NEW q, LeeBien(r, q), Cambiar(q), SoloModelo(dtd, dtd'),
         EventosBien(dtd, eventos, eventos')
  PROVE  PasoBien
<1>1. InvDoProlog
  BY DEF Situacion
<1> QED
  BY <1>1, DtdAjena, PasoComun DEF SoloModelo

(* AbreGrupo keeps it.                                                     *)
LEMMA PasoAbreGrupo ==
  ASSUME NEW t, NEW r, Situacion(r), AbreGrupo(t, r)
  PROVE  PasoBien
<1> DEFINE p == Leido(t, r)
           g == Definir(p.groupConnector, p.prolog.level, "")
           q == [p EXCEPT !.groupConnector = g]
           d == nextScaffoldPart(dtd, "SEQ", "", Nada)
           s == Append(d.scaffIndex, Len(d.scaffold))
           d2 == [d EXCEPT !.scaffIndex = s]
<1>1. LeeBien(r, p) /\ InvParser(p) /\ InvDoProlog /\ InvDtd(dtd)
  BY LeidoBien DEF InvDoProlog, InvEstado
<1>2. Cambiar(q) /\ (dtd' = dtd \/ dtd' = d2) /\ eventos' = eventos
  BY DEF AbreGrupo
<1> HIDE DEF p, g
<1>3. IgualParser(p, q)
  BY <1>1 DEF InvParser, CamposParser, IgualParser
<1>4. SoloModelo(dtd, d)
  BY <1>1, ParteBien DEF InvDtd
<1> HIDE DEF d, s
<1>5. SoloModelo(dtd, d2) /\ SoloModelo(dtd, dtd)
  BY <1>1, <1>4 DEF InvDtd, CamposDtd, SoloModelo, Ajeno, MismasMarcas
<1> HIDE DEF q, d2
<1> QED
  BY <1>1, <1>2, <1>3, <1>5, IgualBien, EventosQuietos, PasoModelo

(* Conector keeps it.                                                      *)
LEMMA PasoConector ==
  ASSUME NEW t, NEW r, Situacion(r), Conector(t, r)
  PROVE  PasoBien
<1>1. CASE UNCHANGED <<dtd, parsers, eventos>>
  BY <1>1, PasoQuieto DEF Situacion
<1> DEFINE p == Leido(t, r)
           q(x) == [p EXCEPT !.groupConnector[p.prolog.level] = x]
           d2(n) == [dtd EXCEPT !.scaffold[n].type = "CHOICE"]
<1>2. ASSUME NEW x, NEW n, Cambiar(q(x)), dtd' = dtd \/ dtd' = d2(n), eventos' = eventos
      PROVE  PasoBien
  <2>1. LeeBien(r, p) /\ InvParser(p) /\ InvDoProlog /\ InvDtd(dtd)
    BY LeidoBien DEF InvDoProlog, InvEstado
  <2> HIDE DEF p
  <2>2. IgualParser(p, q(x))
    BY <2>1 DEF InvParser, CamposParser, IgualParser
  <2>3. SoloModelo(dtd, d2(n)) /\ SoloModelo(dtd, dtd)
    BY <2>1 DEF InvDtd, CamposDtd, SoloModelo, Ajeno, MismasMarcas
  <2> HIDE DEF q, d2
  <2> QED
    BY <1>2, <2>1, <2>2, <2>3, IgualBien, EventosQuietos, PasoModelo
<1> QED
  BY <1>1, <1>2 DEF Conector, Error

(* ContenidoDeElemento keeps it.                                           *)
LEMMA PasoContenidoDeElemento ==
  ASSUME NEW t, NEW r, Situacion(r), ContenidoDeElemento(t, r)
  PROVE  PasoBien
<1> DEFINE p == Leido(t, r)
           d2 == [dtd EXCEPT !.scaffold[Last(dtd.scaffIndex)].type = "MIXED"]
           d3 == nextScaffoldPart(dtd, "NAME", Cuantos(r.role), t.val)
<1>1. LeeBien(r, p) /\ InvParser(p) /\ InvDoProlog /\ InvDtd(dtd)
  BY LeidoBien DEF InvDoProlog, InvEstado
<1>2. Cambiar(p) /\ eventos' = eventos
  BY DEF ContenidoDeElemento
<1>3. dtd' = dtd \/ dtd' = d2 \/ dtd' = d3
  BY DEF ContenidoDeElemento
<1>4. SoloModelo(dtd, d3)
  BY <1>1, ParteBien DEF InvDtd
<1>5. SoloModelo(dtd, d2) /\ SoloModelo(dtd, dtd)
  BY <1>1 DEF InvDtd, CamposDtd, SoloModelo, Ajeno, MismasMarcas
<1> HIDE DEF p, d2, d3
<1> QED
  BY <1>1, <1>2, <1>3, <1>4, <1>5, EventosQuietos, PasoModelo

(* CierraGrupo keeps it.                                                   *)
LEMMA PasoCierraGrupo ==
  ASSUME NEW t, NEW r, Situacion(r), CierraGrupo(t, r)
  PROVE  PasoBien
<1> DEFINE p == Leido(t, r)
           g == ElGrupo(dtd)
           c == Cuantos(r.role)
           s == Front(dtd.scaffIndex)
           d == [dtd EXCEPT !.scaffold[g].quant = c, !.scaffIndex = s]
           d2 == [d EXCEPT !.in_eldecl = FALSE]
           ev == <<"elementDecl", p.declElementType, build_node(d.scaffold, 1), p.leidos>>
<1>1. LeeBien(r, p) /\ InvParser(p) /\ InvDoProlog /\ InvDtd(dtd)
  BY LeidoBien DEF InvDoProlog, InvEstado
<1>2. Cambiar(p)
  BY DEF CierraGrupo
<1>3. \/ dtd' = dtd /\ eventos' = eventos
      \/ dtd' = d /\ eventos' = eventos
      \/ dtd' = d2 /\ Avisar("elementDecl", ev)
  BY DEF CierraGrupo, ElementDecl
<1> HIDE DEF g, c, s
<1>4. SoloModelo(dtd, d) /\ SoloModelo(dtd, dtd)
  BY <1>1 DEF InvDtd, CamposDtd, SoloModelo, Ajeno, MismasMarcas
<1>5. SoloModelo(dtd, d2)
  <2> HIDE DEF d
  <2> QED
    BY <1>1, <1>4 DEF InvDtd, CamposDtd, SoloModelo, Ajeno, MismasMarcas
<1>6. ev[1] \notin Declaran
  BY DEF Declaran
<1> HIDE DEF p, d, d2, ev
<1>7. SoloModelo(dtd, dtd') /\ EventosBien(dtd, eventos, eventos')
  BY <1>1, <1>3, <1>4, <1>5, <1>6, AvisarBien, EventosQuietos
<1> QED
  BY <1>1, <1>2, <1>7, PasoModelo

-----------------------------------------------------------------------------
(* The handler of external entities is called.                             *)
Abre(d, espera) ==
  \/ espera[1] # "ref" /\ Abiertas(d) = Abiertas(dtd)
  \/ \E e : espera = <<"ref", e>> /\ e \notin Abiertas(dtd) /\ Abiertas(d) = Abiertas(dtd) \cup {e}

(* The parser that waits for a handler reads as before.                    *)
LEMMA EsperaBien ==
  ASSUME NEW r, Situacion(r), r.role # "NONE", NEW p, LeeBien(r, p), NEW espera
  PROVE  LET q == [p EXCEPT !.espera = espera]
         IN  /\ Parecido(P, q) /\ InvParser(q) /\ q.isParamEntity = P.isParamEntity
             /\ q.prolog = r.state /\ q.espera = espera /\ q.prolog.handler # "prolog0"
<1> DEFINE q == [p EXCEPT !.espera = espera]
<1>1. Parecido(P, p) /\ InvParser(p) /\ p.prolog = r.state /\ r.state.handler # "prolog0"
  BY DEF LeeBien, Parecido, Situacion, RolBien
<1>2. /\ CamposParser \subseteq DOMAIN q /\ q.prolog = p.prolog /\ q.textos = p.textos /\ q.espera = espera
      /\ q.isParamEntity = p.isParamEntity
  BY <1>1 DEF InvParser, CamposParser
<1> HIDE DEF q
<1>3. InvParser(q)
  BY <1>1, <1>2 DEF InvParser
<1>4. Parecido(P, q)
  BY <1>1, <1>2, <1>3 DEF Parecido
<1>5. q.isParamEntity = P.isParamEntity
  BY <1>4 DEF Parecido
<1> QED
  BY <1>1, <1>2, <1>3, <1>4, <1>5 DEF q

(* A handler that reads an entity opens it.                                *)
LEMMA AbreSana ==
  ASSUME NEW r, Situacion(r), NEW q, Parecido(P, q), NEW d, Abre(d, q.espera)
  PROVE  Sanas([parsers EXCEPT ![Len(parsers)] = q], Abiertas(d))
<1>1. Pila(parsers) /\ Sanas(parsers, Abiertas(dtd)) /\ P.espera = <<>>
  BY DEF Situacion, InvDoProlog, InvEstado
<1>2. CASE q.espera[1] # "ref" /\ Abiertas(d) = Abiertas(dtd)
  <2>1. ~EsperaRef(q) /\ ~EsperaRef(P)
    BY <1>1, <1>2 DEF EsperaRef
  <2> QED
    BY <1>1, <1>2, <2>1, ParecidoSano DEF P
<1>3. ASSUME NEW e, q.espera = <<"ref", e>>, e \notin Abiertas(dtd), Abiertas(d) = Abiertas(dtd) \cup {e}
      PROVE  Sanas([parsers EXCEPT ![Len(parsers)] = q], Abiertas(d))
  BY <1>1, <1>3, EsperaSana DEF P
<1> QED
  BY <1>2, <1>3 DEF Abre

(* Whether an external entity was read is not of the entities.             *)
LEMMA MarcaLeida ==
  ASSUME NEW d, InvDtd(d), NEW x
  PROVE  LET d2 == [d EXCEPT !.paramEntityRead = x]
         IN  MismaDtd(d, d2) /\ Congelada(d, d2)
<1> DEFINE d2 == [d EXCEPT !.paramEntityRead = x]
<1>1. Ajeno(d, d2) /\ MismasMarcas(d, d2) /\ d2.atributos = d.atributos
  BY DEF InvDtd, CamposDtd, Ajeno, MismasMarcas
<1> HIDE DEF d2
<1>2. d2.keepProcessing \in BOOLEAN /\ d2.standalone \in BOOLEAN
  BY <1>1 DEF InvDtd, MismasMarcas
<1> QED
  BY <1>1, <1>2, OtroCampo DEF MismaDtd, d2

(* A parser of its own reads the entity.                                   *)
LEMMA NuevoParser ==
  ASSUME NEW resto, NEW parsing
  PROVE  LET q == parserInit(PrologStateInitExternalEntity, resto, TRUE, parsing, FALSE)
         IN  InvParser(q) /\ ~EsperaRef(q) /\ Len(q.textos) = 1 /\ q.prolog.handler # "prolog0"
<1> DEFINE st == PrologStateInitExternalEntity
           q == parserInit(st, resto, TRUE, parsing, FALSE)
<1>1. InvProlog(st) /\ st.handler # "prolog0"
  BY DEF PrologStateInitExternalEntity, PrologStateInit, InvProlog, CamposProlog
<1> HIDE DEF st
<1>2. /\ CamposParser \subseteq DOMAIN q /\ q.prolog = st /\ q.espera = <<>>
      /\ q.textos = <<Texto(Nada, resto, FALSE)>>
  BY DEF parserInit, CamposParser
<1>3. CamposTexto \subseteq DOMAIN Texto(Nada, resto, FALSE)
  BY DEF Texto, CamposTexto
<1>4. EsSecuencia(q.textos) /\ Len(q.textos) = 1 /\ q.textos[1] = Texto(Nada, resto, FALSE)
  BY <1>2, Una
<1> HIDE DEF q
<1>5. \A j \in 1..Len(q.textos) : CamposTexto \subseteq DOMAIN q.textos[j]
  <2>1. \A j \in 1..1 : j = 1
    OBVIOUS
  <2> QED
    BY <1>3, <1>4, <2>1
<1>6. InvParser(q) /\ ~EsperaRef(q)
  <2>1. ~EsperaRef(q)
    BY <1>2 DEF EsperaRef
  <2>2. CamposParser \subseteq DOMAIN q /\ InvProlog(q.prolog) /\ q.prolog.handler # "prolog0"
    BY <1>1, <1>2
  <2>3. EsSecuencia(q.textos) /\ Len(q.textos) # 0
    BY <1>4
  <2> QED
    BY <1>5, <2>1, <2>2, <2>3 DEF InvParser
<1> QED
  BY <1>1, <1>2, <1>4, <1>6 DEF q, st

(* The handler of external entities fails, does not read, or reads.        *)
LEMMA PasoLlamarExterno ==
  ASSUME NEW r, Situacion(r), r.role # "NONE", NEW p, LeeBien(r, p),
         NEW d, InvDtd(d), MismasMarcas(dtd, d), ~dtd.keepProcessing => Congelada(dtd, d),
         NEW sys, NEW espera, Abre(d, espera), NEW avisos, EventosBien(dtd, eventos, avisos),
         LlamarExterno(p, d, sys, espera, avisos)
  PROVE  PasoBien
<1> DEFINE q == [p EXCEPT !.espera = espera]
           ps2 == [parsers EXCEPT ![Len(parsers)] = q]
<1>1. /\ Parecido(P, q) /\ InvParser(q) /\ q.isParamEntity = P.isParamEntity
      /\ q.prolog = r.state /\ q.espera = espera /\ q.prolog.handler # "prolog0"
  BY EsperaBien
<1>0. InvDoProlog /\ RolBien(P.prolog, r)
  BY DEF Situacion
<1>2. Sanas(ps2, Abiertas(d))
  <2> HIDE DEF q
  <2> QED
    BY <1>1, AbreSana
<1>3. \A x : LET d2 == [d EXCEPT !.paramEntityRead = x]
             IN  MismaDtd(d, d2) /\ Congelada(d, d2)
  BY MarcaLeida
<1>4. ASSUME NEW x PROVE LET d2 == [d EXCEPT !.paramEntityRead = x]
                         IN  /\ InvDtd(d2) /\ Abiertas(d2) = Abiertas(d) /\ MarcasTras(r, dtd, d2)
                             /\ MismasMarcas(dtd, d2)
                             /\ ~dtd.keepProcessing => Congelada(dtd, d2)
  <2> DEFINE d2 == [d EXCEPT !.paramEntityRead = x]
  <2>1. MismaDtd(d, d2) /\ Congelada(d, d2)
    BY <1>3
  <2> HIDE DEF d2
  <2>2. ~dtd.keepProcessing => Congelada(dtd, d2)
    BY <2>1, CongeladaLuego
  <2>3. InvDtd(d2) /\ Abiertas(d2) = Abiertas(d) /\ MarcasTras(r, dtd, d2) /\ MismasMarcas(dtd, d2)
    BY <2>1 DEF MismaDtd, MismasMarcas, MarcasTras
  <2> QED
    BY <2>2, <2>3 DEF d2
<1>5. CASE dtd' = dtd /\ parsers' = parsers /\ eventos' = avisos
  <2>1. Congelada(dtd, dtd)
    BY DEF Congelada
  <2> QED
    BY <1>0, <1>5, <2>1 DEF PasoBien, InvDoProlog, InvEstado, Congela, EventosBien
<1>6. CASE Cambiar(q) /\ dtd' = [d EXCEPT !.paramEntityRead = FALSE] /\ eventos' = avisos
  <2>1. /\ InvDtd(dtd') /\ Abiertas(dtd') = Abiertas(d) /\ MarcasTras(r, dtd, dtd')
        /\ ~dtd.keepProcessing => Congelada(dtd, dtd')
    BY <1>4, <1>6
  <2> HIDE DEF q
  <2>2. Cambiar(q) /\ EventosBien(dtd, eventos, eventos') /\ Sanas([parsers EXCEPT ![Len(parsers)] = q], Abiertas(dtd'))
    BY <1>2, <1>6, <2>1
  <2> QED
    BY <1>0, <1>1, <2>1, <2>2, PasoDeTope
<1>7. ASSUME NEW resto, NEW parsing,
             parsers' = Append(ps2, parserInit(PrologStateInitExternalEntity, resto, TRUE, parsing, FALSE)),
             dtd' = [d EXCEPT !.paramEntityRead = TRUE], eventos' = avisos
      PROVE  PasoBien
  <2> DEFINE n == Len(parsers)
             np == parserInit(PrologStateInitExternalEntity, resto, TRUE, parsing, FALSE)
  <2>1. /\ InvDtd(dtd') /\ Abiertas(dtd') = Abiertas(d) /\ MarcasTras(r, dtd, dtd')
        /\ MismasMarcas(dtd, dtd')
        /\ ~dtd.keepProcessing => Congelada(dtd, dtd')
    BY <1>4, <1>7
  <2>2. InvParser(np) /\ ~EsperaRef(np) /\ Len(np.textos) = 1 /\ np.prolog.handler # "prolog0"
    BY NuevoParser
  <2>3. parsers' = Append(ps2, np)
    BY <1>7
  <2> HIDE DEF q, np
  <2>4. Pila(ps2) /\ ~ps2[1].isParamEntity /\ Len(ps2) = n /\ n \in Nat /\ n # 0
    BY <1>0, <1>1, PrimeroQueda
  <2>5. ps2[n] = q /\ \A i \in 1..n : i # n => ps2[i] = parsers[i]
    BY <1>0, <1>1, CambiaPila DEF InvDoProlog, InvEstado
  <2> HIDE DEF ps2, n
  <2>6. /\ Pila(parsers') /\ Sanas(parsers', Abiertas(dtd')) /\ Len(parsers') = n + 1
        /\ \A i \in 1..n : parsers'[i] = ps2[i]
    BY <1>2, <2>1, <2>2, <2>3, <2>4, ParserMasSano
  <2>7. parsers'[n + 1] = np
    BY <2>3, <2>4, Agrega DEF Pila
  <2>8. \A i \in 1..n : ps2[i].prolog.handler # "prolog0"
    <3>1. \A i \in 1..n : parsers[i].prolog.handler = "prolog0" => n = 1
      BY <1>0 DEF InvDoProlog, InvEstado, Marcas, n
    <3> QED
      BY <1>1, <2>4, <2>5, <3>1
  <2>9. \A i \in 1..(n + 1) : parsers'[i].prolog.handler # "prolog0"
    <3>1. \A i \in 1..(n + 1) : i \in 1..n \/ i = n + 1
      BY <2>4
    <3> QED
      BY <2>2, <2>6, <2>7, <2>8, <3>1
  <2>10. Marcas(dtd', parsers') /\ (~dtd.keepProcessing => ~dtd'.keepProcessing)
    <3>1. ~dtd.keepProcessing => ~dtd.standalone
      BY <1>0 DEF InvDoProlog, InvEstado, Marcas
    <3> QED
      BY <2>1, <2>6, <2>9, <3>1 DEF Marcas, MismasMarcas
  <2>11. ~parsers'[1].isParamEntity
    <3>1. 1 \in 1..n
      BY <2>4
    <3> QED
      BY <2>4, <2>6, <3>1
  <2> QED
    BY <1>7, <2>1, <2>6, <2>10, <2>11 DEF PasoBien, InvEstado, Congela, EventosBien
<1> QED
  BY <1>5, <1>6, <1>7 DEF LlamarExterno

-----------------------------------------------------------------------------
(* Whether there are references is not of the entities.                    *)
LEMMA ConReferencias ==
  ASSUME NEW d, InvDtd(d), NEW x
  PROVE  LET d2 == [d EXCEPT !.hasParamEntityRefs = x]
         IN  MismaDtd(d, d2) /\ Congelada(d, d2) /\ InvDtd(d2) /\ d2.entidades = d.entidades
<1> DEFINE d2 == [d EXCEPT !.hasParamEntityRefs = x]
<1>1. Ajeno(d, d2) /\ MismasMarcas(d, d2) /\ d2.atributos = d.atributos
  BY DEF InvDtd, CamposDtd, Ajeno, MismasMarcas
<1> HIDE DEF d2
<1>2. d2.keepProcessing \in BOOLEAN /\ d2.standalone \in BOOLEAN
  BY <1>1 DEF InvDtd, MismasMarcas
<1> QED
  BY <1>1, <1>2, OtroCampo DEF MismaDtd, Ajeno, d2

(* What stays in two steps stays in both.                                  *)
LEMMA SigueLuego ==
  ASSUME NEW d, NEW d2, NEW d3, MismaDtd(d, d2), MismaDtd(d2, d3), Congelada(d, d2), Congelada(d2, d3)
  PROVE  MismaDtd(d, d3) /\ Congelada(d, d3)
BY CongeladaLuego DEF MismaDtd, MismasMarcas

(* The DTD with its subset, that there are references, or both.            *)
LEMMA ConSubsetBien ==
  ASSUME NEW d, InvDtd(d)
  PROVE  MismaDtd(d, ConSubset(d)) /\ Congelada(d, ConSubset(d))
BY ConSubsetInv, CrecioCongelada

(* A DTD that stays is kept by any role.                                   *)
LEMMA SigueBien ==
  ASSUME NEW d, MismaDtd(dtd, d), Congelada(dtd, d), NEW r
  PROVE  /\ InvDtd(d) /\ MismasMarcas(dtd, d) /\ Abiertas(d) = Abiertas(dtd)
         /\ DtdBien(r, dtd, d)
BY DEF MismaDtd, DtdBien, MarcasTras

(* One more event that is not a declaration, or none.                      *)
LEMMA UnEvento ==
  ASSUME NEW ev, EventosBien(dtd, eventos, ev), NEW x, x[1] \notin Declaran
  PROVE  EventosBien(dtd, eventos, ev \o <<x>>) /\ EventosBien(dtd, eventos, ev \o <<>>)
<1>1. EsSecuencia(ev)
  BY DEF EventosBien
<1>2. ev \o <<x>> = Append(ev, x) /\ ev \o <<>> = ev
  BY <1>1, PegaUno
<1>3. EsSecuencia(Append(ev, x))
  BY <1>1, Agrega
<1>4. Prolonga(ev, Append(ev, x))
  BY <1>1, ProlongaUno
<1>5. EventosBien(dtd, eventos, Append(ev, x))
  BY <1>3, <1>4, ProlongaLuego DEF EventosBien
<1> QED
  BY <1>2, <1>5

(* FinDelDoctype keeps it.                                                 *)
LEMMA PasoFinDelDoctype ==
  ASSUME NEW t, NEW r, Situacion(r), FinDelDoctype(t, r)
  PROVE  PasoBien
<1> DEFINE p == Leido(t, r)
           hay == p.doctypeSysid # Nada \/ p.useForeignDTD
           d1 == [dtd EXCEPT !.hasParamEntityRefs = TRUE]
           d == IF hay THEN d1 ELSE dtd
           nd == IF hay /\ LeeSubset(p) THEN ConSubset(d) ELSE d
           ev == <<"startDoctypeDecl", p.doctypeName, p.doctypeSysid, p.doctypePubid, FALSE>>
           ev2 == <<"endDoctypeDecl">>
           avisos == eventos \o (IF P.doctypeName = Nada THEN <<>> ELSE <<ev>>)
           fin == IF Tiene("endDoctypeDecl") THEN <<ev2>> ELSE <<>>
           espera == <<"cierre", dtd.hasParamEntityRefs>>
           q == [p EXCEPT !.useForeignDTD = FALSE]
<1>1. LeeBien(r, p) /\ InvParser(p) /\ InvDoProlog /\ InvDtd(dtd)
  BY LeidoBien DEF InvDoProlog, InvEstado
<1>2. r.role # "NONE"
  BY DEF FinDelDoctype
<1>3. \/ LlamarExterno(p, nd, nd.entidades[externalSubset].systemId, espera, avisos)
      \/ Cambiar(q) /\ dtd' = nd /\ eventos' = avisos \o fin
  BY DEF FinDelDoctype
<1>4. EventosBien(dtd, eventos, avisos) /\ EventosBien(dtd, eventos, avisos \o fin)
  <2>1. ev[1] \notin Declaran /\ ev2[1] \notin Declaran
    BY DEF Declaran
  <2> HIDE DEF p, ev, ev2
  <2>2. EventosBien(dtd, eventos, avisos)
    <3>1. EventosBien(dtd, eventos, eventos)
      BY <1>1, EventosQuietos
    <3>2. EventosBien(dtd, eventos, eventos \o <<ev>>) /\ EventosBien(dtd, eventos, eventos \o <<>>)
      BY <2>1, <3>1, UnEvento
    <3>3. avisos = eventos \o <<ev>> \/ avisos = eventos \o <<>>
      OBVIOUS
    <3> HIDE DEF avisos
    <3> QED
      BY <3>2, <3>3
  <2> HIDE DEF avisos
  <2>3. EventosBien(dtd, eventos, avisos \o <<ev2>>) /\ EventosBien(dtd, eventos, avisos \o <<>>)
    BY <2>1, <2>2, UnEvento
  <2>4. fin = <<ev2>> \/ fin = <<>>
    OBVIOUS
  <2> HIDE DEF fin
  <2> QED
    BY <2>2, <2>3, <2>4
<1> HIDE DEF avisos, fin
<1>5. MismaDtd(dtd, d) /\ Congelada(dtd, d) /\ InvDtd(d)
  <2>1. MismaDtd(dtd, dtd) /\ Congelada(dtd, dtd)
    BY <1>1 DEF MismaDtd, MismasMarcas, Congelada
  <2>2. MismaDtd(dtd, d1) /\ Congelada(dtd, d1) /\ InvDtd(d1)
    BY <1>1, ConReferencias
  <2>3. d = dtd \/ d = d1
    OBVIOUS
  <2> HIDE DEF d, d1
  <2> QED
    BY <1>1, <2>1, <2>2, <2>3
<1> HIDE DEF d
<1>6. MismaDtd(dtd, nd) /\ Congelada(dtd, nd)
  <2>1. MismaDtd(d, ConSubset(d)) /\ Congelada(d, ConSubset(d))
    BY <1>5, ConSubsetBien
  <2>2. MismaDtd(dtd, ConSubset(d)) /\ Congelada(dtd, ConSubset(d))
    BY <1>5, <2>1, SigueLuego
  <2>3. nd = d \/ nd = ConSubset(d)
    OBVIOUS
  <2> HIDE DEF nd
  <2> QED
    BY <1>5, <2>2, <2>3
<1>7. espera[1] # "ref"
  OBVIOUS
<1> HIDE DEF nd, p, espera
<1>8. /\ InvDtd(nd) /\ MismasMarcas(dtd, nd) /\ Abiertas(nd) = Abiertas(dtd)
      /\ DtdBien(r, dtd, nd)
  BY <1>6, SigueBien
<1>9. CASE LlamarExterno(p, nd, nd.entidades[externalSubset].systemId, espera, avisos)
  <2>1. Abre(nd, espera)
    BY <1>7, <1>8 DEF Abre
  <2> DEFINE sys == nd.entidades[externalSubset].systemId
  <2>2. LlamarExterno(p, nd, sys, espera, avisos)
    BY <1>9
  <2> HIDE DEF sys
  <2> QED
    BY <1>1, <1>2, <1>4, <1>6, <1>8, <2>1, <2>2, PasoLlamarExterno
<1>10. CASE Cambiar(q) /\ dtd' = nd /\ eventos' = avisos \o fin
  <2>1. IgualParser(p, q)
    BY <1>1 DEF InvParser, CamposParser, IgualParser
  <2> HIDE DEF q
  <2> QED
    BY <1>1, <1>4, <1>8, <1>10, <2>1, IgualBien, PasoComun
<1> QED
  BY <1>3, <1>9, <1>10

(* Raiz keeps it.                                                          *)
LEMMA PasoRaiz ==
  ASSUME NEW t, NEW r, Situacion(r), Raiz(t, r)
  PROVE  PasoBien
<1> DEFINE p == Leido(t, r)
           d == [dtd EXCEPT !.hasParamEntityRefs = TRUE]
           nd == ConSubset(d)
           espera == <<"raiz", dtd.hasParamEntityRefs>>
<1>1. LeeBien(r, p) /\ InvParser(p) /\ InvDoProlog /\ InvDtd(dtd) /\ EventosBien(dtd, eventos, eventos)
  BY LeidoBien, EventosQuietos DEF InvDoProlog, InvEstado
<1>2. r.role # "NONE"
  BY DEF Raiz
<1>3. \/ Cambiar(p) /\ (dtd' = dtd \/ dtd' = d) /\ eventos' = eventos
      \/ LlamarExterno(p, nd, nd.entidades[externalSubset].systemId, espera, eventos)
  BY DEF Raiz
<1>4. MismaDtd(dtd, d) /\ Congelada(dtd, d) /\ InvDtd(d)
  BY <1>1, ConReferencias
<1> HIDE DEF d, p
<1>5. MismaDtd(dtd, nd) /\ Congelada(dtd, nd)
  BY <1>4, ConSubsetBien, SigueLuego
<1>6. espera[1] # "ref"
  OBVIOUS
<1> HIDE DEF nd, espera
<1>7. /\ InvDtd(nd) /\ MismasMarcas(dtd, nd) /\ Abiertas(nd) = Abiertas(dtd)
      /\ DtdBien(r, dtd, d)
  BY <1>4, <1>5, SigueBien
<1>8. CASE LlamarExterno(p, nd, nd.entidades[externalSubset].systemId, espera, eventos)
  <2>1. Abre(nd, espera)
    BY <1>6, <1>7 DEF Abre
  <2> DEFINE sys == nd.entidades[externalSubset].systemId
  <2>2. LlamarExterno(p, nd, sys, espera, eventos)
    BY <1>8
  <2> HIDE DEF sys
  <2> QED
    BY <1>1, <1>2, <1>5, <1>7, <2>1, <2>2, PasoLlamarExterno
<1>9. CASE Cambiar(p) /\ (dtd' = dtd \/ dtd' = d) /\ eventos' = eventos
  BY <1>1, <1>7, <1>9, DtdQuieta, PasoComun
<1> QED
  BY <1>3, <1>8, <1>9

-----------------------------------------------------------------------------
(* What follows an entity that was not read is not taken.                  *)
LEMMA ProcesarBien ==
  ASSUME NEW d, InvDtd(d), ~d.keepProcessing => ~d.standalone
  PROVE  /\ InvDtd(Procesar(d)) /\ Abiertas(Procesar(d)) = Abiertas(d)
         /\ Procesar(d).standalone = d.standalone /\ Procesar(d).keepProcessing = d.standalone
         /\ Congelada(d, Procesar(d))
<1> DEFINE d2 == Procesar(d)
<1>1. Ajeno(d, d2) /\ d2.atributos = d.atributos /\ d2.standalone = d.standalone /\ d2.keepProcessing = d.standalone
  BY DEF InvDtd, CamposDtd, Ajeno, Procesar
<1> HIDE DEF d2
<1>2. d2.keepProcessing \in BOOLEAN /\ d2.standalone \in BOOLEAN
  BY <1>1 DEF InvDtd
<1> QED
  BY <1>1, <1>2, OtroCampo DEF d2

UnMas(p, x) == [p EXCEPT !.textos = Append(@, x)]
ConUno(r, q, x) ==
  /\ InvParser(q) /\ q.isParamEntity = P.isParamEntity /\ q.prolog = r.state /\ q.espera = P.espera
  /\ Len(q.textos) = Len(P.textos) + 1
  /\ \A j \in 1..Len(P.textos) : q.textos[j].entidad = P.textos[j].entidad
  /\ q.textos[Len(q.textos)] = x
(* A text is opened on top of the others.                                  *)
LEMMA UnTextoMas ==
  ASSUME NEW r, NEW p, LeeBien(r, p), NEW x, CamposTexto \subseteq DOMAIN x
  PROVE  ConUno(r, UnMas(p, x), x)
<1> DEFINE s2 == Append(p.textos, x)
           q == [p EXCEPT !.textos = s2]
           n == Len(p.textos)
<1>1. /\ InvParser(p) /\ p.isParamEntity = P.isParamEntity /\ p.prolog = r.state /\ p.espera = P.espera
      /\ Len(P.textos) = n /\ \A j \in 1..n : p.textos[j].entidad = P.textos[j].entidad
  BY DEF LeeBien, Parecido
<1>2. /\ EsSecuencia(s2) /\ n \in Nat /\ Len(s2) = n + 1 /\ s2[n + 1] = x /\ \A j \in 1..n : s2[j] = p.textos[j]
  BY <1>1, Agrega DEF InvParser
<1> HIDE DEF s2
<1>3. /\ CamposParser \subseteq DOMAIN q /\ q.prolog = p.prolog /\ q.textos = s2 /\ q.espera = p.espera
      /\ q.isParamEntity = p.isParamEntity
  BY <1>1 DEF InvParser, CamposParser
<1> HIDE DEF q
<1>4. \A j \in 1..Len(s2) : CamposTexto \subseteq DOMAIN s2[j]
  <2>1. \A j \in 1..Len(s2) : j \in 1..n \/ j = n + 1
    BY <1>2
  <2>2. \A j \in 1..n : CamposTexto \subseteq DOMAIN p.textos[j]
    BY <1>1 DEF InvParser
  <2> QED
    BY <1>2, <2>1, <2>2
<1>5. InvParser(q)
  <2>1. Len(s2) # 0
    BY <1>2
  <2> QED
    BY <1>1, <1>2, <1>3, <1>4, <2>1 DEF InvParser
<1>6. ConUno(r, q, x)
  BY <1>1, <1>2, <1>3, <1>5 DEF ConUno
<1> QED
  BY <1>6 DEF q, s2, UnMas

(* ReferenciaParam keeps it.                                               *)
LEMMA PasoReferenciaParam ==
  ASSUME NEW t, NEW r, Situacion(r), ReferenciaParam(t, r)
  PROVE  PasoBien
<1> DEFINE p == Leido(t, r)
           e == <<"param", t.val>>
           d == [dtd EXCEPT !.hasParamEntityRefs = TRUE]
           ent == dtd.entidades[e]
           x == Texto(e, ent.textPtr, r.role = "PARAM_ENTITY_REF")
           q == UnMas(p, x)
           ev == <<"skippedEntity", t.val, TRUE>>
           d2 == Abrir(d, e, TRUE)
<1>1. LeeBien(r, p) /\ InvParser(p) /\ InvDoProlog /\ InvDtd(dtd) /\ EventosBien(dtd, eventos, eventos)
      /\ RolBien(P.prolog, r) /\ Marcas(dtd, parsers)
  BY LeidoBien, EventosQuietos DEF InvDoProlog, InvEstado, Situacion
<1>2. r.role # "NONE"
  BY DEF ReferenciaParam
<1>3. \/ UNCHANGED <<dtd, parsers, eventos>>
      \/ Cambiar(p) /\ dtd' = Procesar(d) /\ (eventos' = eventos \/ Avisar("skippedEntity", ev))
      \/ Existe(dtd, e) /\ ~ent.open /\ Cambiar(q) /\ dtd' = d2 /\ eventos' = eventos
      \/ Existe(dtd, e) /\ ~ent.open /\ LlamarExterno(p, d2, ent.systemId, <<"ref", e>>, eventos)
  BY DEF ReferenciaParam, Error, UnMas
<1>4. MismaDtd(dtd, d) /\ Congelada(dtd, d) /\ InvDtd(d) /\ d.entidades = dtd.entidades
  BY <1>1, ConReferencias
<1>5. ev[1] \notin Declaran
  BY DEF Declaran
<1> HIDE DEF d, p, ev
<1>6. CASE UNCHANGED <<dtd, parsers, eventos>>
  BY <1>1, <1>6, PasoQuieto
<1>7. CASE Cambiar(p) /\ dtd' = Procesar(d) /\ (eventos' = eventos \/ Avisar("skippedEntity", ev))
  <2>1. ~d.keepProcessing => ~d.standalone
    BY <1>1, <1>4 DEF Marcas, MismaDtd, MismasMarcas
  <2>2. /\ InvDtd(dtd') /\ Abiertas(dtd') = Abiertas(d) /\ Congelada(d, dtd')
        /\ dtd'.standalone = d.standalone /\ dtd'.keepProcessing = d.standalone
    BY <1>4, <1>7, <2>1, ProcesarBien
  <2>3. Congelada(dtd, dtd')
    BY <1>4, <2>2, CongeladaLuego
  <2>4. DtdBien(r, dtd, dtd')
    BY <1>2, <1>4, <2>2, <2>3 DEF DtdBien, MismaDtd, MismasMarcas, MarcasTras
  <2>5. EventosBien(dtd, eventos, eventos')
    BY <1>1, <1>5, <1>7, AvisarBien
  <2> QED
    BY <1>1, <1>7, <2>4, <2>5, PasoComun
<1>8. ASSUME Existe(dtd, e), ~ent.open
      PROVE  /\ InvDtd(d2) /\ Abiertas(d2) = Abiertas(dtd) \cup {e} /\ e \notin Abiertas(dtd)
             /\ Congelada(dtd, d2) /\ MismasMarcas(dtd, d2)
  <2>1. e \in DOMAIN dtd.entidades
    BY <1>1, <1>8, ExisteEntidad
  <2>2. e \notin Abiertas(dtd)
    BY <1>8 DEF Abiertas
  <2> HIDE DEF e
  <2>3. /\ InvDtd(d2) /\ Abiertas(d2) = Abiertas(d) \cup {e} /\ Congelada(d, d2) /\ MismasMarcas(d, d2)
    BY <1>4, <2>1, AbrirEntidad
  <2> HIDE DEF d2
  <2>4. Congelada(dtd, d2)
    BY <1>4, <2>3, CongeladaLuego
  <2> QED
    BY <1>4, <2>2, <2>3, <2>4 DEF MismaDtd, MismasMarcas
<1> HIDE DEF d2
<1>9. CASE Existe(dtd, e) /\ ~ent.open /\ Cambiar(q) /\ dtd' = d2 /\ eventos' = eventos
  <2>1. /\ InvDtd(d2) /\ Abiertas(d2) = Abiertas(dtd) \cup {e} /\ e \notin Abiertas(dtd)
        /\ Congelada(dtd, d2) /\ MismasMarcas(dtd, d2)
    BY <1>8, <1>9
  <2>2. CamposTexto \subseteq DOMAIN x /\ x.entidad = e
    BY DEF Texto, CamposTexto
  <2> HIDE DEF x, e
  <2>0. ConUno(r, q, x)
    BY <1>1, <2>2, UnTextoMas
  <2> HIDE DEF q
  <2>3. /\ InvParser(q) /\ q.isParamEntity = P.isParamEntity /\ q.prolog = r.state /\ q.espera = P.espera
        /\ Len(q.textos) = Len(P.textos) + 1
        /\ \A j \in 1..Len(P.textos) : q.textos[j].entidad = P.textos[j].entidad
        /\ q.textos[Len(q.textos)] = x
    BY <2>0 DEF ConUno
  <2>4. Sanas([parsers EXCEPT ![Len(parsers)] = q], Abiertas(dtd) \cup {e})
    <3>1. Pila(parsers) /\ Sanas(parsers, Abiertas(dtd))
      BY <1>1 DEF InvDoProlog, InvEstado
    <3>2. q.textos[Len(q.textos)].entidad = e
      BY <2>2, <2>3
    <3> QED
      BY <2>1, <2>3, <3>1, <3>2, TextoMasSano DEF P
  <2>5. MarcasTras(r, dtd, d2)
    BY <2>1 DEF MarcasTras
  <2> QED
    BY <1>1, <1>9, <2>1, <2>3, <2>4, <2>5, PasoDeTope
<1>10. CASE Existe(dtd, e) /\ ~ent.open /\ LlamarExterno(p, d2, ent.systemId, <<"ref", e>>, eventos)
  <2> DEFINE sys == ent.systemId
             espera == <<"ref", e>>
  <2>1. /\ InvDtd(d2) /\ Abiertas(d2) = Abiertas(dtd) \cup {e} /\ e \notin Abiertas(dtd)
        /\ Congelada(dtd, d2) /\ MismasMarcas(dtd, d2)
    BY <1>8, <1>10
  <2>2. Abre(d2, espera)
    <3> HIDE DEF e
    <3> QED
      BY <2>1 DEF Abre
  <2>3. LlamarExterno(p, d2, sys, espera, eventos)
    BY <1>10
  <2> HIDE DEF sys, espera
  <2> QED
    BY <1>1, <1>2, <2>1, <2>2, <2>3, PasoLlamarExterno
<1> QED
  BY <1>3, <1>6, <1>7, <1>9, <1>10

(* The handler returns.                                                    *)
LEMMA PasoVolver ==
  ASSUME InvDoProlog, Volver
  PROVE  PasoBien
<1>1. CASE UNCHANGED <<dtd, parsers, eventos>>
  BY <1>1, PasoQuieto
<1> DEFINE p == [P EXCEPT !.espera = <<>>]
           p2 == [p EXCEPT !.useForeignDTD = FALSE]
           que == P.espera[1]
           e == P.espera[2]
           d == Abrir(dtd, e, FALSE)
           d1 == [dtd EXCEPT !.hasParamEntityRefs = e]
           ev == <<"endDoctypeDecl">>
           r == [role |-> "PI", state |-> P.prolog]
<1>2. CASE /\ ~UNCHANGED <<dtd, parsers, eventos>>
  <2>1. P.espera # <<>>
    BY DEF Volver
  <2>2. \/ que = "ref" /\ Cambiar(p) /\ (dtd' = d \/ dtd' = Procesar(d)) /\ eventos' = eventos
        \/ /\ que # "ref" /\ (Cambiar(p) \/ Cambiar(p2)) /\ (dtd' = dtd \/ dtd' = d1)
           /\ eventos' = eventos \/ eventos' = Append(eventos, ev)
    BY <1>2 DEF Volver, Error
  <2>3. InvParser(P) /\ InvDtd(dtd) /\ Marcas(dtd, parsers) /\ EventosBien(dtd, eventos, eventos) /\ EsSecuencia(eventos)
        /\ Pila(parsers) /\ Sanas(parsers, Abiertas(dtd))
    BY TopeBien, EventosQuietos DEF InvDoProlog, InvEstado
  <2>4. RolBien(P.prolog, r) /\ r.role # "NONE" /\ r.state = P.prolog
    <3>1. r.role = "PI" /\ r.state = P.prolog
      OBVIOUS
    <3> HIDE DEF r
    <3> QED
      BY <2>1, <2>3, <3>1 DEF InvParser, RolBien
  <2> HIDE DEF r
  <2>5. IgualParser([p EXCEPT !.espera = P.espera], P) /\ IgualParser(p, p2)
        /\ CamposParser \subseteq DOMAIN p /\ p.espera = <<>> /\ p.textos = P.textos /\ p.prolog = P.prolog
        /\ p.isParamEntity = P.isParamEntity
    BY <2>3 DEF InvParser, CamposParser, IgualParser
  <2>6. InvParser(p)
    <3> HIDE DEF p
    <3> QED
      BY <2>3, <2>5 DEF InvParser
  <2> HIDE DEF p, p2
  <2>7. Parecido(P, p) /\ Parecido(P, p2) /\ p2.espera = <<>> /\ p2.prolog = P.prolog
        /\ p2.isParamEntity = P.isParamEntity /\ InvParser(p2)
    BY <2>5, <2>6 DEF Parecido, IgualParser, InvParser
  <2>8. CASE que = "ref" /\ Cambiar(p) /\ (dtd' = d \/ dtd' = Procesar(d)) /\ eventos' = eventos
    <3>1. EsperaRef(P)
      BY <2>1, <2>8 DEF EsperaRef
    <3>2. e \in Abiertas(dtd) /\ Sanas([parsers EXCEPT ![Len(parsers)] = p], Abiertas(dtd) \ {e})
      BY <2>3, <2>5, <2>7, <3>1, VuelveSana DEF P
    <3>3. e \in DOMAIN dtd.entidades
      BY <3>2 DEF Abiertas
    <3> HIDE DEF e
    <3>4. InvDtd(d) /\ Abiertas(d) = Abiertas(dtd) \ {e} /\ Congelada(dtd, d) /\ MismasMarcas(dtd, d)
      BY <2>3, <3>3, AbrirEntidad
    <3> HIDE DEF d
    <3>5. ~d.keepProcessing => ~d.standalone
      BY <2>3, <3>4 DEF Marcas, MismasMarcas
    <3>6. /\ InvDtd(Procesar(d)) /\ Abiertas(Procesar(d)) = Abiertas(d)
          /\ Procesar(d).standalone = d.standalone /\ Procesar(d).keepProcessing = d.standalone
          /\ Congelada(d, Procesar(d))
      BY <3>4, <3>5, ProcesarBien
    <3>7. /\ InvDtd(dtd') /\ Abiertas(dtd') = Abiertas(dtd) \ {e} /\ MarcasTras(r, dtd, dtd')
          /\ Congelada(dtd, dtd')
      <4>1. CASE dtd' = d
        BY <3>4, <4>1 DEF MarcasTras
      <4>2. CASE dtd' = Procesar(d)
        <5>1. Congelada(dtd, dtd')
          BY <3>4, <3>6, <4>2, CongeladaLuego
        <5> QED
          BY <2>4, <3>4, <3>6, <4>2, <5>1 DEF MarcasTras, MismasMarcas
      <4> QED
        BY <2>8, <4>1, <4>2
    <3> QED
      BY <2>3, <2>4, <2>5, <2>6, <2>8, <3>2, <3>7, PasoDeTope
  <2>9. CASE /\ que # "ref" /\ (Cambiar(p) \/ Cambiar(p2)) /\ (dtd' = dtd \/ dtd' = d1)
             /\ eventos' = eventos \/ eventos' = Append(eventos, ev)
    <3>1. ~EsperaRef(P) /\ ~EsperaRef(p) /\ ~EsperaRef(p2)
      BY <2>5, <2>7, <2>9 DEF EsperaRef
    <3>2. Sanas([parsers EXCEPT ![Len(parsers)] = p], Abiertas(dtd))
          /\ Sanas([parsers EXCEPT ![Len(parsers)] = p2], Abiertas(dtd))
      BY <2>3, <2>7, <3>1, ParecidoSano DEF P
    <3>3. MismaDtd(dtd, d1) /\ Congelada(dtd, d1)
      BY <2>3, ConReferencias
    <3> HIDE DEF d1
    <3>4. DtdBien(r, dtd, dtd')
      BY <2>9, <3>3, DtdQuieta, SigueBien
    <3>5. ev[1] \notin Declaran
      BY DEF Declaran
    <3> HIDE DEF ev
    <3>6. EventosBien(dtd, eventos, eventos')
      <4>1. EventosBien(dtd, eventos, Append(eventos, ev))
        BY <2>3, <3>5, Agrega, ProlongaUno DEF EventosBien
      <4> QED
        BY <2>3, <2>9, <4>1
    <3>7. /\ InvDtd(dtd') /\ Abiertas(dtd') = Abiertas(dtd) /\ MarcasTras(r, dtd, dtd')
          /\ ~dtd.keepProcessing => Congelada(dtd, dtd')
      BY <3>4 DEF DtdBien
    <3>8. CASE Cambiar(p)
      BY <2>4, <2>5, <2>6, <3>2, <3>6, <3>7, <3>8, PasoDeTope
    <3>9. CASE Cambiar(p2)
      BY <2>4, <2>7, <3>2, <3>6, <3>7, <3>9, PasoDeTope
    <3> QED
      BY <2>9, <3>8, <3>9
  <2> QED
    BY <2>2, <2>8, <2>9
<1> QED
  BY <1>1, <1>2

-----------------------------------------------------------------------------
(* A text ends.                                                            *)
SinUltimo(p) == [p EXCEPT !.textos = Front(@)]
UnoMenos(q) ==
  /\ InvParser(q) /\ q.isParamEntity = P.isParamEntity /\ q.prolog = P.prolog /\ q.espera = P.espera
  /\ Len(q.textos) = Len(P.textos) - 1
  /\ \A j \in 1..Len(q.textos) : q.textos[j].entidad = P.textos[j].entidad

(* The text on top ends.                                                   *)
LEMMA UnTextoMenos ==
  ASSUME InvDoProlog, ~EnPropio
  PROVE  UnoMenos(SinUltimo(P))
<1> DEFINE s2 == Front(P.textos)
           q == [P EXCEPT !.textos = s2]
           n == Len(P.textos)
<1>1. InvParser(P) /\ n \in Nat /\ n # 0 /\ n # 1
  <2>1. InvParser(P) /\ n \in Nat
    BY TopeBien
  <2>2. n # 1 /\ n # 0
    BY <2>1 DEF EnPropio, InvParser
  <2> QED
    BY <2>1, <2>2
<1>2. /\ EsSecuencia(s2) /\ Len(s2) = n - 1 /\ \A j \in 1..(n - 1) : s2[j] = P.textos[j]
  BY <1>1, Saca DEF InvParser
<1> HIDE DEF s2
<1>3. /\ CamposParser \subseteq DOMAIN q /\ q.prolog = P.prolog /\ q.textos = s2 /\ q.espera = P.espera
      /\ q.isParamEntity = P.isParamEntity
  BY <1>1 DEF InvParser, CamposParser
<1>0. SinUltimo(P) = q
  BY DEF SinUltimo, s2
<1> HIDE DEF q
<1>4. \A j \in 1..Len(s2) : j \in 1..n /\ j \in 1..(n - 1)
  BY <1>1, <1>2
<1> HIDE DEF n
<1>5. (\A j \in 1..Len(s2) : CamposTexto \subseteq DOMAIN s2[j]) /\ Len(s2) # 0
  <2>1. \A j \in 1..n : CamposTexto \subseteq DOMAIN P.textos[j]
    BY <1>1 DEF InvParser, n
  <2>2. n - 1 # 0
    BY <1>1
  <2> QED
    BY <1>2, <1>4, <2>1, <2>2
<1>6. InvParser(q)
  BY <1>1, <1>2, <1>3, <1>5 DEF InvParser
<1> QED
  BY <1>0, <1>2, <1>3, <1>4, <1>6 DEF UnoMenos, n

(* FinDeTexto: an internal entity ends, or the parser of a handler.        *)
LEMMA PasoFinDeTexto ==
  ASSUME InvDoProlog, FinDeTexto
  PROVE  PasoBien
<1> DEFINE q == SinUltimo(P)
           e == T.entidad
           d2 == Abrir(dtd, e, FALSE)
           r == [role |-> "NONE", state |-> P.prolog]
<1>1. /\ P.espera = <<>>
      /\ \/ UNCHANGED <<dtd, parsers, eventos>>
         \/ EnPropio /\ P.isParamEntity /\ parsers' = Front(parsers) /\ dtd' = dtd /\ eventos' = eventos
         \/ ~EnPropio /\ Cambiar(q) /\ dtd' = d2 /\ eventos' = eventos
  BY DEF FinDeTexto, Error, CerrarTexto, SinUltimo
<1>2. /\ InvParser(P) /\ InvDtd(dtd) /\ Marcas(dtd, parsers) /\ EventosBien(dtd, eventos, eventos)
      /\ Pila(parsers) /\ Sanas(parsers, Abiertas(dtd)) /\ ~parsers[1].isParamEntity /\ EsSecuencia(eventos)
  BY TopeBien, EventosQuietos DEF InvDoProlog, InvEstado
<1>3. CASE UNCHANGED <<dtd, parsers, eventos>>
  BY <1>3, PasoQuieto
<1>4. CASE EnPropio /\ P.isParamEntity /\ parsers' = Front(parsers) /\ dtd' = dtd /\ eventos' = eventos
  <2> DEFINE n == Len(parsers)
             ps2 == Front(parsers)
  <2>1. n # 1 /\ ~EsperaRef(parsers[n]) /\ Len(parsers[n].textos) = 1
    BY <1>1, <1>2, <1>4 DEF P, EsperaRef, EnPropio
  <2>2. Pila(ps2) /\ Sanas(ps2, Abiertas(dtd)) /\ Len(ps2) = n - 1 /\ n \in Nat /\ \A i \in 1..(n - 1) : ps2[i] = parsers[i]
    BY <1>2, <2>1, ParserMenosSano
  <2>3. parsers' = ps2
    BY <1>4
  <2>4. n # 0
    BY <1>2 DEF Pila
  <2> HIDE DEF ps2, n
  <2>5. 1 \in 1..(n - 1) /\ \A i \in 1..(n - 1) : i \in 1..n
    BY <2>1, <2>2, <2>4
  <2>6. ~ps2[1].isParamEntity
    BY <1>2, <2>2, <2>5
  <2>7. Marcas(dtd, ps2)
    <3>1. ~dtd.keepProcessing => ~dtd.standalone
      BY <1>2 DEF Marcas
    <3>2. \A i \in 1..n : parsers[i].prolog.handler # "prolog0"
      BY <1>2, <2>1 DEF Marcas, n
    <3> QED
      BY <2>2, <2>5, <3>1, <3>2 DEF Marcas
  <2>8. InvEstado(dtd', parsers', eventos')
    BY <1>2, <1>4, <2>2, <2>3, <2>6, <2>7 DEF InvEstado
  <2>9. Congela(dtd, dtd', eventos, eventos')
    BY <1>2, <1>4, ProlongaMisma DEF Congela, Congelada
  <2> QED
    BY <2>8, <2>9 DEF PasoBien
<1>5. CASE ~EnPropio /\ Cambiar(q) /\ dtd' = d2 /\ eventos' = eventos
  <2>1. UnoMenos(q)
    BY <1>5, UnTextoMenos
  <2>2. RolBien(P.prolog, r) /\ r.state = P.prolog
    <3>1. r.role = "NONE" /\ r.state = P.prolog
      OBVIOUS
    <3> HIDE DEF r
    <3> QED
      BY <1>2, <3>1 DEF InvParser, RolBien
  <2> HIDE DEF q, r
  <2>3. /\ InvParser(q) /\ q.isParamEntity = P.isParamEntity /\ q.prolog = P.prolog /\ q.espera = P.espera
        /\ Len(q.textos) = Len(P.textos) - 1
        /\ \A j \in 1..Len(q.textos) : q.textos[j].entidad = P.textos[j].entidad
    BY <2>1 DEF UnoMenos
  <2>4. e \in Abiertas(dtd) /\ Sanas([parsers EXCEPT ![Len(parsers)] = q], Abiertas(dtd) \ {e})
    BY <1>2, <2>3, TextoMenosSano DEF P, T
  <2>5. e \in DOMAIN dtd.entidades
    BY <2>4 DEF Abiertas
  <2> HIDE DEF e
  <2>6. InvDtd(d2) /\ Abiertas(d2) = Abiertas(dtd) \ {e} /\ Congelada(dtd, d2) /\ MismasMarcas(dtd, d2)
    BY <1>2, <2>5, AbrirEntidad
  <2> HIDE DEF d2
  <2>7. MarcasTras(r, dtd, d2)
    BY <2>6 DEF MarcasTras
  <2> QED
    BY <1>2, <1>5, <2>2, <2>3, <2>4, <2>6, <2>7, PasoDeTope
<1> QED
  BY <1>1, <1>3, <1>4, <1>5

-----------------------------------------------------------------------------
(* It starts with no entity, no reading and no event.                      *)
LEMMA InvDoPrologInicial ==
  ASSUME Init
  PROVE  InvDoProlog
<1> DEFINE p == parserInit(PrologStateInit, caso.texto, FALSE, opciones.paramEntityParsing, opciones.useForeignDTD)
<1>1. /\ CamposParser \subseteq DOMAIN p /\ p.prolog = PrologStateInit /\ p.textos = <<Texto(Nada, caso.texto, FALSE)>>
      /\ p.espera = <<>> /\ p.isParamEntity = FALSE
  BY DEF parserInit, CamposParser
<1>2. parsers = <<p>> /\ dtd = dtdCreate /\ eventos = <<>>
  BY DEF Init
<1> HIDE DEF p
<1>3. InvProlog(p.prolog)
  BY <1>1 DEF PrologStateInit, InvProlog, CamposProlog
<1>4. /\ EsSecuencia(p.textos) /\ Len(p.textos) = 1
      /\ \A j \in 1..Len(p.textos) : CamposTexto \subseteq DOMAIN p.textos[j]
  <2> DEFINE x == Texto(Nada, caso.texto, FALSE)
  <2>1. CamposTexto \subseteq DOMAIN x
    BY DEF Texto, CamposTexto
  <2>2. p.textos = <<x>>
    BY <1>1
  <2> HIDE DEF x
  <2> QED
    BY <2>1, <2>2, Una
<1>5. InvParser(p)
  <2>1. Len(p.textos) # 0
    BY <1>4
  <2> QED
    BY <1>1, <1>3, <1>4, <2>1 DEF InvParser
<1>6. Pila(parsers) /\ ~parsers[1].isParamEntity /\ Len(parsers) = 1 /\ DOMAIN parsers = {1}
  BY <1>1, <1>2, <1>5, Una DEF Pila
<1>7. InvDtd(dtd) /\ Abiertas(dtd) = {} /\ dtd.keepProcessing
  <2>1. /\ CamposDtd \subseteq DOMAIN dtd /\ dtd.entidades = <<>> /\ dtd.param = hashTableInit
        /\ dtd.general = hashTableInit /\ dtd.keepProcessing = TRUE /\ dtd.standalone = FALSE
    BY <1>2 DEF dtdCreate, CamposDtd
  <2>2. DOMAIN dtd.entidades = {}
    BY <2>1
  <2>3. Declarados(dtd, "param") = {} /\ Declarados(dtd, "general") = {} /\ Abiertas(dtd) = {}
    BY <2>2 DEF Declarados, Abiertas
  <2> QED
    BY <2>1, <2>2, <2>3, TablaVacia DEF InvDtd
<1>8. Sanas(parsers, {})
  <2>1. ASSUME NEW l \in LecturasDe(parsers) PROVE FALSE
    <3>1. /\ l[1] \in DOMAIN parsers
          /\ l[2] \in 2..Len(parsers[l[1]].textos) \/ (l[2] = 0 /\ EsperaRef(parsers[l[1]]))
      BY <2>1, EnLecturas
    <3>2. parsers[l[1]] = p
      BY <1>2, <1>6, <3>1
    <3>3. ~EsperaRef(p)
      BY <1>1 DEF EsperaRef
    <3>4. l[2] \in 2..1
      BY <1>4, <3>1, <3>2, <3>3
    <3> QED
      BY <3>4
  <2> QED
    BY <2>1 DEF Sanas
<1>9. Marcas(dtd, parsers)
  BY <1>6, <1>7 DEF Marcas
<1> QED
  BY <1>2, <1>6, <1>7, <1>8, <1>9, Una DEF InvDoProlog, InvEstado

(* doProlog keeps it: one lemma for each of its disjuncts.                 *)
LEMMA PasoDoProlog ==
  ASSUME NEW t, NEW r, Situacion(r), doProlog(t, r)
  PROVE  PasoBien
BY PasoDeclaracionXml, PasoNombreDelDoctype, PasoSubsetInterno, PasoIdPublicoDelDoctype,
   PasoIdDeSistemaDelDoctype, PasoFinDelDoctype, PasoRaiz, PasoNombreDeEntidad, PasoValorDeEntidad,
   PasoIdPublicoDeEntidad, PasoIdDeSistemaDeEntidad, PasoFinDeEntidad, PasoReferenciaParam,
   PasoNombresDeAtributo, PasoTipoDeAtributo, PasoValorDeAtributo, PasoNotacion,
   PasoComentarioOInstruccion, PasoSeccionIgnorada, PasoNombreDeElemento, PasoContenidoSimple,
   PasoAbreGrupo, PasoConector, PasoContenidoDeElemento, PasoCierraGrupo, PasoRolSinEfecto, PasoRolError
   DEF doProlog

(* Token gives doProlog a token and the role that the state gives it.      *)
LEMMA PasoToken ==
  ASSUME InvDoProlog, Token
  PROVE  PasoBien
<1>1. P.espera = <<>> /\ \E t : doProlog(t, XmlTokenRole(P.prolog, t))
  BY DEF Token
<1>2. PICK t : doProlog(t, XmlTokenRole(P.prolog, t))
  BY <1>1
<1> DEFINE r == XmlTokenRole(P.prolog, t)
<1>3. RolBien(P.prolog, r)
  <2>1. InvProlog(P.prolog)
    BY TopeBien DEF InvParser
  <2> QED
    BY <2>1, XmlTokenRoleBien
<1>4. doProlog(t, r)
  BY <1>2
<1> HIDE DEF r
<1>5. Situacion(r)
  BY <1>1, <1>3 DEF Situacion
<1> QED
  BY <1>4, <1>5, PasoDoProlog

(* Every step keeps the invariant, and what NoSeSigueSinLeer says.         *)
LEMMA PasoNext ==
  ASSUME InvDoProlog, [Next]_vars
  PROVE  PasoBien
<1>1. CASE Token
  BY <1>1, PasoToken
<1>2. CASE Volver
  BY <1>2, PasoVolver
<1>3. CASE FinDeTexto
  BY <1>3, PasoFinDeTexto
<1>4. CASE UNCHANGED vars
  BY <1>4, PasoQuieto DEF vars
<1> QED
  BY <1>1, <1>2, <1>3, <1>4 DEF Next

(* InvDoProlog is an invariant of the prolog.                              *)
THEOREM InvDoPrologSiempre == Spec => []InvDoProlog
<1>1. Init => InvDoProlog
  BY InvDoPrologInicial
<1>2. InvDoProlog /\ [Next]_vars => InvDoProlog'
  BY PasoNext DEF PasoBien, InvDoProlog
<1> QED
  BY <1>1, <1>2, PTL DEF Spec

(* What a table of names answers.                                          *)
LEMMA TablaExacta ==
  ASSUME NEW t, NEW N, TablaDe(t, N)
  PROVE  Exacta(t, N)
<1>1. hashTableNames(t) = N /\ t.used = Cardinality(N) /\ t.used = Cardinality(Ocupados(t))
  BY NombresDeTabla
<1>2. \A n : (lookup(t, n) # -1) <=> (n \in N)
  BY LookupHalla
<1> QED
  BY <1>1, <1>2 DEF Exacta

(* The two hash tables of the DTD hold exactly the entities declared: used *)
(* counts them, lookup finds each of them and nothing else, whatever the   *)
(* hash, the initial power, the collisions and the times they grow.        *)
THEOREM SiempreTablasExactas == Spec => []TablasExactas
<1>1. InvDoProlog => TablasExactas
  BY TablaExacta DEF InvDoProlog, InvEstado, InvDtd, TablasExactas
<1> QED
  BY <1>1, InvDoPrologSiempre, PTL

(* An entity is marked open exactly while some parser of the stack reads   *)
(* it, and it is read once: no entity contains itself and no reference is  *)
(* refused for a mark left behind, for any document, options and handlers. *)
THEOREM SiempreEntidadesAbiertas == Spec => []EntidadesAbiertas
<1>1. InvDoProlog => EntidadesAbiertas
  BY SanasDef DEF InvDoProlog, InvEstado
<1> QED
  BY <1>1, InvDoPrologSiempre, PTL

(* Once an entity was not read in a document that does not stand alone, no *)
(* step declares an entity or an attribute, changes one, or gives a        *)
(* declaration to a handler; and nothing makes declarations count again.   *)
THEOREM NadaSeDeclaraSinLeer == Spec => NoSeSigueSinLeer
<1>1. InvDoProlog /\ [Next]_vars => [SinLeerNadaCuenta]_vars
  <2> SUFFICES ASSUME InvDoProlog, [Next]_vars, ~dtd.keepProcessing PROVE SinLeerNadaCuenta
    BY DEF SinLeerNadaCuenta
  <2>1. ~dtd'.keepProcessing /\ Congelada(dtd, dtd') /\ Prolonga(eventos, eventos')
    BY PasoNext DEF PasoBien, Congela
  <2> QED
    BY <2>1 DEF Congelada, Quitada, Prolonga, Declaran, SinLeerNadaCuenta
<1> QED
  BY <1>1, InvDoPrologSiempre, PTL DEF Spec, NoSeSigueSinLeer

=============================================================================
