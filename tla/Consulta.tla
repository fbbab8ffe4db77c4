------------------------------ MODULE Consulta ------------------------------
(***************************************************************************)
(* QueryParser and Query: the text of a query, cut into words with a sign  *)
(* and a weight.  A text is a sequence of characters, a character a string *)
(* of length one; std::string's npos is the position after the last one.   *)
(***************************************************************************)
EXTENDS SequencesExt

CONSTANT INT_MAX   \* the largest int
ASSUME EnterosDelCompilador == INT_MAX \in Nat \ {0}

Mayusculas == <<"A", "B", "C", "D", "E", "F", "G", "H", "I", "J", "K", "L", "M",
                "N", "O", "P", "Q", "R", "S", "T", "U", "V", "W", "X", "Y", "Z">>
Minusculas == <<"a", "b", "c", "d", "e", "f", "g", "h", "i", "j", "k", "l", "m",
                "n", "o", "p", "q", "r", "s", "t", "u", "v", "w", "x", "y", "z">>
Digitos == <<"0", "1", "2", "3", "4", "5", "6", "7", "8", "9">>
Lugar(s, c) == CHOOSE i \in 1..Len(s) : s[i] = c

npos(str) == Len(str) + 1
Primera(str, lugares) == Min(lugares \cup {npos(str)})
find_first_of(str, d, desde) == Primera(str, { i \in desde..Len(str) : str[i] = d })
find_first_not_of(str, d, desde) == Primera(str, { i \in desde..Len(str) : str[i] # d })

(* Fault: one delimiter is skipped, not all of them.                       *)
tokenize_UnDelimitador(str, d) ==
  LET resto[p \in 1..(npos(str) + 1)] ==
        LET pos == find_first_of(str, d, p)
        IN  IF p > Len(str) THEN <<>> ELSE <<SubSeq(str, p, pos - 1)>> \o resto[pos + 1]
  IN  resto[1]

(* The runs of characters between delimiters: none is empty.               *)
tokenize(str, d) ==
  LET resto[p \in 1..npos(str)] ==
        LET lastPos == find_first_not_of(str, d, p)
            pos == find_first_of(str, d, lastPos)
        IN  IF lastPos = npos(str) THEN <<>> ELSE <<SubSeq(str, lastPos, pos - 1)>> \o resto[pos]
  IN  resto[1]

(* The number that digits say.                                             *)
ValorDe(digitos) == FoldLeft(LAMBDA n, c : 10 * n + Lugar(Digitos, c) - 1, 0, digitos)

(* istringstream >> weight, over a weight of 1: a sign and digits, and the *)
(* rest ignored.  What is not a number, or not an int, leaves the 1 in the *)
(* library of before C++11; in the later ones 0, or the nearest int.       *)
LeerPeso(str, cxx11) ==
  LET signo == str[1] \in {"+", "-"}
      ini == IF signo THEN 2 ELSE 1
      fin == Primera(str, { i \in ini..Len(str) : str[i] \notin ToSet(Digitos) })
      valor == ValorDe(SubSeq(str, ini, fin - 1))
      leido == IF str[1] = "-" THEN -valor ELSE valor
  IN  IF ini = fin THEN (IF cxx11 THEN 0 ELSE 1)
      ELSE IF leido \in (-INT_MAX - 1)..INT_MAX THEN leido
      ELSE IF ~cxx11 THEN 1
      ELSE IF leido > 0 THEN INT_MAX ELSE -INT_MAX - 1

(* Query::Query lowers the ASCII capitals.                                 *)
EnMinusculas(word) ==
  [i \in 1..Len(word) |->
     IF word[i] \in ToSet(Mayusculas) THEN Minusculas[Lugar(Mayusculas, word[i])] ELSE word[i]]
Query(word, included, excluded, weight) ==
  [word |-> EnMinusculas(word), included |-> included, excluded |-> excluded, weight |-> weight]

InvalidToken == [weight |-> 0]   \* InvalidTokenException

(* Fault: a weight of 0 is taken.                                          *)
processToken_PesoCero(token, cxx11) ==
  LET conSigno == token[1] \in {"+", "-"}
      texto == IF conSigno THEN Tail(token) ELSE token
      ws == tokenize(texto, "^")
  IN  IF Len(ws) = 1 THEN Query(texto, token[1] = "+", token[1] = "-", 1)
      ELSE IF Len(ws) = 2 THEN Query(ws[1], token[1] = "+", token[1] = "-", LeerPeso(ws[2], cxx11))
      ELSE InvalidToken

(* One sign is taken from the token; with one piece, the word is all of it.*)
processToken(token, cxx11) ==
  LET conSigno == token[1] \in {"+", "-"}
      texto == IF conSigno THEN Tail(token) ELSE token
      ws == tokenize(texto, "^")
      weight == IF Len(ws) = 2 THEN LeerPeso(ws[2], cxx11) ELSE 1
      word == IF Len(ws) = 2 THEN ws[1] ELSE texto
  IN  IF texto = <<>> \/ Len(ws) \notin {1, 2} \/ weight = 0 THEN InvalidToken
      ELSE Query(word, token[1] = "+", token[1] = "-", weight)

(* The words of a text, or the failure of any of them.                     *)
Parse(text, cxx11) ==
  LET tokens == tokenize(text, " ")
  IN  [i \in 1..Len(tokens) |-> processToken(tokens[i], cxx11)]
EsInvalida(query) == InvalidToken \in ToSet(query)
=============================================================================
