\* Three documents and a stop list over three words, with counts 1 and 2.
CONSTANTS
  Palabras = {1, 2, 3}
  Pesos = {1, 2}
  Rutas = {d1, d2, d3}
  RutasStop = {s1}
  Roto = Roto
  Ninguna = Ninguna
SPECIFICATION MCSpec
INVARIANTS TypeOK LexicoOrdenado IdsDensos VectoresFieles MezclaCorrecta DocumentosCompletos
PROPERTIES IdsEstables ImplementaVocabulario Termina
CHECK_DEADLOCK FALSE
