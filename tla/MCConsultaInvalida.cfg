\* The texts the test program of the parser lists as not valid, on no documents.
CONSTANTS
  Entradas <- MCSinDocumentos
  Textos <- MCTextosInvalidos
  Terminos <- MCTerminos
  StopWords <- MCStop
  INT_MAX = 20
SPECIFICATION SpecBusqueda
INVARIANTS InvalidosRechazados
CHECK_DEADLOCK FALSE
