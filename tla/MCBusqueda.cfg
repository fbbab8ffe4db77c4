\* Indexes of up to five documents and of 30 to 32; queries of up to two words.
CONSTANTS
  Entradas <- MCEntradas
  Textos <- MCTextos
  Terminos <- MCTerminos
  StopWords <- MCStop
  INT_MAX = 20
SPECIFICATION SpecBusqueda
INVARIANTS TypeOK UnSoloLugar OffsetsResuelven SinLiderSoloSiNoCaben CosenoExacto ConsultaExacta TodasLasRespuestas PorRelevancia RespuestasDelMejor
CHECK_DEADLOCK FALSE
