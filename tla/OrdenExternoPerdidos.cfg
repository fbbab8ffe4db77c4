\* The first of two runs is killed.
CONSTANTS
  Tamanios = {1, 2}
  MaxDocs = 2
  MaxDocsLuego = 2
  MemSize = 1
  MaxCorridas = 2
  MaxCaidas = 1
SPECIFICATION Spec
INVARIANTS TodosLlegan
CHECK_DEADLOCK FALSE
