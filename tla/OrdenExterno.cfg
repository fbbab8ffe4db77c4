\* Two runs, the first of up to five documents in blocks of two: up to three
\* partitions, the last one not full; either may be killed.
CONSTANTS
  Tamanios = {1, 2}
  MaxDocs = 5
  MaxDocsLuego = 1
  MemSize = 2
  MaxCorridas = 2
  MaxCaidas = 1
SPECIFICATION Spec
INVARIANTS TypeOK Ordenado MismosDocumentos NadaPerdido
PROPERTY Termina
CHECK_DEADLOCK FALSE
