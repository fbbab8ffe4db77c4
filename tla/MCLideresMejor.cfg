\* Inputs of up to three documents.
CONSTANTS
  MCDocs = 3
  Entradas <- MCPocos
SPECIFICATION Spec
PROPERTY SigueAlMejor
CHECK_DEADLOCK FALSE
