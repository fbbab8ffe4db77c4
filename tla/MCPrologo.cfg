SPECIFICATION Spec
CONSTANTS
  Casos <- MCCasos
  Libres <- MCLibres
  hash <- MCHash
  referencias <- MCReferencias
  INIT_POWER = 1
INVARIANTS
  TypeOK
  ComoDeclara
  ModeloFiel
  TablasExactas
  EntidadesAbiertas
  AtributosDelPrimero
  OrdenDeEventos
PROPERTY
  NoSeSigueSinLeer
CHECK_DEADLOCK FALSE
