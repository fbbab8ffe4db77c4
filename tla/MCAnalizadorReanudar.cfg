CONSTANTS
  Casos <- MCReanudar
  MaxParadas = 1
  MaxCortes = 1
  MaxFuera = 0
SPECIFICATION Spec
INVARIANTS SuspenderNoCambia
CHECK_DEADLOCK FALSE
