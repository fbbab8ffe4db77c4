CONSTANTS
  Casos <- MCCasos
  MaxParadas = 2
  MaxCortes = 2
  MaxFuera = 1
SPECIFICATION Spec
INVARIANTS TypeOK ComoSinCortes MarcasYAlcances 
CHECK_DEADLOCK FALSE
