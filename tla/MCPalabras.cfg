CONSTANT Archivos <- MCArchivos
SPECIFICATION Spec
INVARIANTS LeidoComoXML PalabrasDelTexto
CHECK_DEADLOCK FALSE
