CONSTANTS
  Clientes = {c1, c2}
  Letras = {a, b}
  a = a
  b = b
  Nul = Nul
  Sin = Sin
  Consultas <- MCConsultas
  Procesar <- MCProcesar
  Capacidad = 3
  MaxActivos = 2
  MaxCaidas = 0
  MaxAbortos = 0
SPECIFICATION Spec
INVARIANT RespuestaPropia
CHECK_DEADLOCK FALSE
