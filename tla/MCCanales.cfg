CONSTANTS
  Clientes = {c1, c2}
  Letras = {a, b}
  a = a
  b = b
  Nul = Nul
  Sin = Sin
  Consultas <- MCDosConsultas
  Procesar <- MCProcesar
  Capacidad = 1
  MaxActivos = 1
  MaxCaidas = 1
  MaxAbortos = 1
SPECIFICATION Spec
INVARIANT MotorEnSusCanales
PROPERTIES ImplementaServicio Atendido
CHECK_DEADLOCK FALSE
