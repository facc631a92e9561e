SPECIFICATION FairSpec
CONSTANTS
  Cajeros = {a, b}
  Sup = sup
  Procesos = {a, sup}
  MaxSeq = 2
  MaxCaidas = 1
  MaxCortes = 1
  Faltan = TRUE
  Interrumpe = {a}
INVARIANTS
    ReenvioInv UnaVez EntradaTrasSalida
PROPERTIES PedidoSeLimpia ReentryTermina
CHECK_DEADLOCK FALSE
