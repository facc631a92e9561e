SPECIFICATION Spec
CONSTANTS
  MaxDia = 3
  MaxOps = 3
  MaxCaidas = 3
INVARIANTS CajaInv SaldoConservado RendidoFiel
PROPERTIES LimpiaRendido
CHECK_DEADLOCK FALSE
