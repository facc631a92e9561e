SPECIFICATION FairSpec
CONSTANTS
    Cajeros = {c1, c2}
    Supervisores = {s1}
    Ciclo = 3
    MaxPedidos = 2
    MaxCanal = 1
    MaxFallos = 1
    Retiros = TRUE
INVARIANTS
    SupervisionInv ConcedePedido NadieEsperaEnVano
PROPERTIES
    BorraLoDecidido PedidoTermina
CHECK_DEADLOCK FALSE
