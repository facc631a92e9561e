SPECIFICATION Spec
CONSTANTS
    MaxSeq = 3
    MaxCaidas = 1
    QuienCae = {"op"}
    Familias = {"local", "normal", "operador"}
    FallosLinea = {105}
    ModoRT = "serie"
    PosibleOff = {TRUE}
    RespTardias = FALSE
INVARIANTS
    IInv CuentaUnaVez Tomada98EnUso NoLostInFlight FilaConcuerda ContadaAplicada
PROPERTY
    ImplementaDesenlace
