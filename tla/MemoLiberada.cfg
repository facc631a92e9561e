SPECIFICATION Spec
CONSTANTS
    MaxSeq = 2
    MaxCaidas = 2
    QuienCae = {"op", "rt"}
    Familias = {"local", "normal", "operador"}
    FallosLinea = {105}
    ModoRT = "libre"
    PosibleOff = {FALSE}
    RespTardias = FALSE
INVARIANT ContadaAplicada
