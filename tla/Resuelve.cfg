SPECIFICATION SpecLote
CONSTANTS
    MaxSeq = 2
    MaxCaidas = 1
    QuienCae = {"op", "rt"}
    Familias = {"local", "normal", "operador"}
    FallosLinea = {105}
    ModoRT = "serie"
    PosibleOff = {TRUE, FALSE}
    RespTardias = FALSE
PROPERTY CaidaResuelta
