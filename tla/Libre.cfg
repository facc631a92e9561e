SPECIFICATION SpecCajero
CONSTANTS
    MaxSeq = 3
    MaxCaidas = 0
    QuienCae = {}
    Familias = {"normal"}
    FallosLinea = {105}
    ModoRT = "libre"
    PosibleOff = {FALSE}
    RespTardias = FALSE
INVARIANTS UnSoloRecuperador CanceladaEsAnulada
PROPERTIES DesenlaceEstable TransaccionTermina
