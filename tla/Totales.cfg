SPECIFICATION Spec
CONSTANTS
    Importes = {1, 2}
    MaxReg = 4
    MaxCaidas = 1
INVARIANTS MarcasInv ReconstruccionExacta UnaReversa
PROPERTY CadaPaso
CHECK_DEADLOCK FALSE
