SPECIFICATION Spec
CONSTANTS
    MaxDia = 3
    MaxReg = 5
    MaxCaidas = 2
INVARIANTS
    UnaVez CaidaTotalizada ClaveUnica
CHECK_DEADLOCK FALSE
