SPECIFICATION Spec
CONSTANTS
    Operadores = {o1, o2}
    MaxConsultas = 3
INVARIANT RespuestaDelConsultado
