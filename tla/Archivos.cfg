SPECIFICATION Spec
CONSTANTS
    Manejos = 2
    Numeros = {1, 2, 3}
    Archivos = {"informe"}
    Modos = {"r", "w", "a"}
    Largo = 4
    Lineas = {1, 3}
    MaxTexto = 6
    MaxCaidas = 1
INVARIANTS ArchivosInv EscritoEsta LineaEntera
CHECK_DEADLOCK FALSE
