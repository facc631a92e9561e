\* The driver and one routine that brackets inside a transaction.
SPECIFICATION SpecTran
CONSTANTS
    Base = Base
    Trans = {teller, tx1}
    Rutinas = {MISCajusteUP}
    Campos = {f, g}
    NADA = NADA
    SSIZE = 4
    MaxNivel = 3
    MaxAnidadas = 2
INVARIANTS DriverInv SinBasura
PROPERTY NoPisa
