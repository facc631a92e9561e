------------------------------- MODULE FileRW -------------------------------
(* Files of the OFB programs (csr/file_rw.c): a table of numbers, each with  *)
(* a FILE of the C library, which keeps what is written in a buffer until a  *)
(* flush, a close or a moment of its own.  The printed reports, the tape of  *)
(* the day and the interfaces are written line by line and read back line by *)
(* line through it.                                                          *)
EXTENDS Integers, Sequences, FiniteSets, SequencesExt, FiniteSetsExt

CONSTANTS
    Manejos,      \* handles of the table, 1 .. Manejos (eight in the code)
    Numeros,      \* numbers the programs pass
    Archivos,     \* paths
    Modos,        \* "r", "w", "a"
    Largo,        \* length of the field a line is read into
    Lineas,       \* lengths of the lines and pieces that are written
    MaxTexto,     \* bound: characters of a file
    MaxCaidas     \* bound: crashes of the process

ASSUME FileAssumption ==
    /\ {Manejos, Largo, MaxTexto, MaxCaidas} \subseteq Nat /\ Numeros \subseteq Int
    /\ Lineas \subseteq Nat /\ Modos \subseteq {"r", "w", "a"}

VARIABLES
    tabla,        \* f1_hdl .. f8_hdl
    sueltos,      \* numbers of the FILEs still open that nobody can reach
    disco,        \* what each path holds; NoEsta before it is created
    dicho,        \* history: characters reported as written in each path
    firme,        \* history: those reported before a flush or a close
    ajeno,        \* history: paths file_write was used on while open to read
    lectura,      \* last line read: it had its end, characters given and consumed
    caidas

vars == <<tabla, sueltos, disco, dicho, firme, ajeno, lectura, caidas>>

Caracter == {"c", "nl"}
NoEsta == <<"no esta">>
Cerrado == [arch |-> "-", modo |-> "-", pos |-> 0, fin |-> FALSE, buf |-> <<>>]
Abierto(arch, modo) == [arch |-> arch, modo |-> modo, pos |-> 0, fin |-> FALSE, buf |-> <<>>]

EnTabla(num) == num \in 1 .. Manejos

\* _file_gethdl: no FILE for a number outside the table.
Manejo(num) == IF EnTabla(num) THEN tabla[num] ELSE Cerrado
Lee(num) == Manejo(num).modo = "r"

Escribe(num) == Manejo(num).modo \in {"w", "a"}

Texto(arch) == IF disco[arch] = NoEsta THEN <<>> ELSE disco[arch]

\* Characters of a path that wait in a buffer: that of its only writer.
Escritores(arch) == {n \in 1 .. Manejos : Escribe(n) /\ tabla[n].arch = arch}
EnBuffer(arch) ==
    IF Escritores(arch) = {} THEN 0 ELSE Len(tabla[CHOOSE n \in Escritores(arch) : TRUE].buf)

Init ==
    /\ tabla = [n \in 1 .. Manejos |-> Cerrado] /\ sueltos = {}
    /\ disco = [a \in Archivos |-> NoEsta]
    /\ dicho = [a \in Archivos |-> 0] /\ firme = [a \in Archivos |-> 0]
    /\ ajeno = {}
    /\ lectura = [fin |-> FALSE, dados |-> 0, pasados |-> 0] /\ caidas = 0

-----------------------------------------------------------------------------
(* file_open and file_close.                                               *)

\* -103, file number already in use.  A plausible fault: not looked at.
SinMirar(num) == FALSE
EnUso(num) == Manejo(num) # Cerrado

\* What fopen does to the path.  The programs close what they wrote before
\* they read it, and a path has one writer.
fopen(arch, modo) ==
    /\ modo = "r" => disco[arch] # NoEsta                   \* else -99
    /\ \A n \in 1 .. Manejos : tabla[n].arch = arch => modo = "r" /\ Lee(n)
    /\ disco' = IF modo = "w" \/ (modo = "a" /\ disco[arch] = NoEsta)
                THEN [disco EXCEPT ![arch] = <<>>] ELSE disco
    /\ dicho' = [dicho EXCEPT ![arch] = IF modo = "w" THEN 0 ELSE @]
    /\ firme' = [firme EXCEPT ![arch] = IF modo = "w" THEN 0 ELSE @]
    /\ ajeno' = IF modo = "w" THEN ajeno \ {arch} ELSE ajeno

\* _file_sethdl: a number outside the table keeps nothing.
file_open(num, arch, modo) ==
    /\ ~EnUso(num)
    /\ fopen(arch, modo)
    /\ tabla' = IF EnTabla(num) THEN [tabla EXCEPT ![num] = Abierto(arch, modo)] ELSE tabla
    /\ sueltos' = IF EnTabla(num) /\ tabla[num] = Cerrado THEN sueltos
                  ELSE sueltos \cup {num}
    /\ UNCHANGED <<lectura, caidas>>

\* The buffer of a number goes to its path.  A plausible fault: the handle is
\* forgotten and the FILE is not flushed.
SinVolcar(num) == disco
Volcado(num) ==
    IF Escribe(num) THEN [disco EXCEPT ![tabla[num].arch] = @ \o tabla[num].buf] ELSE disco

Afirma(num) ==
    IF Escribe(num) THEN [firme EXCEPT ![tabla[num].arch] = dicho[tabla[num].arch]] ELSE firme

file_close(num) ==
    /\ EnTabla(num) /\ EnUso(num)
    /\ disco' = Volcado(num) /\ firme' = Afirma(num)
    /\ tabla' = [tabla EXCEPT ![num] = Cerrado]
    /\ UNCHANGED <<sueltos, dicho, ajeno, lectura, caidas>>

file_flush(num) ==
    /\ Escribe(num)
    /\ disco' = Volcado(num) /\ firme' = Afirma(num)
    /\ tabla' = [tabla EXCEPT ![num].buf = <<>>]
    /\ UNCHANGED <<sueltos, dicho, ajeno, lectura, caidas>>

\* The C library writes what fills its buffer, also in the middle of a line.
Vuelca(num) ==
    /\ Escribe(num)
    /\ \E n \in DOMAIN tabla[num].buf :
          /\ disco' = [disco EXCEPT ![tabla[num].arch] = @ \o SubSeq(tabla[num].buf, 1, n)]
          /\ tabla' = [tabla EXCEPT ![num].buf = SubSeq(@, n + 1, Len(@))]
    /\ UNCHANGED <<sueltos, dicho, firme, ajeno, lectura, caidas>>

-----------------------------------------------------------------------------
(* Writing.                                                                *)

C(n) == [i \in 1 .. n |-> "c"]

Cabe(arch, texto) == Len(Texto(arch)) + EnBuffer(arch) + Len(texto) <= MaxTexto

Pone(num, texto) ==
    LET arch == tabla[num].arch
    IN  /\ Cabe(arch, texto)
        /\ tabla' = [tabla EXCEPT ![num].buf = @ \o texto]
        /\ dicho' = [dicho EXCEPT ![arch] = @ + Len(texto)]

\* fputs fails on a FILE open to read, and -100 says so.
file_putline(num, n) ==
    /\ Escribe(num)
    /\ Pone(num, Append(C(n), "nl"))
    /\ UNCHANGED <<sueltos, disco, firme, ajeno, lectura, caidas>>

\* fwrite fails with 0 items, never with EOF: the answer is that it was written.
file_write(num, n) ==
    /\ \/ Escribe(num) /\ Pone(num, C(n)) /\ UNCHANGED ajeno
       \/ /\ Lee(num) /\ dicho[tabla[num].arch] + n <= MaxTexto
          /\ dicho' = [dicho EXCEPT ![tabla[num].arch] = @ + n]
          /\ ajeno' = ajeno \cup {tabla[num].arch}
          /\ UNCHANGED tabla
    /\ UNCHANGED <<sueltos, disco, firme, lectura, caidas>>

-----------------------------------------------------------------------------
(* Reading.                                                                *)

Resto(num) == LET t == Texto(tabla[num].arch) IN SubSeq(t, tabla[num].pos + 1, Len(t))

\* fgets: up to the end of the line, Largo - 1 characters or the end.
Linea(num) ==
    LET r == Resto(num)
        hasta == Min({Largo - 1, Len(r)} \cup {i \in DOMAIN r : r[i] = "nl"})
    IN  SubSeq(r, 1, hasta)

Letras(texto) == Cardinality({i \in DOMAIN texto : texto[i] = "c"})

\* The last character goes, as if it were the end of the line.  A plausible
\* fault takes two ("\r\n").
SinDosUltimos(linea) == Letras(SubSeq(linea, 1, Len(linea) - 2))
SinElUltimo(linea) == Letras(SubSeq(linea, 1, Len(linea) - 1))

file_getline(num) ==
    /\ Lee(num)
    /\ LET l == Linea(num)
       IN  IF l = <<>>                                          \* -1
           THEN /\ tabla' = [tabla EXCEPT ![num].fin = TRUE]
                /\ UNCHANGED lectura
           ELSE /\ lectura' = [fin |-> Last(l) = "nl", dados |-> SinElUltimo(l),
                               pasados |-> Letras(l)]
                /\ tabla' = [tabla EXCEPT ![num].pos = @ + Len(l),
                                          ![num].fin = Len(l) < Largo - 1 /\ Last(l) # "nl"]
    /\ UNCHANGED <<sueltos, disco, dicho, firme, ajeno, caidas>>

\* The end is known only after a reading that fell short of it.
file_read(num) ==
    /\ Lee(num) /\ ~tabla[num].fin                              \* else -1
    /\ LET n == Min({Largo, Len(Resto(num))})
       IN  tabla' = [tabla EXCEPT ![num].pos = @ + n, ![num].fin = n < Largo]
    /\ UNCHANGED <<sueltos, disco, dicho, firme, ajeno, lectura, caidas>>

-----------------------------------------------------------------------------

\* The process dies: what was in the buffers is lost.
Cae ==
    /\ caidas < MaxCaidas
    /\ caidas' = caidas + 1
    /\ tabla' = [n \in 1 .. Manejos |-> Cerrado] /\ sueltos' = {}
    /\ dicho' = [a \in Archivos |-> Len(Texto(a))]
    /\ UNCHANGED <<disco, firme, ajeno, lectura>>

Next ==
    \/ \E num \in Numeros :
          \/ \E arch \in Archivos, modo \in Modos : file_open(num, arch, modo)
          \/ file_close(num) \/ file_flush(num) \/ Vuelca(num)
          \/ \E n \in Lineas : file_putline(num, n) \/ file_write(num, n)
          \/ file_getline(num) \/ file_read(num)
    \/ Cae

Spec == Init /\ [][Next]_vars

-----------------------------------------------------------------------------
(* Properties.                                                             *)

\* A FILE open to read has nothing to write; nobody reads past the end.
Abiertos == [arch : Archivos, modo : Modos, pos : Nat, fin : BOOLEAN, buf : Seq(Caracter)]
TypeOK ==
    /\ tabla \in [1 .. Manejos -> Abiertos \cup {Cerrado}]
    /\ \A n \in 1 .. Manejos : EnUso(n) =>
          /\ tabla[n].pos <= Len(Texto(tabla[n].arch))
          /\ Lee(n) => tabla[n].buf = <<>>
    /\ disco \in [Archivos -> Seq(Caracter) \cup {NoEsta}]
    /\ dicho \in [Archivos -> Nat] /\ firme \in [Archivos -> Nat]
    /\ ajeno \subseteq Archivos

\* A FILE nobody can write, read or close, nor flush its buffer, was opened with a
\* number outside the table, which file_open takes like any other: a number in use
\* is never given to a second FILE.
NingunoSuelto == \A num \in sueltos : ~EnTabla(num)

\* What the routines said they wrote is in the path or in a buffer on its
\* way, over every order of opens, flushes, closes and crashes, except what
\* file_write was given for a file open to read, which it says it wrote.
EscritoEsta == \A a \in Archivos \ ajeno : dicho[a] = Len(Texto(a)) + EnBuffer(a)

\* What was written before a flush or a close survives a crash, with the same
\* exception.
FirmeQueda == \A a \in Archivos \ ajeno : firme[a] <= Len(Texto(a))

\* No FILE of the table is lost, and what was flushed is on the path.
ArchivosInv == TypeOK /\ NingunoSuelto /\ FirmeQueda

\* A line read up to its end has all its characters: each piece of a line longer
\* than the field, and a line that a crash or file_write left without its end,
\* loses the last one.
LineaEntera == lectura.fin => lectura.dados = lectura.pasados

=============================================================================
