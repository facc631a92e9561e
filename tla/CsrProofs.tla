---------------------------- MODULE CsrProofs -------------------------------
(* Proofs about two modules of the OFB runtime library (MOA/src/csr).        *)
(* The files: for every table, every set of paths and every length, what the *)
(* routines say they wrote is in its path or on its way to it, and a line    *)
(* that is read whole is given whole.  The transactions: for every number of *)
(* slots, fields and levels, each open level has its slot, and its end takes *)
(* its own fields and no others.                                             *)
EXTENDS FileRW, DtTran, TLAPS, FiniteSetTheorems, SequenceTheorems, WellFoundedInduction

-----------------------------------------------------------------------------
(* The inductive invariant.  ArchivosInv and EscritoEsta are not inductive:  *)
(* a flush would be lost on a path that does not exist, and two writers of   *)
(* one path would count for one.                                             *)

\* A path that is open exists.
AbiertoEsta == \A n \in 1 .. Manejos : EnUso(n) => disco[tabla[n].arch] # NoEsta

\* Who writes a path has it alone.
UnEscritor ==
    \A n, m \in 1 .. Manejos :
        Escribe(n) /\ EnUso(m) /\ tabla[m].arch = tabla[n].arch => m = n

AInv ==
    /\ TypeOK
    /\ AbiertoEsta
    /\ UnEscritor
    /\ EscritoEsta
    /\ FirmeQueda
    /\ NingunoSuelto
    /\ LineaEntera

LEMMA Texto_ ==
    ASSUME disco \in [Archivos -> Seq(Caracter) \cup {NoEsta}], NEW a \in Archivos
    PROVE  /\ Texto(a) \in Seq(Caracter)
           /\ disco[a] # NoEsta => Texto(a) = disco[a]
BY DEF Texto

LEMMA Distintos == NoEsta \notin Seq(Caracter)
<1> SUFFICES ASSUME NoEsta \in Seq(Caracter) PROVE FALSE
  OBVIOUS
<1>1. NoEsta[1] \in Caracter
  <2>1. Len(NoEsta) = 1 BY DEF NoEsta
  <2> QED BY <2>1
<1> QED BY <1>1 DEF NoEsta, Caracter

-----------------------------------------------------------------------------
(* The operators.                                                          *)

\* A number that can be written or read is in the table and has a FILE.
LEMMA Dentro ==
    ASSUME TypeOK, NEW num \in Int, Escribe(num) \/ Lee(num)
    PROVE  /\ num \in 1 .. Manejos /\ EnUso(num) /\ tabla[num] \in Abiertos
           /\ Manejo(num) = tabla[num] /\ ~(Escribe(num) /\ Lee(num))
<1>1. num \in 1 .. Manejos /\ Manejo(num) = tabla[num] /\ tabla[num] # Cerrado
  BY DEF Escribe, Lee, Manejo, EnTabla, Cerrado
<1> QED
  BY <1>1 DEF TypeOK, Escribe, Lee, EnUso

LEMMA EnUsoAbierto ==
    ASSUME TypeOK, NEW n \in 1 .. Manejos
    PROVE  EnUso(n) <=> tabla[n] \in Abiertos
<1>1. Cerrado \notin Abiertos
  <2> SUFFICES ASSUME Cerrado \in Abiertos PROVE FALSE
    OBVIOUS
  <2>1. Cerrado.modo = "-" /\ Cerrado.modo \in Modos
    BY DEF Cerrado, Abiertos
  <2> QED
    BY <2>1, FileAssumption
<1>2. tabla[n] \in Abiertos \cup {Cerrado} /\ Manejo(n) = tabla[n]
  BY DEF TypeOK, Manejo, EnTabla
<1> QED
  BY <1>1, <1>2 DEF EnUso

\* Who writes a path, and what waits for it, of any table.
EscritoresDe(T, a) == {n \in 1 .. Manejos : T[n].modo \in {"w", "a"} /\ T[n].arch = a}
BufferDe(T, a) ==
    IF EscritoresDe(T, a) = {} THEN 0 ELSE Len(T[CHOOSE n \in EscritoresDe(T, a) : TRUE].buf)

LEMMA DeLaTabla ==
    ASSUME NEW a
    PROVE  /\ EnBuffer(a) = BufferDe(tabla, a)
           /\ EnBuffer(a)' = BufferDe(tabla', a)
<1>1. Escritores(a) = EscritoresDe(tabla, a)
  BY DEF Escritores, EscritoresDe, Escribe, Manejo, EnTabla
<1>2. Escritores(a)' = EscritoresDe(tabla', a)
  BY DEF Escritores, EscritoresDe, Escribe, Manejo, EnTabla
<1> QED
  BY <1>1, <1>2 DEF EnBuffer, BufferDe

LEMMA UnoSolo ==
    ASSUME NEW T, NEW a, NEW n, EscritoresDe(T, a) = {n}
    PROVE  BufferDe(T, a) = Len(T[n].buf)
<1>1. (CHOOSE m \in {n} : TRUE) = n
  OBVIOUS
<1> QED
  BY <1>1 DEF BufferDe

LEMMA Ninguno ==
    ASSUME NEW T, NEW a, EscritoresDe(T, a) = {}
    PROVE  BufferDe(T, a) = 0
BY DEF BufferDe

\* A path whose writers and buffers stay has the same waiting for it.
LEMMA MismoBuffer ==
    ASSUME NEW T, NEW U, NEW a, EscritoresDe(U, a) = EscritoresDe(T, a),
           \A n \in EscritoresDe(T, a) : U[n].buf = T[n].buf
    PROVE  BufferDe(U, a) = BufferDe(T, a)
<1>1. CASE EscritoresDe(T, a) = {}
  BY <1>1 DEF BufferDe
<1>2. CASE EscritoresDe(T, a) # {}
  <2>1. (CHOOSE n \in EscritoresDe(T, a) : TRUE) \in EscritoresDe(T, a)
    BY <1>2
  <2> QED
    BY <1>2, <2>1 DEF BufferDe
<1> QED BY <1>1, <1>2

\* The writer of a path, alone with it.
LEMMA SuEscritor ==
    ASSUME TypeOK, UnEscritor, NEW num \in Int, Escribe(num)
    PROVE  /\ EscritoresDe(tabla, tabla[num].arch) = {num}
           /\ EnBuffer(tabla[num].arch) = Len(tabla[num].buf)
           /\ \A m \in 1 .. Manejos : EnUso(m) /\ tabla[m].arch = tabla[num].arch => m = num
<1>1. num \in 1 .. Manejos /\ EnUso(num)
  BY Dentro
<1>2. \A m \in 1 .. Manejos : EnUso(m) /\ tabla[m].arch = tabla[num].arch => m = num
  BY <1>1 DEF UnEscritor
<1>3. \A m \in EscritoresDe(tabla, tabla[num].arch) : m = num
  BY <1>2 DEF EscritoresDe, EnUso, Manejo, EnTabla, Cerrado
<1>4. num \in EscritoresDe(tabla, tabla[num].arch)
  BY <1>1 DEF EscritoresDe, Escribe, Manejo, EnTabla
<1>5. EscritoresDe(tabla, tabla[num].arch) = {num}
  BY <1>3, <1>4
<1> QED
  BY <1>2, <1>5, UnoSolo, DeLaTabla

\* The least of a finite set of integers from -1 on.
LEMMA MinEsta ==
    ASSUME NEW S \in SUBSET Int, S # {}, \A x \in S : x >= -1
    PROVE  Min(S) \in S /\ \A x \in S : Min(S) <= x
<1> DEFINE T == {0 .. x + 1 : x \in S}
<1>1. \A x \in S : x + 1 \in Nat
  OBVIOUS
<1>2. T \subseteq FiniteSubsetsOf(Nat) /\ T # {}
  <2>1. ASSUME NEW x \in S PROVE 0 .. x + 1 \in FiniteSubsetsOf(Nat)
    <3>1. 0 \in Int /\ x + 1 \in Int
      BY <1>1
    <3>2. IsFiniteSet(0 .. x + 1)
      BY <3>1, FS_Interval
    <3> QED
      BY <3>2 DEF FiniteSubsetsOf
  <2> QED
    BY <2>1
<1>3. PICK X \in T : \A Y \in T : <<Y, X>> \notin StrictSubsetOrdering(Nat)
  BY <1>2, FS_StrictSubsetOrderingWellFounded, WFMin
<1>4. PICK x \in S : X = 0 .. x + 1
  BY <1>3
<1>5. \A z \in S : x <= z
  <2> SUFFICES ASSUME NEW z \in S, z < x PROVE FALSE
    OBVIOUS
  <2>1. 0 .. z + 1 \in SUBSET X /\ 0 .. z + 1 # X
    BY <1>1, <1>4
  <2>2. <<0 .. z + 1, X>> \in StrictSubsetOrdering(Nat)
    BY <1>1, <1>4, <2>1 DEF StrictSubsetOrdering
  <2> QED
    BY <1>3, <2>2
<1> QED BY <1>5 DEF Min

-----------------------------------------------------------------------------
(* Reading.                                                                *)

\* A line is a piece of what is left of the file.
LEMMA Linea_ ==
    ASSUME TypeOK, NEW num \in Int, Lee(num)
    PROVE  /\ Linea(num) \in Seq(Caracter)
           /\ tabla[num].pos + Len(Linea(num)) <= Len(Texto(tabla[num].arch))
           /\ Len(Resto(num)) = Len(Texto(tabla[num].arch)) - tabla[num].pos
           /\ Resto(num) \in Seq(Caracter)
<1> DEFINE t == Texto(tabla[num].arch)
           p == tabla[num].pos
           r == Resto(num)
           S == {Largo - 1, Len(r)} \cup {i \in DOMAIN r : r[i] = "nl"}
<1>1. /\ num \in 1 .. Manejos /\ EnUso(num) /\ tabla[num] \in Abiertos
  BY Dentro
<1>2. t \in Seq(Caracter) /\ p \in Nat /\ p <= Len(t)
  BY <1>1, Texto_ DEF TypeOK, Abiertos
<1>3. r = SubSeq(t, p + 1, Len(t))
  BY DEF Resto
<1>4. r \in Seq(Caracter) /\ Len(r) = Len(t) - p
  <2> HIDE DEF t, p, r
  <2> QED BY <1>2, <1>3, SubSeqProperties
<1>5. Min(S) \in Int /\ Min(S) <= Len(r) /\ Linea(num) = SubSeq(r, 1, Min(S))
  <2>1. S \in SUBSET Int /\ S # {} /\ \A x \in S : x >= -1
    <3> HIDE DEF r
    <3> QED BY <1>4, FileAssumption
  <2>2. Len(r) \in S
    OBVIOUS
  <2>3. Min(S) \in S /\ Min(S) <= Len(r)
    <3> HIDE DEF S
    <3> QED BY <2>1, <2>2, MinEsta
  <2> QED BY <2>1, <2>3 DEF Linea
<1>6. /\ SubSeq(r, 1, Min(S)) \in Seq(Caracter)
      /\ Len(SubSeq(r, 1, Min(S))) <= Len(r)
  <2> HIDE DEF S, r
  <2>1. CASE Min(S) < 1
    BY <2>1, <1>4, <1>5, SubSeqProperties
  <2>2. CASE Min(S) >= 1
    BY <2>2, <1>4, <1>5, SubSeqProperties
  <2> QED BY <2>1, <2>2, <1>5
<1> HIDE DEF S, r, t, p
<1> QED
  BY <1>2, <1>4, <1>5, <1>6 DEF r, t, p

\* Without its last character a line that has its end keeps all the others.
LEMMA SinFinal ==
    ASSUME NEW l \in Seq(Caracter), l # <<>>, Last(l) = "nl"
    PROVE  SinElUltimo(l) = Letras(l)
<1> DEFINE s == SubSeq(l, 1, Len(l) - 1)
<1>1. Len(l) \in Nat \ {0} /\ l[Len(l)] = "nl"
  BY DEF Last
<1>2. /\ DOMAIN s = 1 .. Len(l) - 1 /\ DOMAIN l = 1 .. Len(l)
      /\ \A i \in 1 .. Len(l) - 1 : s[i] = l[i]
  BY <1>1, SubSeqProperties
<1>3. {i \in DOMAIN s : s[i] = "c"} = {i \in DOMAIN l : l[i] = "c"}
  <2> HIDE DEF s
  <2> QED BY <1>1, <1>2
<1> QED
  BY <1>3 DEF SinElUltimo, Letras

-----------------------------------------------------------------------------
(* The steps.                                                              *)

LEMMA AInicial == Init => AInv
<1> SUFFICES ASSUME Init PROVE AInv
  OBVIOUS
<1>1. \A n \in 1 .. Manejos : tabla[n] = Cerrado /\ ~EnUso(n) /\ ~Escribe(n)
  BY DEF Init, EnUso, Escribe, Manejo, EnTabla, Cerrado
<1>2. \A a \in Archivos : Len(Texto(a)) = 0
  BY DEF Init, Texto
<1>3. TypeOK
  BY <1>1 DEF Init, TypeOK
<1>4. AbiertoEsta /\ UnEscritor
  BY <1>1 DEF AbiertoEsta, UnEscritor
<1>5. \A a \in Archivos : EnBuffer(a) = 0
  BY <1>1 DEF EnBuffer, Escritores
<1>6. EscritoEsta /\ FirmeQueda
  BY <1>2, <1>5 DEF EscritoEsta, FirmeQueda, Init
<1>7. NingunoSuelto /\ LineaEntera
  BY DEF NingunoSuelto, LineaEntera, Init
<1> QED
  BY <1>3, <1>4, <1>6, <1>7 DEF AInv

\* What a step of the writer of a path does: s goes to the path, b is left in
\* the buffer, k more characters are reported, and the FILE stays or, with
\* nothing in its buffer, is closed.
Escritura(num, s, b, k) ==
    LET arch == tabla[num].arch
    IN  /\ \/ tabla' = [tabla EXCEPT ![num] = [tabla[num] EXCEPT !.buf = b]]
           \/ b = <<>> /\ tabla' = [tabla EXCEPT ![num] = Cerrado]
        /\ disco' = [disco EXCEPT ![arch] = disco[arch] \o s]
        /\ dicho' = [dicho EXCEPT ![arch] = dicho[arch] + k]
        /\ \/ firme' = firme
           \/ b = <<>> /\ k = 0 /\ firme' = [firme EXCEPT ![arch] = dicho[arch]]
        /\ Len(s) + Len(b) = Len(tabla[num].buf) + k
        /\ UNCHANGED <<sueltos, ajeno, lectura>>

LEMMA PasoEscritor ==
    ASSUME AInv, NEW num \in Int, Escribe(num), NEW s \in Seq(Caracter),
           NEW b \in Seq(Caracter), NEW k \in Nat, Escritura(num, s, b, k)
    PROVE  AInv'
<1> DEFINE R == [tabla[num] EXCEPT !.buf = b]
<1>0. TypeOK /\ AbiertoEsta /\ UnEscritor /\ EscritoEsta /\ FirmeQueda
  BY DEF AInv
<1>a. num \in 1 .. Manejos /\ EnUso(num) /\ tabla[num] \in Abiertos /\ ~Lee(num)
  BY <1>0, Dentro
<1> PICK arch \in Archivos : arch = tabla[num].arch
  BY <1>a DEF Abiertos
<1>1. /\ num \in 1 .. Manejos /\ EnUso(num) /\ tabla[num] \in Abiertos /\ arch = tabla[num].arch
      /\ ~Lee(num)
  BY <1>a
<1>2. /\ EscritoresDe(tabla, arch) = {num} /\ EnBuffer(arch) = Len(tabla[num].buf)
      /\ \A m \in 1 .. Manejos : EnUso(m) /\ tabla[m].arch = arch => m = num
  BY <1>0, <1>1, SuEscritor
<1>3. disco[arch] \in Seq(Caracter) /\ Texto(arch) = disco[arch]
  BY <1>0, <1>1 DEF TypeOK, AbiertoEsta, Texto
<1>4. /\ disco' = [disco EXCEPT ![arch] = disco[arch] \o s]
      /\ dicho' = [dicho EXCEPT ![arch] = dicho[arch] + k]
      /\ Len(s) + Len(b) = Len(tabla[num].buf) + k
      /\ sueltos' = sueltos /\ ajeno' = ajeno /\ lectura' = lectura
  BY DEF Escritura
<1>5. /\ disco[arch] \o s \in Seq(Caracter) /\ disco[arch] \o s # NoEsta
      /\ Len(disco[arch] \o s) = Len(disco[arch]) + Len(s)
  BY <1>3, Distintos, ConcatProperties
<1>6. /\ disco' \in [Archivos -> Seq(Caracter) \cup {NoEsta}]
      /\ \A a \in Archivos : a # arch => Texto(a)' = Texto(a)
      /\ Texto(arch)' = disco[arch] \o s
      /\ Len(Texto(arch)') = Len(Texto(arch)) + Len(s)
      /\ disco'[arch] # NoEsta
      /\ \A a \in Archivos : a # arch => disco'[a] = disco[a]
  BY <1>0, <1>1, <1>3, <1>4, <1>5 DEF TypeOK, Texto
<1>7. /\ R \in Abiertos /\ R.arch = arch /\ R.buf = b /\ R.modo = tabla[num].modo
      /\ R.pos = tabla[num].pos /\ R # Cerrado
  <2>1. R \in Abiertos /\ R.arch = arch /\ R.buf = b /\ R.modo = tabla[num].modo
        /\ R.pos = tabla[num].pos
    BY <1>1 DEF Abiertos
  <2>2. tabla[num].modo # "-" /\ Cerrado.modo = "-"
    BY DEF Escribe, Manejo, Cerrado
  <2> QED
    BY <2>1, <2>2
<1>8. /\ tabla' \in [1 .. Manejos -> Abiertos \cup {Cerrado}]
      /\ \A m \in 1 .. Manejos : m # num => tabla'[m] = tabla[m]
      /\ tabla'[num] = R \/ (b = <<>> /\ tabla'[num] = Cerrado)
  <2> HIDE DEF R
  <2>1. tabla \in [1 .. Manejos -> Abiertos \cup {Cerrado}]
    BY <1>0 DEF TypeOK
  <2>2. \/ tabla' = [tabla EXCEPT ![num] = R]
        \/ b = <<>> /\ tabla' = [tabla EXCEPT ![num] = Cerrado]
    BY DEF Escritura, R
  <2>3. CASE tabla' = [tabla EXCEPT ![num] = R]
    BY <1>1, <1>7, <2>1, <2>3
  <2>4. CASE b = <<>> /\ tabla' = [tabla EXCEPT ![num] = Cerrado]
    BY <1>1, <2>1, <2>4
  <2> QED
    BY <2>2, <2>3, <2>4
<1>9. \A m \in 1 .. Manejos : /\ Manejo(m) = tabla[m] /\ Manejo(m)' = tabla'[m]
                              /\ EnUso(m)' <=> tabla'[m] # Cerrado
                              /\ EnUso(m) <=> tabla[m] # Cerrado
                              /\ Lee(m)' <=> tabla'[m].modo = "r"
                              /\ Lee(m) <=> tabla[m].modo = "r"
                              /\ Escribe(m)' <=> tabla'[m].modo \in {"w", "a"}
                              /\ Escribe(m) <=> tabla[m].modo \in {"w", "a"}
  BY DEF Manejo, EnUso, EnTabla, Lee, Escribe
<1> HIDE DEF R
<1>10. TypeOK'
  <2>1. /\ dicho' \in [Archivos -> Nat] /\ firme' \in [Archivos -> Nat] /\ ajeno' \subseteq Archivos
    <3>1. dicho \in [Archivos -> Nat] /\ firme \in [Archivos -> Nat] /\ ajeno \subseteq Archivos
      BY <1>0 DEF TypeOK
    <3>2. dicho[arch] + k \in Nat /\ dicho[arch] \in Nat
      BY <3>1
    <3>3. firme' = firme \/ firme' = [firme EXCEPT ![arch] = dicho[arch]]
      BY <1>1 DEF Escritura
    <3> QED
      BY <3>1, <3>2, <3>3, <1>4
  <2>2. ASSUME NEW m \in 1 .. Manejos, EnUso(m)'
        PROVE  tabla'[m].pos <= Len(Texto(tabla[m].arch)') /\ (Lee(m)' => tabla'[m].buf = <<>>)
    <3>1. CASE m # num
      <4>1. /\ tabla'[m] = tabla[m] /\ EnUso(m) /\ tabla[m] \in Abiertos /\ tabla[m].arch # arch
        BY <2>2, <3>1, <1>0, <1>2, <1>8, <1>9, EnUsoAbierto
      <4>2. Texto(tabla[m].arch)' = Texto(tabla[m].arch)
        BY <4>1, <1>6 DEF Abiertos, Texto
      <4>3. /\ tabla[m].pos <= Len(Texto(tabla[m].arch))
            /\ Lee(m) => tabla[m].buf = <<>>
        BY <4>1, <1>0 DEF TypeOK
      <4> QED
        BY <4>1, <4>2, <4>3, <1>9
    <3>2. CASE m = num
      <4>1. tabla'[m] = R
        BY <2>2, <3>2, <1>8, <1>9
      <4>2. tabla[num].pos <= Len(Texto(arch)) /\ tabla[num].pos \in Nat
        BY <1>0, <1>1 DEF TypeOK, Abiertos
      <4>3. Texto(tabla[m].arch)' = Texto(arch)' /\ tabla'[m].pos = tabla[num].pos
        BY <4>1, <1>7, <3>2 DEF Texto
      <4>4. Len(Texto(arch)) \in Nat /\ Len(s) \in Nat
        BY <1>3
      <4>5. ~Lee(m)'
        BY <4>1, <1>1, <1>7, <1>9, <3>2
      <4> QED
        BY <4>2, <4>3, <4>4, <4>5, <1>6
    <3> QED
      BY <3>1, <3>2
  <2> QED
    BY <2>1, <2>2, <1>6, <1>8 DEF TypeOK
<1>11. AbiertoEsta'
  <2> SUFFICES ASSUME NEW m \in 1 .. Manejos, EnUso(m)' PROVE disco'[tabla'[m].arch] # NoEsta
    BY DEF AbiertoEsta
  <2>1. CASE m # num
    <3>1. tabla'[m] = tabla[m] /\ EnUso(m) /\ tabla[m] \in Abiertos /\ tabla[m].arch # arch
      BY <2>1, <1>0, <1>2, <1>8, <1>9, EnUsoAbierto
    <3> QED
      BY <3>1, <1>0, <1>6 DEF AbiertoEsta, Abiertos
  <2>2. CASE m = num
    BY <2>2, <1>6, <1>7, <1>8, <1>9
  <2> QED BY <2>1, <2>2
<1>12. UnEscritor'
  <2> SUFFICES ASSUME NEW n \in 1 .. Manejos, NEW m \in 1 .. Manejos, Escribe(n)', EnUso(m)',
                      tabla'[m].arch = tabla'[n].arch
               PROVE  m = n
    BY DEF UnEscritor
  <2>1. \A i \in 1 .. Manejos : EnUso(i)' => EnUso(i) /\ tabla'[i].arch = tabla[i].arch
                                             /\ tabla'[i].modo = tabla[i].modo
    BY <1>1, <1>7, <1>8, <1>9
  <2>2. EnUso(n)'
    BY <1>9 DEF Cerrado
  <2> QED
    BY <2>1, <2>2, <1>0, <1>9 DEF UnEscritor
<1>13. /\ EnBuffer(arch)' = Len(b)
       /\ \A a \in Archivos : a # arch => EnBuffer(a)' = EnBuffer(a)
  <2>1. ASSUME NEW a \in Archivos, a # arch PROVE BufferDe(tabla', a) = BufferDe(tabla, a)
    <3>1. \A m \in EscritoresDe(tabla, a) : m # num /\ tabla'[m].buf = tabla[m].buf
      BY <2>1, <1>8 DEF EscritoresDe
    <3>2. ~(tabla'[num].modo \in {"w", "a"} /\ tabla'[num].arch = a)
      BY <2>1, <1>7, <1>8 DEF Cerrado
    <3>3. EscritoresDe(tabla', a) = EscritoresDe(tabla, a)
      BY <3>1, <3>2, <1>8 DEF EscritoresDe
    <3> QED
      BY <3>1, <3>3, MismoBuffer, Zenon
  <2>2. CASE tabla'[num] = R
    <3>1. EscritoresDe(tabla', arch) = {num}
      <4>1. ASSUME NEW m \in EscritoresDe(tabla', arch) PROVE m = num
        BY <1>2, <1>8 DEF EscritoresDe
      <4>2. num \in EscritoresDe(tabla', arch)
        BY <2>2, <1>1, <1>7, <1>9 DEF EscritoresDe
      <4> QED BY <4>1, <4>2
    <3>2. BufferDe(tabla', arch) = Len(b)
      BY <2>2, <3>1, <1>7, UnoSolo
    <3> QED
      BY <2>1, <3>2, DeLaTabla
  <2>3. CASE b = <<>> /\ tabla'[num] = Cerrado
    <3>1. EscritoresDe(tabla', arch) = {}
      BY <2>3, <1>2, <1>8 DEF EscritoresDe, Cerrado
    <3> QED
      BY <2>1, <2>3, <3>1, Ninguno, DeLaTabla
  <2> QED
    BY <2>2, <2>3, <1>8
<1>14. EscritoEsta'
  <2> SUFFICES ASSUME NEW a \in Archivos \ ajeno' PROVE dicho'[a] = Len(Texto(a)') + EnBuffer(a)'
    BY DEF EscritoEsta
  <2>1. dicho[a] = Len(Texto(a)) + EnBuffer(a) /\ dicho \in [Archivos -> Nat]
    BY <1>0, <1>4 DEF EscritoEsta, TypeOK
  <2>2. CASE a = arch
    <3>1. Len(disco[arch]) \in Nat /\ Len(s) \in Nat /\ Len(b) \in Nat /\ Len(tabla[num].buf) \in Nat
      BY <1>1, <1>3 DEF Abiertos
    <3>2. Texto(a)' = Texto(arch)' /\ EnBuffer(a)' = Len(b)
      BY <2>2, <1>13
    <3>3. dicho'[a] = dicho[arch] + k
      BY <2>1, <2>2, <1>4
    <3>4. dicho[arch] = Len(disco[arch]) + Len(tabla[num].buf)
      BY <2>1, <2>2, <1>2, <1>3
    <3>5. Len(Texto(a)') = Len(disco[arch]) + Len(s)
      BY <3>2, <1>3, <1>6
    <3>6. Len(s) + Len(b) = Len(tabla[num].buf) + k
      BY <1>4
    <3>7. dicho'[a] = (Len(disco[arch]) + Len(tabla[num].buf)) + k
      BY <3>3, <3>4
    <3>8. dicho'[a] = (Len(disco[arch]) + Len(s)) + Len(b)
      <4> DEFINE x == Len(disco[arch])
                 y == Len(s)
                 z == Len(b)
                 w == Len(tabla[num].buf)
      <4>1. x \in Nat /\ y \in Nat /\ z \in Nat /\ w \in Nat /\ y + z = w + k
        BY <3>1, <3>6
      <4>2. dicho'[a] = (x + w) + k
        BY <3>7
      <4> HIDE DEF x, y, z, w
      <4>3. dicho'[a] = (x + y) + z
        BY <4>1, <4>2
      <4> QED
        BY <4>3 DEF x, y, z
    <3>9. EnBuffer(a)' = Len(b)
      BY <3>2
    <3>10. dicho'[a] = Len(Texto(a)') + Len(b)
      BY <3>5, <3>8
    <3> QED
      BY <3>9, <3>10
  <2>3. CASE a # arch
    BY <2>1, <2>3, <1>4, <1>6, <1>13
  <2> QED BY <2>2, <2>3
<1>15. FirmeQueda'
  <2> SUFFICES ASSUME NEW a \in Archivos \ ajeno' PROVE firme'[a] <= Len(Texto(a)')
    BY DEF FirmeQueda
  <2>1. firme[a] <= Len(Texto(a)) /\ firme \in [Archivos -> Nat]
    BY <1>0, <1>4 DEF FirmeQueda, TypeOK
  <2>2. CASE a # arch
    BY <2>1, <2>2, <1>1, <1>6 DEF Escritura
  <2>3. CASE a = arch /\ firme' = firme
    <3>1. Len(Texto(arch)) \in Nat /\ Len(s) \in Nat
      BY <1>3
    <3> QED BY <2>1, <2>3, <3>1, <1>6
  <2>4. CASE a = arch /\ b = <<>> /\ k = 0 /\ firme' = [firme EXCEPT ![arch] = dicho[arch]]
    <3>1. firme'[a] = dicho[a] /\ dicho'[a] = dicho[a]
      <4>1. dicho \in [Archivos -> Nat]
        BY <1>0 DEF TypeOK
      <4> QED BY <4>1, <2>1, <2>4, <1>1, <1>4
    <3>2. dicho'[a] = Len(Texto(a)') + Len(b)
      BY <1>13, <1>14, <2>4 DEF EscritoEsta
    <3>3. PICK x \in Nat : x = Len(Texto(a)')
      <4>1. PICK y \in Seq(Caracter) : y = disco[arch] \o s
        BY <1>5
      <4>2. Len(y) \in Nat /\ Texto(a)' = y
        BY <1>6, <2>4, <4>1
      <4> QED BY <4>2, Zenon
    <3>4. Len(b) = 0
      BY <2>4
    <3>5. firme'[a] = x + 0
      BY <3>1, <3>2, <3>3, <3>4, Zenon
    <3> QED
      BY <3>3, <3>5
  <2> QED
    BY <2>2, <2>3, <2>4 DEF Escritura
<1>16. NingunoSuelto' /\ LineaEntera'
  BY <1>4 DEF AInv, NingunoSuelto, LineaEntera, EnTabla
<1> QED
  BY <1>10, <1>11, <1>12, <1>14, <1>15, <1>16 DEF AInv

\* A step that leaves the paths and what was reported as they are, and changes
\* one entry of the table that does not write: its position, or it is closed.
LEMMA PasoLector ==
    ASSUME AInv, NEW num \in 1 .. Manejos, EnUso(num), ~Escribe(num),
           NEW R, R = Cerrado \/ (/\ R \in Abiertos /\ R.arch = tabla[num].arch
                                  /\ R.modo = tabla[num].modo /\ R.buf = tabla[num].buf
                                  /\ R.pos <= Len(Texto(tabla[num].arch))),
           tabla' = [tabla EXCEPT ![num] = R], LineaEntera',
           UNCHANGED <<sueltos, disco, dicho, firme, ajeno>>
    PROVE  AInv'
<1>0. TypeOK /\ AbiertoEsta /\ UnEscritor /\ EscritoEsta /\ FirmeQueda
  BY DEF AInv
<1>1. /\ tabla' \in [1 .. Manejos -> Abiertos \cup {Cerrado}]
      /\ \A m \in 1 .. Manejos : m # num => tabla'[m] = tabla[m]
      /\ tabla'[num] = R
  BY <1>0 DEF TypeOK
<1>2. \A m \in 1 .. Manejos : /\ EnUso(m)' <=> tabla'[m] # Cerrado
                              /\ EnUso(m) <=> tabla[m] # Cerrado
                              /\ Lee(m)' <=> tabla'[m].modo = "r"
                              /\ Lee(m) <=> tabla[m].modo = "r"
                              /\ Escribe(m)' <=> tabla'[m].modo \in {"w", "a"}
                              /\ Escribe(m) <=> tabla[m].modo \in {"w", "a"}
  BY DEF Manejo, EnUso, EnTabla, Lee, Escribe
<1>3. \A a \in Archivos : Texto(a)' = Texto(a)
  BY DEF Texto
<1>4. \A m \in 1 .. Manejos : EnUso(m)' => /\ EnUso(m) /\ tabla'[m].arch = tabla[m].arch
                                           /\ tabla'[m].modo = tabla[m].modo
                                           /\ tabla'[m].buf = tabla[m].buf
  BY <1>1, <1>2
<1>5. TypeOK'
  <2>1. ASSUME NEW m \in 1 .. Manejos, EnUso(m)'
        PROVE  tabla'[m].pos <= Len(Texto(tabla[m].arch)') /\ (Lee(m)' => tabla'[m].buf = <<>>)
    <3>1. Texto(tabla[m].arch)' = Texto(tabla[m].arch)
      BY <2>1, <1>4 DEF Texto
    <3>2. tabla[m].pos <= Len(Texto(tabla[m].arch)) /\ (Lee(m) => tabla[m].buf = <<>>)
      BY <2>1, <1>0, <1>4 DEF TypeOK
    <3>3. tabla'[m].pos <= Len(Texto(tabla[m].arch))
      BY <2>1, <3>2, <1>1, <1>2
    <3> QED
      BY <2>1, <3>1, <3>2, <3>3, <1>2, <1>4
  <2> QED
    BY <2>1, <1>0, <1>1 DEF TypeOK
<1>6. AbiertoEsta' /\ UnEscritor'
  <2>1. AbiertoEsta'
    BY <1>0, <1>4 DEF AbiertoEsta
  <2>2. \A n \in 1 .. Manejos : Escribe(n)' => EnUso(n)'
    BY <1>2 DEF Cerrado
  <2> QED
    BY <2>1, <2>2, <1>0, <1>2, <1>4 DEF UnEscritor
<1>7. \A a \in Archivos : EnBuffer(a)' = EnBuffer(a)
  <2> SUFFICES ASSUME NEW a \in Archivos PROVE BufferDe(tabla', a) = BufferDe(tabla, a)
    BY DeLaTabla
  <2>1. ~(tabla'[num].modo \in {"w", "a"})
    BY <1>1, <1>2 DEF Cerrado
  <2>2. ~(tabla[num].modo \in {"w", "a"})
    BY <1>2
  <2>3. EscritoresDe(tabla', a) = EscritoresDe(tabla, a)
    BY <2>1, <2>2, <1>1 DEF EscritoresDe
  <2>4. \A m \in EscritoresDe(tabla, a) : tabla'[m].buf = tabla[m].buf
    BY <2>2, <1>1 DEF EscritoresDe
  <2>5. PICK T : T = tabla
    OBVIOUS
  <2>6. PICK U : U = tabla'
    OBVIOUS
  <2>7. BufferDe(U, a) = BufferDe(T, a)
    <3>1. EscritoresDe(U, a) = EscritoresDe(T, a)
      BY <2>3, <2>5, <2>6, Zenon
    <3>2. \A m \in EscritoresDe(T, a) : U[m].buf = T[m].buf
      BY <2>4, <2>5, <2>6, Zenon
    <3> QED BY ONLY <3>1, <3>2, MismoBuffer, Zenon
  <2> QED BY <2>5, <2>6, <2>7, Zenon
<1>8. EscritoEsta' /\ FirmeQueda'
  BY <1>0, <1>3, <1>7 DEF EscritoEsta, FirmeQueda
<1>9. NingunoSuelto'
  BY DEF AInv, NingunoSuelto, EnTabla
<1> QED
  BY <1>5, <1>6, <1>8, <1>9 DEF AInv

LEMMA PasoAjeno ==
    ASSUME AInv, NEW num \in Int, Lee(num), NEW n \in Nat,
           dicho' = [dicho EXCEPT ![tabla[num].arch] = @ + n],
           ajeno' = ajeno \cup {tabla[num].arch},
           UNCHANGED <<tabla, sueltos, disco, firme, lectura>>
    PROVE  AInv'
<1>0. TypeOK
  BY DEF AInv
<1>1. tabla[num].arch \in Archivos
  BY <1>0, Dentro DEF Abiertos
<1>2. \A a \in Archivos \ ajeno' : a \notin ajeno /\ dicho'[a] = dicho[a]
  BY <1>0, <1>1 DEF TypeOK
<1>3. \A a \in Archivos : EnBuffer(a)' = EnBuffer(a) /\ Texto(a)' = Texto(a)
  BY DEF EnBuffer, Escritores, Escribe, Manejo, EnTabla, Texto
<1>4. TypeOK'
  <2>1. dicho' \in [Archivos -> Nat] /\ ajeno' \subseteq Archivos
    BY <1>0, <1>1 DEF TypeOK
  <2> QED
    BY <2>1, <1>0 DEF TypeOK, EnUso, Manejo, EnTabla, Lee, Texto
<1>5. EscritoEsta' /\ FirmeQueda'
  BY <1>2, <1>3 DEF AInv, EscritoEsta, FirmeQueda
<1>6. AbiertoEsta' /\ UnEscritor' /\ NingunoSuelto' /\ LineaEntera'
  BY DEF AInv, AbiertoEsta, UnEscritor, NingunoSuelto, LineaEntera, EnUso, Escribe, Manejo, EnTabla
<1> QED
  BY <1>4, <1>5, <1>6 DEF AInv

LEMMA PasoCae == AInv /\ Cae => AInv'
<1> SUFFICES ASSUME AInv, Cae PROVE AInv'
  OBVIOUS
<1>0. TypeOK
  BY DEF AInv
<1>1. \A n \in 1 .. Manejos : tabla'[n] = Cerrado /\ ~EnUso(n)' /\ ~Escribe(n)'
  BY DEF Cae, EnUso, Escribe, Manejo, EnTabla, Cerrado
<1>2. \A a \in Archivos : Texto(a)' = Texto(a) /\ Texto(a) \in Seq(Caracter)
  BY <1>0, Texto_ DEF Cae, Texto, TypeOK
<1>3. TypeOK'
  <2>1. dicho' \in [Archivos -> Nat]
    BY <1>2 DEF Cae
  <2> QED
    BY <2>1, <1>0, <1>1 DEF TypeOK, Cae
<1>4. AbiertoEsta' /\ UnEscritor'
  BY <1>1 DEF AbiertoEsta, UnEscritor
<1>5. \A a \in Archivos : EnBuffer(a)' = 0
  BY <1>1 DEF EnBuffer, Escritores
<1>6. EscritoEsta'
  BY <1>2, <1>5 DEF EscritoEsta, Cae
<1>7. FirmeQueda'
  BY <1>2 DEF AInv, FirmeQueda, Cae
<1>8. NingunoSuelto' /\ LineaEntera'
  BY DEF AInv, NingunoSuelto, LineaEntera, Cae
<1> QED
  BY <1>3, <1>4, <1>6, <1>7, <1>8 DEF AInv

LEMMA PasoAbre ==
    ASSUME AInv, NEW num \in Int, NEW arch \in Archivos, NEW modo \in Modos,
           file_open(num, arch, modo)
    PROVE  AInv'
<1>0. TypeOK /\ AbiertoEsta /\ UnEscritor /\ EscritoEsta /\ FirmeQueda
  BY DEF AInv
<1>1. /\ modo = "r" => disco[arch] # NoEsta
      /\ \A n \in 1 .. Manejos : tabla[n].arch = arch => modo = "r" /\ Lee(n)
      /\ disco' = IF modo = "w" \/ (modo = "a" /\ disco[arch] = NoEsta)
                  THEN [disco EXCEPT ![arch] = <<>>] ELSE disco
      /\ dicho' = [dicho EXCEPT ![arch] = IF modo = "w" THEN 0 ELSE @]
      /\ firme' = [firme EXCEPT ![arch] = IF modo = "w" THEN 0 ELSE @]
      /\ ajeno' = IF modo = "w" THEN ajeno \ {arch} ELSE ajeno
      /\ lectura' = lectura /\ ~EnUso(num)
  BY DEF file_open, fopen
<1>2. \A m \in 1 .. Manejos : /\ EnUso(m)' <=> tabla'[m] # Cerrado
                              /\ EnUso(m) <=> tabla[m] # Cerrado
                              /\ Lee(m)' <=> tabla'[m].modo = "r"
                              /\ Lee(m) <=> tabla[m].modo = "r"
                              /\ Escribe(m)' <=> tabla'[m].modo \in {"w", "a"}
                              /\ Escribe(m) <=> tabla[m].modo \in {"w", "a"}
  BY DEF Manejo, EnUso, EnTabla, Lee, Escribe
<1>3. Abierto(arch, modo) \in Abiertos /\ Abierto(arch, modo).pos = 0 /\ Abierto(arch, modo).buf = <<>>
      /\ Abierto(arch, modo).arch = arch /\ Abierto(arch, modo).modo = modo
  BY DEF Abierto, Abiertos
<1>4. /\ tabla' \in [1 .. Manejos -> Abiertos \cup {Cerrado}]
      /\ \A m \in 1 .. Manejos : m # num => tabla'[m] = tabla[m]
      /\ num \in 1 .. Manejos => tabla'[num] = Abierto(arch, modo)
  <2>1. tabla \in [1 .. Manejos -> Abiertos \cup {Cerrado}]
    BY <1>0 DEF TypeOK
  <2>2. tabla' = IF num \in 1 .. Manejos THEN [tabla EXCEPT ![num] = Abierto(arch, modo)] ELSE tabla
    BY DEF file_open, EnTabla
  <2> HIDE DEF Abierto
  <2> QED
    BY <2>1, <2>2, <1>3
<1> HIDE DEF Abierto
<1>5. /\ disco' \in [Archivos -> Seq(Caracter) \cup {NoEsta}]
      /\ \A a \in Archivos : a # arch => disco'[a] = disco[a] /\ Texto(a)' = Texto(a)
      /\ modo = "w" => disco'[arch] = <<>>
      /\ modo # "w" => Texto(arch)' = Texto(arch)
      /\ disco'[arch] # NoEsta
  <2>1. disco \in [Archivos -> Seq(Caracter) \cup {NoEsta}] /\ <<>> \in Seq(Caracter) /\ <<>> # NoEsta
    <3>1. <<>> \in Seq(Caracter)
      OBVIOUS
    <3>2. <<>> # NoEsta
      BY <3>1, Distintos
    <3> QED BY <3>1, <3>2, <1>0 DEF TypeOK
  <2>2. \A a \in Archivos : a # arch => disco'[a] = disco[a] /\ Texto(a)' = Texto(a)
    <3>1. disco' = disco \/ disco' = [disco EXCEPT ![arch] = <<>>]
      <4>1. disco' = IF modo = "w" \/ (modo = "a" /\ disco[arch] = NoEsta)
                     THEN [disco EXCEPT ![arch] = <<>>] ELSE disco
        BY <1>1
      <4> QED BY <4>1
    <3>2. \A a \in Archivos : a # arch => disco'[a] = disco[a]
      BY <2>1, <3>1
    <3> QED
      BY <3>2 DEF Texto
  <2>3. modo \in {"r", "w", "a"}
    BY FileAssumption
  <2>4. CASE modo = "w"
    BY <2>1, <2>2, <2>4, <1>1
  <2>5. CASE modo = "a" /\ disco[arch] = NoEsta
    <3>1. disco' = [disco EXCEPT ![arch] = <<>>]
      BY <2>5, <1>1
    <3>2. Texto(arch)' = Texto(arch)
      BY <2>1, <2>5, <3>1 DEF Texto
    <3> QED BY <3>1, <3>2, <2>1, <2>2, <2>5
  <2>6. CASE modo # "w" /\ disco[arch] # NoEsta
    BY <2>1, <2>2, <2>6, <1>1 DEF Texto
  <2> QED
    BY <2>3, <2>4, <2>5, <2>6, <1>1
<1>6. \A m \in 1 .. Manejos : m # num /\ tabla[m].arch = arch => modo = "r" /\ Lee(m)
  BY <1>1
<1>7. TypeOK'
  <2>1. dicho' \in [Archivos -> Nat] /\ firme' \in [Archivos -> Nat] /\ ajeno' \subseteq Archivos
    BY <1>0, <1>1 DEF TypeOK
  <2>2. ASSUME NEW m \in 1 .. Manejos, EnUso(m)', m # num
        PROVE  tabla'[m].pos <= Len(Texto(tabla[m].arch)') /\ (Lee(m)' => tabla'[m].buf = <<>>)
    <3>1. tabla'[m] = tabla[m] /\ EnUso(m) /\ tabla[m] \in Abiertos
      BY <2>2, <1>0, <1>2, <1>4, EnUsoAbierto
    <3>2. tabla[m].pos <= Len(Texto(tabla[m].arch)) /\ (Lee(m) => tabla[m].buf = <<>>)
      BY <3>1, <1>0 DEF TypeOK
    <3>3. Texto(tabla[m].arch)' = Texto(tabla[m].arch)
      <4>1. CASE tabla[m].arch = arch
        <5>1. modo # "w"
          BY <4>1, <2>2, <1>6
        <5>2. Texto(arch)' = Texto(arch)
          BY <5>1, <1>5
        <5> QED BY <5>2, <4>1, <3>1 DEF Texto
      <4>2. CASE tabla[m].arch # arch
        BY <4>2, <3>1, <1>5 DEF Abiertos, Texto
      <4> QED BY <4>1, <4>2
    <3> QED
      BY <3>1, <3>2, <3>3, <1>2
  <2>3. ASSUME num \in 1 .. Manejos
        PROVE  tabla'[num].pos <= Len(Texto(tabla[num].arch)') /\ tabla'[num].buf = <<>>
    <3>1. tabla'[num].pos = 0 /\ tabla'[num].buf = <<>> /\ tabla'[num].arch = arch
      BY <2>3, <1>3, <1>4
    <3>2. Texto(tabla[num].arch)' \in Seq(Caracter)
      <4>1. disco'[arch] \in Seq(Caracter) /\ Texto(tabla[num].arch)' = disco'[arch]
        BY <3>1, <1>5 DEF Texto
      <4> QED BY <4>1
    <3> QED
      BY <3>1, <3>2
  <2> QED
    BY <2>1, <2>2, <2>3, <1>4, <1>5 DEF TypeOK
<1>8. AbiertoEsta'
  <2> SUFFICES ASSUME NEW m \in 1 .. Manejos, EnUso(m)' PROVE disco'[tabla'[m].arch] # NoEsta
    BY DEF AbiertoEsta
  <2>1. CASE m = num
    BY <2>1, <1>3, <1>4, <1>5
  <2>2. CASE m # num
    <3>1. tabla'[m] = tabla[m] /\ EnUso(m) /\ tabla[m] \in Abiertos
      BY <2>2, <1>0, <1>2, <1>4, EnUsoAbierto
    <3>2. disco[tabla[m].arch] # NoEsta /\ tabla[m].arch \in Archivos
      BY <3>1, <1>0 DEF AbiertoEsta, Abiertos
    <3> QED
      BY <3>1, <3>2, <1>5
  <2> QED BY <2>1, <2>2
<1>9. UnEscritor'
  <2> SUFFICES ASSUME NEW n \in 1 .. Manejos, NEW m \in 1 .. Manejos, Escribe(n)', EnUso(m)',
                      tabla'[m].arch = tabla'[n].arch, m # n
               PROVE  FALSE
    BY DEF UnEscritor
  <2>1. CASE n # num /\ m # num
    BY <2>1, <1>0, <1>2, <1>4 DEF UnEscritor
  <2>2. CASE n = num
    <3>1. tabla'[m] = tabla[m] /\ tabla[m].arch = arch /\ modo \in {"w", "a"}
      BY <2>2, <1>2, <1>3, <1>4
    <3> QED
      BY <2>2, <3>1, <1>6
  <2>3. CASE m = num
    <3>1. tabla'[n] = tabla[n] /\ tabla[n].arch = arch /\ tabla[n].modo \in {"w", "a"}
      BY <2>3, <1>2, <1>3, <1>4
    <3> QED
      BY <2>3, <3>1, <1>2, <1>6
  <2> QED BY <2>1, <2>2, <2>3
<1>10. \A a \in Archivos : EnBuffer(a)' = EnBuffer(a)
  <2> SUFFICES ASSUME NEW a \in Archivos PROVE BufferDe(tabla', a) = BufferDe(tabla, a)
    BY DeLaTabla
  <2>1. num \in 1 .. Manejos => num \notin EscritoresDe(tabla, a)
    BY <1>1, <1>2 DEF EscritoresDe, Cerrado
  <2>2. \A m \in EscritoresDe(tabla, a) : m # num /\ tabla'[m] = tabla[m]
    BY <2>1, <1>4 DEF EscritoresDe
  <2>3. CASE num \notin EscritoresDe(tabla', a)
    <3>1. EscritoresDe(tabla', a) = EscritoresDe(tabla, a)
      BY <2>2, <2>3, <1>4 DEF EscritoresDe
    <3> QED
      BY <3>1, <2>2, MismoBuffer, Zenon
  <2>4. CASE num \in EscritoresDe(tabla', a)
    <3>1. num \in 1 .. Manejos /\ a = arch /\ modo \in {"w", "a"}
      BY <2>4, <1>3, <1>4 DEF EscritoresDe
    <3>2. EscritoresDe(tabla, a) = {}
      BY <3>1, <2>2, <1>2, <1>6 DEF EscritoresDe
    <3>3. EscritoresDe(tabla', a) = {num}
      BY <3>1, <3>2, <2>4, <1>4 DEF EscritoresDe
    <3>4. BufferDe(tabla', a) = Len(tabla'[num].buf) /\ tabla'[num].buf = <<>>
      BY <3>1, <3>3, <1>3, <1>4, UnoSolo
    <3> QED
      BY <3>2, <3>4, Ninguno
  <2> QED BY <2>3, <2>4
<1>11. EscritoEsta' /\ FirmeQueda'
  <2> SUFFICES ASSUME NEW a \in Archivos \ ajeno'
               PROVE  dicho'[a] = Len(Texto(a)') + EnBuffer(a)' /\ firme'[a] <= Len(Texto(a)')
    BY DEF EscritoEsta, FirmeQueda
  <2>1. CASE a # arch \/ modo # "w"
    <3>1. a \in Archivos \ ajeno /\ dicho'[a] = dicho[a] /\ firme'[a] = firme[a]
      BY <2>1, <1>0, <1>1 DEF TypeOK
    <3>2. Texto(a)' = Texto(a)
      <4>1. CASE a # arch
        BY <4>1, <1>5
      <4>2. CASE a = arch /\ modo # "w"
        <5>1. Texto(a)' = Texto(arch)' /\ Texto(a) = Texto(arch)
          BY <4>2
        <5> QED BY <5>1, <4>2, <1>5
      <4> QED BY <2>1, <4>1, <4>2
    <3> QED
      BY <3>1, <3>2, <1>0, <1>10 DEF EscritoEsta, FirmeQueda
  <2>2. CASE a = arch /\ modo = "w"
    <3>1. dicho'[a] = 0 /\ firme'[a] = 0
      BY <2>2, <1>0, <1>1 DEF TypeOK
    <3>2. Len(Texto(a)') = 0
      BY <2>2, <1>5 DEF Texto
    <3>3. EscritoresDe(tabla, a) = {}
      BY <2>2, <1>1, <1>2 DEF EscritoresDe
    <3>4. EnBuffer(a)' = 0
      BY <3>3, <1>10, DeLaTabla, Ninguno
    <3> QED
      BY <3>1, <3>2, <3>4
  <2> QED BY <2>1, <2>2
<1>12. NingunoSuelto' /\ LineaEntera'
  <2>1. sueltos' = sueltos \/ (~EnTabla(num) /\ sueltos' = sueltos \cup {num})
    <3>1. EnTabla(num) => tabla[num] = Cerrado
      BY <1>1 DEF EnUso, Manejo
    <3> QED
      BY <3>1 DEF file_open
  <2> QED
    BY <2>1, <1>1 DEF AInv, NingunoSuelto, LineaEntera, EnTabla
<1> QED
  BY <1>7, <1>8, <1>9, <1>11, <1>12 DEF AInv

LEMMA AInvQuieto == AInv /\ UNCHANGED vars => AInv'
<1> SUFFICES ASSUME AInv, UNCHANGED vars PROVE AInv'
  OBVIOUS
<1> USE DEF vars
<1>1. TypeOK'
  BY DEF AInv, TypeOK, EnUso, Lee, Manejo, EnTabla, Texto
<1>2. AbiertoEsta' /\ UnEscritor' /\ NingunoSuelto' /\ LineaEntera'
  BY DEF AInv, AbiertoEsta, UnEscritor, NingunoSuelto, LineaEntera, EnUso, Escribe, Manejo, EnTabla
<1>3. EscritoEsta' /\ FirmeQueda'
  <2>1. \A a \in Archivos : Texto(a)' = Texto(a)
    BY DEF Texto
  <2>2. \A a \in Archivos : EnBuffer(a)' = EnBuffer(a)
    BY DEF EnBuffer, Escritores, Escribe, Manejo, EnTabla
  <2> QED
    BY <2>1, <2>2 DEF AInv, EscritoEsta, FirmeQueda
<1> QED
  BY <1>1, <1>2, <1>3 DEF AInv

\* A number of n letters.
LEMMA Letras_ == ASSUME NEW n \in Nat PROVE C(n) \in Seq(Caracter) /\ Len(C(n)) = n
BY DEF C, Caracter

LEMMA PasoEscribe ==
    ASSUME AInv, NEW num \in Int, Escribe(num), NEW texto \in Seq(Caracter), Pone(num, texto),
           UNCHANGED <<sueltos, disco, firme, ajeno, lectura>>
    PROVE  AInv'
<1>0. /\ num \in 1 .. Manejos /\ EnUso(num) /\ tabla[num] \in Abiertos
      /\ tabla[num].arch \in Archivos /\ disco[tabla[num].arch] \in Seq(Caracter)
      /\ disco \in [Archivos -> Seq(Caracter) \cup {NoEsta}]
  <2>1. TypeOK /\ AbiertoEsta
    BY DEF AInv
  <2>2. num \in 1 .. Manejos /\ EnUso(num) /\ tabla[num] \in Abiertos
    BY <2>1, Dentro
  <2> QED
    BY <2>1, <2>2 DEF Abiertos, TypeOK, AbiertoEsta
<1> DEFINE b == tabla[num].buf \o texto
<1>1. tabla[num].buf \in Seq(Caracter)
  BY <1>0 DEF Abiertos
<1>2. b \in Seq(Caracter) /\ Len(b) = Len(tabla[num].buf) + Len(texto) /\ Len(texto) \in Nat
  BY <1>1, ConcatProperties
<1>3. disco[tabla[num].arch] \o <<>> = disco[tabla[num].arch]
  BY <1>0
<1>4. disco' = [disco EXCEPT ![tabla[num].arch] = disco[tabla[num].arch] \o <<>>]
  BY <1>0, <1>3
<1>5. Escritura(num, <<>>, b, Len(texto))
  <2>1. tabla' = [tabla EXCEPT ![num] = [tabla[num] EXCEPT !.buf = b]]
    BY DEF Pone
  <2>2. dicho' = [dicho EXCEPT ![tabla[num].arch] = dicho[tabla[num].arch] + Len(texto)]
    BY DEF Pone
  <2>3. Len(<<>>) + Len(b) = Len(tabla[num].buf) + Len(texto)
    BY <1>1, <1>2
  <2> HIDE DEF b
  <2> QED
    BY <1>4, <2>1, <2>2, <2>3 DEF Escritura
<1> HIDE DEF b
<1>6. <<>> \in Seq(Caracter)
  OBVIOUS
<1> QED
  BY <1>2, <1>5, <1>6, PasoEscritor

\* The buffer of a number goes whole, or its first part, to the path.
LEMMA PasoVuelca ==
    ASSUME AInv, NEW num \in Int, Escribe(num), NEW s \in Seq(Caracter), NEW b \in Seq(Caracter),
           Len(s) + Len(b) = Len(tabla[num].buf),
           tabla' = [tabla EXCEPT ![num].buf = b] \/ (b = <<>> /\ tabla' = [tabla EXCEPT ![num] = Cerrado]),
           disco' = [disco EXCEPT ![tabla[num].arch] = disco[tabla[num].arch] \o s],
           firme' = firme \/ (b = <<>> /\ firme' = Afirma(num)),
           UNCHANGED <<sueltos, dicho, ajeno, lectura>>
    PROVE  AInv'
<1>1. TypeOK /\ tabla[num] \in Abiertos
  BY Dentro DEF AInv
<1>2. dicho \in [Archivos -> Nat] /\ tabla[num].arch \in Archivos /\ Len(tabla[num].buf) \in Nat
  BY <1>1 DEF TypeOK, Abiertos
<1>3. dicho' = [dicho EXCEPT ![tabla[num].arch] = dicho[tabla[num].arch] + 0]
  BY <1>2
<1>4. Escritura(num, s, b, 0)
  <2>1. tabla' = [tabla EXCEPT ![num] = [tabla[num] EXCEPT !.buf = b]]
        \/ (b = <<>> /\ tabla' = [tabla EXCEPT ![num] = Cerrado])
    OBVIOUS
  <2>2. firme' = firme
        \/ (b = <<>> /\ 0 = 0 /\ firme' = [firme EXCEPT ![tabla[num].arch] = dicho[tabla[num].arch]])
    BY DEF Afirma
  <2>3. Len(s) + Len(b) = Len(tabla[num].buf) + 0
    BY <1>2
  <2> QED
    BY <1>3, <2>1, <2>2, <2>3 DEF Escritura
<1> QED
  BY <1>4, PasoEscritor

LEMMA AInductivo == AInv /\ [Next]_vars => AInv'
<1> SUFFICES ASSUME AInv, [Next]_vars PROVE AInv'
  OBVIOUS
<1>0. TypeOK /\ LineaEntera
  BY DEF AInv
<1>1. CASE UNCHANGED vars
  BY <1>1, AInvQuieto
<1>2. CASE Cae
  BY <1>2, PasoCae
<1>3. ASSUME NEW num \in Numeros, NEW arch \in Archivos, NEW modo \in Modos, file_open(num, arch, modo)
      PROVE  AInv'
  BY <1>3, PasoAbre, FileAssumption
<1>4. ASSUME NEW num \in Numeros, file_close(num) PROVE AInv'
  <2>1. num \in Int /\ num \in 1 .. Manejos /\ EnUso(num) /\ tabla[num] \in Abiertos
    BY <1>0, <1>4, EnUsoAbierto, FileAssumption DEF file_close, EnTabla
  <2>2. CASE Escribe(num)
    <3>1. tabla[num].buf \in Seq(Caracter) /\ Len(tabla[num].buf) + Len(<<>>) = Len(tabla[num].buf)
      BY <2>1 DEF Abiertos
    <3>2. /\ disco' = [disco EXCEPT ![tabla[num].arch] = disco[tabla[num].arch] \o tabla[num].buf]
          /\ tabla' = [tabla EXCEPT ![num] = Cerrado] /\ firme' = Afirma(num)
          /\ UNCHANGED <<sueltos, dicho, ajeno, lectura>>
      BY <1>4, <2>2 DEF file_close, Volcado
    <3>3. <<>> \in Seq(Caracter)
      OBVIOUS
    <3> QED
      BY <2>1, <2>2, <3>1, <3>2, <3>3, PasoVuelca
  <2>3. CASE ~Escribe(num)
    <3>1. /\ disco' = disco /\ firme' = firme /\ tabla' = [tabla EXCEPT ![num] = Cerrado]
          /\ UNCHANGED <<sueltos, dicho, ajeno>> /\ lectura' = lectura
      BY <1>4, <2>3 DEF file_close, Volcado, Afirma
    <3>2. LineaEntera'
      BY <1>0, <3>1 DEF LineaEntera
    <3> QED
      BY <2>1, <2>3, <3>1, <3>2, PasoLector
  <2> QED BY <2>2, <2>3
<1>5. ASSUME NEW num \in Numeros, file_flush(num) PROVE AInv'
  <2>1. num \in Int /\ Escribe(num) /\ tabla[num] \in Abiertos
    BY <1>0, <1>5, Dentro, FileAssumption DEF file_flush
  <2>2. tabla[num].buf \in Seq(Caracter) /\ Len(tabla[num].buf) + Len(<<>>) = Len(tabla[num].buf)
    BY <2>1 DEF Abiertos
  <2>3. /\ disco' = [disco EXCEPT ![tabla[num].arch] = disco[tabla[num].arch] \o tabla[num].buf]
        /\ tabla' = [tabla EXCEPT ![num].buf = <<>>] /\ firme' = Afirma(num)
        /\ UNCHANGED <<sueltos, dicho, ajeno, lectura>>
    BY <1>5 DEF file_flush, Volcado
  <2>4. <<>> \in Seq(Caracter)
    OBVIOUS
  <2> QED
    BY <2>1, <2>2, <2>3, <2>4, PasoVuelca
<1>6. ASSUME NEW num \in Numeros, Vuelca(num) PROVE AInv'
  <2>1. num \in Int /\ Escribe(num) /\ tabla[num] \in Abiertos
    BY <1>0, <1>6, Dentro, FileAssumption DEF Vuelca
  <2>2. tabla[num].buf \in Seq(Caracter)
    BY <2>1 DEF Abiertos
  <2>3. PICK n \in DOMAIN tabla[num].buf :
          /\ disco' = [disco EXCEPT ![tabla[num].arch] = @ \o SubSeq(tabla[num].buf, 1, n)]
          /\ tabla' = [tabla EXCEPT ![num].buf = SubSeq(@, n + 1, Len(@))]
          /\ UNCHANGED <<sueltos, dicho, firme, ajeno, lectura>>
    BY <1>6 DEF Vuelca
  <2> DEFINE s == SubSeq(tabla[num].buf, 1, n)
             b == SubSeq(tabla[num].buf, n + 1, Len(tabla[num].buf))
  <2>4. n \in 1 .. Len(tabla[num].buf) /\ Len(tabla[num].buf) \in Nat
    BY <2>2
  <2>5. s \in Seq(Caracter) /\ Len(s) = n
    BY <2>2, <2>4, SubSeqProperties
  <2>6. b \in Seq(Caracter) /\ Len(b) = Len(tabla[num].buf) - n
    BY <2>2, <2>4, SubSeqProperties
  <2>7. Len(s) + Len(b) = Len(tabla[num].buf)
    BY <2>4, <2>5, <2>6
  <2>8. /\ disco' = [disco EXCEPT ![tabla[num].arch] = disco[tabla[num].arch] \o s]
        /\ tabla' = [tabla EXCEPT ![num].buf = b]
    BY <2>3
  <2> HIDE DEF s, b
  <2> QED
    BY <2>1, <2>3, <2>5, <2>6, <2>7, <2>8, PasoVuelca
<1>7. ASSUME NEW num \in Numeros, NEW n \in Lineas, file_putline(num, n) PROVE AInv'
  <2>1. num \in Int /\ n \in Nat /\ Escribe(num)
    BY <1>7, FileAssumption DEF file_putline
  <2>2. Append(C(n), "nl") \in Seq(Caracter)
    BY <2>1, Letras_ DEF Caracter
  <2> QED
    BY <1>7, <2>1, <2>2, PasoEscribe DEF file_putline
<1>8. ASSUME NEW num \in Numeros, NEW n \in Lineas, file_write(num, n) PROVE AInv'
  <2>1. num \in Int /\ n \in Nat
    BY FileAssumption
  <2>2. CASE Escribe(num) /\ Pone(num, C(n)) /\ UNCHANGED ajeno
    BY <1>8, <2>1, <2>2, Letras_, PasoEscribe DEF file_write
  <2>3. CASE /\ Lee(num) /\ dicho' = [dicho EXCEPT ![tabla[num].arch] = @ + n]
             /\ ajeno' = ajeno \cup {tabla[num].arch} /\ UNCHANGED tabla
    BY <1>8, <2>1, <2>3, PasoAjeno DEF file_write
  <2> QED
    BY <1>8, <2>2, <2>3 DEF file_write
<1>9. ASSUME NEW num \in Numeros, file_getline(num) PROVE AInv'
  <2>1. num \in Int /\ num \in 1 .. Manejos /\ EnUso(num) /\ tabla[num] \in Abiertos
        /\ Lee(num) /\ ~Escribe(num)
    BY <1>0, <1>9, Dentro, FileAssumption DEF file_getline
  <2>2. /\ Linea(num) \in Seq(Caracter)
        /\ tabla[num].pos + Len(Linea(num)) <= Len(Texto(tabla[num].arch))
    BY <1>0, <2>1, Linea_
  <2>3. tabla[num].pos \in Nat /\ tabla[num].pos <= Len(Texto(tabla[num].arch))
    BY <1>0, <2>1 DEF TypeOK, Abiertos
  <2>4. CASE Linea(num) = <<>>
    <3> DEFINE R == [tabla[num] EXCEPT !.fin = TRUE]
    <3>1. /\ R \in Abiertos /\ R.arch = tabla[num].arch /\ R.modo = tabla[num].modo
          /\ R.buf = tabla[num].buf /\ R.pos = tabla[num].pos
      BY <2>1 DEF Abiertos
    <3>2. tabla' = [tabla EXCEPT ![num] = R] /\ UNCHANGED <<sueltos, disco, dicho, firme, ajeno>>
          /\ lectura' = lectura
      BY <1>9, <2>4 DEF file_getline
    <3>3. LineaEntera'
      BY <1>0, <3>2 DEF LineaEntera
    <3> HIDE DEF R
    <3> QED
      BY <2>1, <2>3, <3>1, <3>2, <3>3, PasoLector
  <2>5. CASE Linea(num) # <<>>
    <3> DEFINE l == Linea(num)
               f == Len(l) < Largo - 1 /\ Last(l) # "nl"
               R == [tabla[num] EXCEPT !.pos = tabla[num].pos + Len(l), !.fin = f]
    <3>1. /\ tabla' = [tabla EXCEPT ![num] = R] /\ UNCHANGED <<sueltos, disco, dicho, firme, ajeno>>
          /\ lectura' = [fin |-> Last(l) = "nl", dados |-> SinElUltimo(l), pasados |-> Letras(l)]
      BY <1>9, <2>5 DEF file_getline
    <3>2. f \in BOOLEAN /\ tabla[num].pos + Len(l) \in Nat
      BY <2>2, <2>3
    <3>3. /\ R \in Abiertos /\ R.arch = tabla[num].arch /\ R.modo = tabla[num].modo
          /\ R.buf = tabla[num].buf /\ R.pos = tabla[num].pos + Len(l)
      <4> HIDE DEF f, l
      <4> QED BY <2>1, <3>2 DEF Abiertos
    <3>4. LineaEntera'
      BY <2>2, <2>5, <3>1, SinFinal DEF LineaEntera
    <3> HIDE DEF R
    <3> QED
      BY <2>1, <2>2, <3>1, <3>3, <3>4, PasoLector
  <2> QED BY <2>4, <2>5
<1>10. ASSUME NEW num \in Numeros, file_read(num) PROVE AInv'
  <2>1. num \in Int /\ num \in 1 .. Manejos /\ EnUso(num) /\ tabla[num] \in Abiertos
        /\ Lee(num) /\ ~Escribe(num)
    BY <1>0, <1>10, Dentro, FileAssumption DEF file_read
  <2>2. tabla[num].pos \in Nat /\ tabla[num].pos <= Len(Texto(tabla[num].arch))
    BY <1>0, <2>1 DEF TypeOK, Abiertos
  <2>3. Len(Resto(num)) = Len(Texto(tabla[num].arch)) - tabla[num].pos /\ Resto(num) \in Seq(Caracter)
    BY <1>0, <2>1, Linea_
  <2> DEFINE k == Min({Largo, Len(Resto(num))})
             f == k < Largo
             R == [tabla[num] EXCEPT !.pos = tabla[num].pos + k, !.fin = f]
  <2>4. k \in Nat /\ k <= Len(Resto(num))
    <3>1. Largo \in Nat /\ Len(Resto(num)) \in Nat
      BY <2>3, FileAssumption
    <3> DEFINE S == {Largo, Len(Resto(num))}
    <3>2. S \in SUBSET Int /\ S # {} /\ (\A x \in S : x >= -1) /\ Len(Resto(num)) \in S /\ S \subseteq Nat
      <4> DEFINE y == Len(Resto(num))
      <4>1. y \in Nat /\ Largo \in Nat /\ S = {Largo, y}
        BY <3>1
      <4> HIDE DEF S, y
      <4>2. S \subseteq Nat /\ S # {} /\ y \in S
        BY <4>1
      <4>3. \A x \in S : x >= -1
        BY <4>2
      <4> QED BY <4>2, <4>3 DEF y
    <3> HIDE DEF S
    <3>3. Min(S) \in S /\ Min(S) <= Len(Resto(num))
      BY <3>2, MinEsta
    <3>4. Min(S) \in Nat /\ Min(S) <= Len(Resto(num))
      BY <3>2, <3>3
    <3> QED
      BY <3>4 DEF S
  <2>5. tabla' = [tabla EXCEPT ![num] = R] /\ UNCHANGED <<sueltos, disco, dicho, firme, ajeno>>
        /\ lectura' = lectura
    BY <1>10 DEF file_read
  <2>6. tabla[num].pos + k \in Nat /\ tabla[num].pos + k <= Len(Texto(tabla[num].arch))
    <3>1. Texto(tabla[num].arch) \in Seq(Caracter)
      BY <1>0, <2>1, Texto_ DEF TypeOK, Abiertos
    <3>2. Len(Texto(tabla[num].arch)) \in Nat
      BY <3>1
    <3> HIDE DEF k
    <3> QED
      BY <2>2, <2>3, <2>4, <3>2
  <2>7. /\ R \in Abiertos /\ R.arch = tabla[num].arch /\ R.modo = tabla[num].modo
        /\ R.buf = tabla[num].buf /\ R.pos = tabla[num].pos + k
    <3>1. f \in BOOLEAN
      OBVIOUS
    <3> HIDE DEF k, f
    <3> QED BY <2>1, <2>6, <3>1 DEF Abiertos
  <2>8. LineaEntera'
    BY <1>0, <2>5 DEF LineaEntera
  <2> HIDE DEF R
  <2> QED
    BY <2>1, <2>5, <2>6, <2>7, <2>8, PasoLector
<1> QED
  BY <1>1, <1>2, <1>3, <1>4, <1>5, <1>6, <1>7, <1>8, <1>9, <1>10 DEF Next

-----------------------------------------------------------------------------
(* The theorems.                                                           *)

\* The inductive invariant holds in every reachable state.
THEOREM ArchivosInvariante == Spec => []AInv
<1> QED
  BY AInicial, AInductivo, PTL DEF Spec

\* Over every order of opens, flushes, closes and crashes no FILE of the table
\* (csr/file_rw.c) is lost and what was flushed or closed is on its path.
THEOREM ArchivosSiempre == Spec => []ArchivosInv
<1>1. AInv => ArchivosInv
  BY DEF AInv, ArchivosInv
<1> QED
  BY <1>1, ArchivosInvariante, PTL

\* What file_putline and file_write said they wrote is on the path or in the
\* buffer of its writer, but for a file file_write found open to read.
THEOREM EscritoEstaSiempre == Spec => []EscritoEsta
<1>1. AInv => EscritoEsta
  BY DEF AInv
<1> QED
  BY <1>1, ArchivosInvariante, PTL

\* A line file_getline read up to its end is given with all its characters.
THEOREM LineaEnteraSiempre == Spec => []LineaEntera
<1>1. AInv => LineaEntera
  BY DEF AInv
<1> QED
  BY <1>1, ArchivosInvariante, PTL

\* A set of naturals that is not empty has a least element.
LEMMA Menor ==
    ASSUME NEW T, T \subseteq Nat, T # {}
    PROVE  \E x \in T : \A y \in T : x <= y
<1>1. PICK x \in T : \A y \in T : <<y, x>> \notin OpToRel(<, Nat)
  BY NatLessThanWellFounded, WFMin, Zenon
<1>2. \A a, b \in Nat : a < b => <<a, b>> \in OpToRel(<, Nat)
  BY Zenon DEF OpToRel
<1>3. \A y \in T : ~(y < x)
  BY <1>1, <1>2, Zenon
<1>4. \A y \in T : y \in Nat
  OBVIOUS
<1> QED BY <1>3, <1>4, x \in T, SMT

\* Induction up to N: what holds at 0 and passes from n - 1 to n holds at all.
LEMMA InduccionHasta ==
    ASSUME NEW S, NEW N \in Nat, 0 \in S, \A n \in 1 .. N : n - 1 \in S => n \in S
    PROVE  \A n \in 0 .. N : n \in S
<1> DEFINE T == {n \in 0 .. N : n \notin S}
<1>1. SUFFICES ASSUME T # {} PROVE FALSE
  OBVIOUS
<1>2. T \subseteq Nat
  OBVIOUS
<1>3. PICK x \in T : \A y \in T : x <= y
  BY <1>1, <1>2, Menor, Zenon
<1>4. x \in 1 .. N /\ x - 1 \in 0 .. N
  OBVIOUS
<1>5. x - 1 \in S
  BY <1>3, <1>4
<1> QED BY <1>4, <1>5

\* A loop of N rounds, each a function of what the one before it left, exists.
HayBucle(S, c, N, G) ==
    \E f \in [0 .. N -> S] : f[0] = c /\ \A n \in 1 .. N : f[n] = G[n][f[n - 1]]

LEMMA Bucle ==
    ASSUME NEW S, NEW c \in S, NEW N \in Nat, NEW G \in [1 .. N -> [S -> S]]
    PROVE  HayBucle(S, c, N, G)
<1> DEFINE Hasta(f, m) == f[0] = c /\ \A n \in 1 .. m : f[n] = G[n][f[n - 1]]
           A == {m \in 0 .. N : \E f \in [0 .. m -> S] : Hasta(f, m)}
<1>1. 0 \in A
  <2>1. [n \in 0 .. 0 |-> c] \in [0 .. 0 -> S] /\ Hasta([n \in 0 .. 0 |-> c], 0)
    OBVIOUS
  <2> HIDE DEF Hasta
  <2> QED BY <2>1
<1>2. \A m \in 1 .. N : m - 1 \in A => m \in A
  <2> SUFFICES ASSUME NEW m \in 1 .. N, m - 1 \in A PROVE m \in A
    OBVIOUS
  <2>1. PICK f \in [0 .. m - 1 -> S] : Hasta(f, m - 1)
    OBVIOUS
  <2> DEFINE g == [n \in 0 .. m |-> IF n = m THEN G[m][f[m - 1]] ELSE f[n]]
  <2>2. G[m][f[m - 1]] \in S
    OBVIOUS
  <2>3. g \in [0 .. m -> S]
    BY <2>2
  <2>4. Hasta(g, m)
    BY <2>1
  <2> HIDE DEF g, Hasta
  <2> QED BY <2>3, <2>4
<1> HIDE DEF A
<1>3. \A m \in 0 .. N : m \in A
  BY <1>1, <1>2, InduccionHasta, Zenon
<1>4. N \in A
  BY <1>3
<1> QED BY <1>4, Zenon DEF A, HayBucle

\* Whatever follows the rounds of a loop is of its type.
LEMMA BucleTipo ==
    ASSUME NEW S, NEW N \in Nat, NEW f, f = [n \in 0 .. N |-> f[n]], f[0] \in S,
           \A n \in 1 .. N : f[n - 1] \in S => f[n] \in S
    PROVE  f \in [0 .. N -> S]
<1> DEFINE A == {n \in 0 .. N : f[n] \in S}
<1>1. \A n \in 0 .. N : n \in A
  <2>1. 0 \in A
    OBVIOUS
  <2>2. \A n \in 1 .. N : n - 1 \in A => n \in A
    OBVIOUS
  <2> HIDE DEF A
  <2> QED BY <2>1, <2>2, InduccionHasta, Zenon
<1> QED BY <1>1

-----------------------------------------------------------------------------
(* DtTran: the inductive invariant DriverInv, SinBasura and NoPisa rest on.  *)
(* None of them is inductive: that the used slots are as many as the levels  *)
(* says nothing of which slot an end frees, and that the fields of an ended  *)
(* level are clear needs its list to be the slot its start took.             *)

Nombres == Trans \cup Rutinas
Registro ==
    [ranura  : [Ranuras -> [id : Nombres \cup {Base, NADA}, campos : SUBSET Campos]],
     lista   : Ranuras,
     listado : SUBSET Campos,
     nivel   : [Campos -> 0 .. MaxNivel + MaxAnidadas]]

Marcas(t) ==
    /\ t.listado = UNION {t.ranura[i].campos : i \in Ranuras}
    /\ \A i, j \in Ranuras : i # j => t.ranura[i].campos \cap t.ranura[j].campos = {}

\* The C module, whatever the routines did with their brackets.
ModuloBien(t) ==
    /\ t \in Registro
    /\ t.ranura[0].id = Base
    /\ \A i \in Ranuras : i # 0 => t.ranura[i].id # Base
    /\ \A i \in Ranuras : t.ranura[i].id = NADA => t.ranura[i].campos = {}
    /\ t.ranura[t.lista].id # NADA
    /\ Marcas(t)

PilasBien ==
    /\ pila \in Seq(Trans \cup {Base}) /\ Len(pila) \in 1 .. MaxNivel
    /\ pila[1] = Base /\ \A k \in 2 .. Len(pila) : pila[k] \in Trans
    /\ \A j, k \in 1 .. Len(pila) : pila[j] = pila[k] => j = k
    /\ anidadas \in Seq(Nombres) /\ Len(anidadas) <= MaxAnidadas
    /\ anidadas # <<>> => Len(pila) > 1
    /\ casos \subseteq {"cierre", "abandono", "lleno", "antes"}

Capas == pila \o anidadas

\* Each level has a slot of its own, with its name, and there are no others.  An
\* end frees the first slot with the name: when two levels have the same one the
\* survivor keeps the other slot, so which is whose is not said.
Reparte(t, q, n, s) ==
    /\ s[1] = 0
    /\ \A j, k \in 1 .. n : s[j] = s[k] => j = k
    /\ \A k \in 1 .. n : t.ranura[s[k]].id = q[k]
    /\ \A i \in Ranuras : t.ranura[i].id # NADA => \E k \in 1 .. n : s[k] = i

Reparto(t, q) == \E s \in [1 .. Len(q) -> Ranuras] : Reparte(t, q, Len(q), s)

\* While no bracket was closed or abandoned the slots are in the order of the
\* levels, and a field that a level above the desktop wrote first is in its list.
EnOrden(t, q) ==
    /\ Len(q) <= SSIZE
    /\ \A k \in 1 .. Len(q) : t.ranura[k - 1].id = q[k]
    /\ \A i \in Ranuras : i >= Len(q) => t.ranura[i].id = NADA
    /\ \A f \in Campos : t.nivel[f] <= Len(q)
    /\ \A f \in t.listado : t.nivel[f] >= 1
    /\ \A f \in Campos : \A k \in 2 .. Len(q) : t.nivel[f] = k => f \in t.ranura[k - 1].campos

TInv ==
    /\ ModuloBien(tran)
    /\ PilasBien
    /\ casos \subseteq {"cierre", "antes"} => Reparto(tran, Capas)
    /\ casos = {} => EnOrden(tran, Capas) /\ tran.lista = Len(Capas) - 1

-----------------------------------------------------------------------------
(* The operations of the C module, each as the record it leaves.             *)

LEMMA Primera ==
    ASSUME NEW T, T \subseteq Ranuras, T # {}
    PROVE  Min(T) \in T /\ \A y \in T : Min(T) <= y
<1>1. T \subseteq Nat
  BY SSIZEAssumption DEF Ranuras
<1>2. \E x \in T : \A y \in T : x <= y
  BY <1>1, Menor, Zenon
<1> QED BY <1>2, Zenon DEF Min

LEMMA Cero == 0 \in Ranuras /\ Ranuras \subseteq Nat
BY SSIZEAssumption DEF Ranuras

\* What the end of the level in slot i leaves.
Terminada(t, i) ==
    [ranura  |-> [j \in Ranuras |-> IF j = i THEN Vacia
                                    ELSE IF j = 0 THEN [id |-> Base, campos |-> {}]
                                    ELSE t.ranura[j]],
     lista   |-> 0,
     listado |-> (t.listado \ t.ranura[i].campos) \ t.ranura[0].campos,
     nivel   |-> [f \in Campos |-> IF f \in t.ranura[i].campos THEN 0 ELSE t.nivel[f]]]

\* What a start in slot i leaves.
Arrancada(t, i, id) ==
    [ranura  |-> [t.ranura EXCEPT ![i] = [id |-> id, campos |-> {}]],
     lista   |-> i,
     listado |-> t.listado,
     nivel   |-> t.nivel]

ConLista(t, i) ==
    [ranura |-> t.ranura, lista |-> i, listado |-> t.listado, nivel |-> t.nivel]

\* The first slot with a name.
EsPrimera(t, id, i) ==
    /\ i \in Ranuras /\ t.ranura[i].id = id
    /\ \A j \in Ranuras : t.ranura[j].id = id => i <= j

LEMMA PrimeraCon ==
    ASSUME NEW t, NEW id, Con(t, id) # {}
    PROVE  EsPrimera(t, id, Min(Con(t, id)))
<1>1. Con(t, id) \subseteq Ranuras
  BY DEF Con
<1>2. Min(Con(t, id)) \in Con(t, id) /\ \A y \in Con(t, id) : Min(Con(t, id)) <= y
  BY <1>1, Primera, Zenon
<1> QED BY <1>2 DEF Con, EsPrimera

LEMMA Partes ==
    ASSUME NEW t \in Registro
    PROVE  t = [ranura |-> t.ranura, lista |-> t.lista, listado |-> t.listado, nivel |-> t.nivel]
BY DEF Registro

\* What Desmarca leaves.
Desmarcado(t, i) ==
    [ranura  |-> [j \in Ranuras |-> IF j = i THEN [id |-> t.ranura[i].id, campos |-> {}]
                                    ELSE t.ranura[j]],
     lista   |-> t.lista,
     listado |-> t.listado \ t.ranura[i].campos,
     nivel   |-> t.nivel]

LEMMA Desmarcada ==
    ASSUME NEW t \in Registro, NEW i \in Ranuras
    PROVE  Desmarca(t, i) = Desmarcado(t, i)
<1>1. PICK R : R = t.ranura
  OBVIOUS
<1>2. R \in [Ranuras -> [id : Nombres \cup {Base, NADA}, campos : SUBSET Campos]]
  BY <1>1 DEF Registro
<1>3. PICK Q : Q = [R EXCEPT ![i].campos = {}]
  OBVIOUS
<1>4. Q = [j \in Ranuras |-> IF j = i THEN [id |-> R[i].id, campos |-> {}] ELSE R[j]]
  <2>1. [R[i] EXCEPT !.campos = {}] = [id |-> R[i].id, campos |-> {}]
    <3>1. PICK x \in [id : Nombres \cup {Base, NADA}, campos : SUBSET Campos] : x = R[i]
      BY <1>2
    <3>2. [x EXCEPT !.campos = {}] = [id |-> x.id, campos |-> {}]
      OBVIOUS
    <3> QED BY <3>1, <3>2
  <2> QED BY <1>2, <1>3, <2>1
<1>5. PICK K : K = t.listado \ R[i].campos
  OBVIOUS
<1>6. PICK u : u = [t EXCEPT !.listado = @ \ t.ranura[i].campos]
  OBVIOUS
<1>7. u = [ranura |-> R, lista |-> t.lista, listado |-> K, nivel |-> t.nivel]
  <2>1. t = [ranura |-> R, lista |-> t.lista, listado |-> t.listado, nivel |-> t.nivel]
    BY <1>1, Partes
  <2> QED BY <1>1, <1>5, <1>6, <2>1
<1>8. Desmarca(t, i) = [u EXCEPT !.ranura[i].campos = {}]
  BY <1>6 DEF Desmarca
<1>9. [u EXCEPT !.ranura[i].campos = {}] =
        [ranura |-> Q, lista |-> t.lista, listado |-> K, nivel |-> t.nivel]
  <2>1. [u EXCEPT !.ranura[i].campos = {}] = [u EXCEPT !.ranura = Q]
    <3>1. u.ranura = R
      BY <1>7
    <3> QED BY <1>3, <3>1, Zenon
  <2> QED BY <1>7, <2>1
<1> QED BY <1>1, <1>4, <1>5, <1>8, <1>9, Zenon DEF Desmarcado

\* What the end of the level in a slot that is not the desktop's leaves there.
Liberado(t, i) ==
    [ranura  |-> [j \in Ranuras |-> IF j = i THEN Vacia ELSE t.ranura[j]],
     lista   |-> t.lista,
     listado |-> t.listado \ t.ranura[i].campos,
     nivel   |-> [f \in Campos |-> IF f \in t.ranura[i].campos THEN 0 ELSE t.nivel[f]]]

LEMMA Liberada ==
    ASSUME NEW t \in Registro, NEW i \in Ranuras
    PROVE  /\ [clr_fld_list(t, i) EXCEPT !.ranura[i] = Vacia] = Liberado(t, i)
           /\ Liberado(t, i) \in Registro
<1>1. PICK V : V = [f \in Campos |-> IF f \in t.ranura[i].campos THEN 0 ELSE t.nivel[f]]
  OBVIOUS
<1>2. PICK d : d = Desmarca(t, i)
  OBVIOUS
<1>3. PICK Q : Q = [j \in Ranuras |-> IF j = i THEN [id |-> t.ranura[i].id, campos |-> {}] ELSE t.ranura[j]]
  OBVIOUS
<1>4. PICK K : K = t.listado \ t.ranura[i].campos
  OBVIOUS
<1>5. d = [ranura |-> Q, lista |-> t.lista, listado |-> K, nivel |-> t.nivel]
  BY <1>2, <1>3, <1>4, Desmarcada, Zenon DEF Desmarcado
<1>6. PICK c : c = clr_fld_list(t, i)
  OBVIOUS
<1>7. d.nivel = t.nivel
  BY <1>5
<1>8. c = [d EXCEPT !.nivel = V]
  <2>1. c = [d EXCEPT !.nivel = [f \in Campos |-> IF f \in t.ranura[i].campos THEN 0 ELSE d.nivel[f]]]
    BY <1>2, <1>6 DEF clr_fld_list
  <2> QED BY <1>1, <1>7, <2>1, Zenon
<1>9. c = [ranura |-> Q, lista |-> t.lista, listado |-> K, nivel |-> V]
  BY <1>5, <1>8
<1>10. PICK W : W = [j \in Ranuras |-> IF j = i THEN Vacia ELSE t.ranura[j]]
  OBVIOUS
<1>11. [Q EXCEPT ![i] = Vacia] = W
  BY <1>3, <1>10
<1>12. [c EXCEPT !.ranura[i] = Vacia] = [ranura |-> W, lista |-> t.lista, listado |-> K, nivel |-> V]
  BY <1>9, <1>11
<1>13. Liberado(t, i) = [ranura |-> W, lista |-> t.lista, listado |-> K, nivel |-> V]
  BY <1>1, <1>4, <1>10, Zenon DEF Liberado
<1>14. W \in [Ranuras -> [id : Nombres \cup {Base, NADA}, campos : SUBSET Campos]]
  BY <1>10 DEF Registro, Vacia
<1>15. V \in [Campos -> 0 .. MaxNivel + MaxAnidadas]
  BY <1>1, BoundsAssumption DEF Registro
<1>16. t.lista \in Ranuras /\ K \in SUBSET Campos
  BY <1>4 DEF Registro
<1> QED BY <1>6, <1>12, <1>13, <1>14, <1>15, <1>16 DEF Registro

LEMMA Fin ==
    ASSUME NEW t, ModuloBien(t), NEW id \in Nombres, Con(t, id) # {}
    PROVE  \E i : EsPrimera(t, id, i) /\ i # 0 /\ dt_tran_end(t, id) = Terminada(t, i)
<1> DEFINE i == Min(Con(t, id))
<1>1. EsPrimera(t, id, i)
  BY PrimeraCon, Zenon
<1>2. dt_tran_end(t, id) = LET u == IF i = 0 THEN t ELSE [clr_fld_list(t, i) EXCEPT !.ranura[i] = Vacia]
                           IN [Desmarca(u, 0) EXCEPT !.lista = 0]
  BY Zenon DEF dt_tran_end
<1> HIDE DEF i
<1>3. i # 0
  BY <1>1, NombresAssumption DEF EsPrimera, ModuloBien, Nombres
<1>4. t \in Registro /\ i \in Ranuras /\ 0 \in Ranuras /\ t.ranura[0].id = Base
  BY <1>1, Cero DEF EsPrimera, ModuloBien
<1>5. PICK u : u = Liberado(t, i)
  OBVIOUS
<1>6. u \in Registro /\ [clr_fld_list(t, i) EXCEPT !.ranura[i] = Vacia] = u
  BY <1>4, <1>5, Liberada, Zenon
<1>7. dt_tran_end(t, id) = [Desmarca(u, 0) EXCEPT !.lista = 0]
  BY <1>2, <1>3, <1>6, Zenon
<1>8. PICK d : d = Desmarca(u, 0)
  OBVIOUS
<1>9. PICK Z : Z = [j \in Ranuras |-> IF j = 0 THEN [id |-> u.ranura[0].id, campos |-> {}] ELSE u.ranura[j]]
  OBVIOUS
<1>10. PICK K : K = u.listado \ u.ranura[0].campos
  OBVIOUS
<1>11. d = [ranura |-> Z, lista |-> u.lista, listado |-> K, nivel |-> u.nivel]
  BY <1>4, <1>6, <1>8, <1>9, <1>10, Desmarcada, Zenon DEF Desmarcado
<1>12. [d EXCEPT !.lista = 0] = [ranura |-> Z, lista |-> 0, listado |-> K, nivel |-> u.nivel]
  BY <1>11
<1>13. u.ranura = [j \in Ranuras |-> IF j = i THEN Vacia ELSE t.ranura[j]]
  BY <1>5 DEF Liberado
<1>14. u.listado = t.listado \ t.ranura[i].campos
  BY <1>5 DEF Liberado
<1>15. u.nivel = [f \in Campos |-> IF f \in t.ranura[i].campos THEN 0 ELSE t.nivel[f]]
  BY <1>5 DEF Liberado
<1>16. u.ranura[0] = t.ranura[0]
  BY <1>3, <1>4, <1>13
<1>17. Z = [j \in Ranuras |-> IF j = i THEN Vacia
                              ELSE IF j = 0 THEN [id |-> Base, campos |-> {}]
                              ELSE t.ranura[j]]
  BY <1>3, <1>4, <1>9, <1>13, <1>16
<1>18. K = (t.listado \ t.ranura[i].campos) \ t.ranura[0].campos
  BY <1>10, <1>14, <1>16
<1>19. [d EXCEPT !.lista = 0] = Terminada(t, i)
  BY <1>12, <1>15, <1>17, <1>18, Zenon DEF Terminada
<1> QED BY <1>1, <1>3, <1>7, <1>8, <1>19, Zenon

LEMMA Arranque ==
    ASSUME NEW t, ModuloBien(t), NEW id \in Nombres, Con(t, NADA) # {}
    PROVE  \E i : EsPrimera(t, NADA, i) /\ i # 0 /\ dt_tran_start(t, id) = Arrancada(t, i, id)
<1> DEFINE i == Min(Con(t, NADA))
<1>1. EsPrimera(t, NADA, i)
  BY PrimeraCon, Zenon
<1>2. t \in Registro /\ i \in Ranuras /\ t.ranura[0].id = Base /\ t.ranura[i].campos = {}
  BY <1>1 DEF EsPrimera, ModuloBien
<1>3. id # t.ranura[0].id /\ Base # NADA
  BY <1>2, NombresAssumption DEF Nombres
<1>4. dt_tran_start(t, id) = [t EXCEPT !.ranura[i].id = id, !.lista = i]
  BY <1>3, Zenon DEF dt_tran_start
<1> HIDE DEF i
<1>5. i # 0
  BY <1>1, <1>2, <1>3 DEF EsPrimera
<1>6. [t EXCEPT !.ranura[i].id = id, !.lista = i] = Arrancada(t, i, id)
  <2>9. PICK R : R = t.ranura
    OBVIOUS
  <2>1. R \in [Ranuras -> [id : Nombres \cup {Base, NADA}, campos : SUBSET Campos]] /\ R[i].campos = {}
    BY <1>2, <2>9 DEF Registro
  <2>2. [R[i] EXCEPT !.id = id] = [id |-> id, campos |-> {}]
    <3>1. PICK x \in [id : Nombres \cup {Base, NADA}, campos : SUBSET Campos] : x = R[i]
      BY <1>2, <2>1
    <3>2. x.campos = {}
      BY <2>1, <3>1
    <3>3. [x EXCEPT !.id = id] = [id |-> id, campos |-> x.campos]
      OBVIOUS
    <3> QED BY <3>1, <3>2, <3>3
  <2>3. PICK Q : Q = [R EXCEPT ![i].id = id]
    OBVIOUS
  <2>4. Q = [R EXCEPT ![i] = [id |-> id, campos |-> {}]]
    BY <1>2, <2>1, <2>2, <2>3
  <2>5. PICK u : u = [t EXCEPT !.ranura[i].id = id]
    OBVIOUS
  <2>6. u = [ranura |-> Q, lista |-> t.lista, listado |-> t.listado, nivel |-> t.nivel]
    <3>1. t = [ranura |-> R, lista |-> t.lista, listado |-> t.listado, nivel |-> t.nivel]
      BY <1>2, <2>9, Partes
    <3> QED BY <2>3, <2>5, <3>1
  <2>7. [t EXCEPT !.ranura[i].id = id, !.lista = i] = [u EXCEPT !.lista = i]
    BY <2>5
  <2>8. [u EXCEPT !.lista = i] = [ranura |-> Q, lista |-> i, listado |-> t.listado, nivel |-> t.nivel]
    BY <2>6
  <2> QED BY <2>4, <2>7, <2>8, <2>9, Zenon DEF Arrancada
<1> QED BY <1>1, <1>4, <1>5, <1>6, Zenon

LEMMA ArranqueLleno ==
    ASSUME NEW t, ModuloBien(t), NEW id \in Nombres, Con(t, NADA) = {}
    PROVE  dt_tran_start(t, id) = t
<1>1. id # t.ranura[0].id
  BY NombresAssumption DEF Nombres, ModuloBien
<1> QED BY <1>1, Zenon DEF dt_tran_start

\* The fields of a list are marked already: going back to a level only changes
\* the list in use.
LEMMA Vuelta ==
    ASSUME NEW t, ModuloBien(t), NEW id, Con(t, id) # {}
    PROVE  \E i : EsPrimera(t, id, i) /\ dt_tran_restart(t, id) = ConLista(t, i)
<1> DEFINE i == Min(Con(t, id))
<1>1. EsPrimera(t, id, i)
  BY PrimeraCon, Zenon
<1>2. dt_tran_restart(t, id) = [t EXCEPT !.lista = i, !.listado = @ \cup t.ranura[i].campos]
  BY Zenon DEF dt_tran_restart
<1> HIDE DEF i
<1>3. t \in Registro /\ i \in Ranuras
  BY <1>1 DEF EsPrimera, ModuloBien
<1>4. t.listado \cup t.ranura[i].campos = t.listado
  BY <1>3 DEF ModuloBien, Marcas
<1>5. dt_tran_restart(t, id) = ConLista(t, i)
  BY <1>2, <1>3, <1>4 DEF Registro, ConLista
<1> QED BY <1>1, <1>5, Zenon

-----------------------------------------------------------------------------
(* Every operation leaves the module well, whatever its argument.            *)

LEMMA MarcasDe ==
    ASSUME NEW t,
           \A f : f \in t.listado <=> \E i \in Ranuras : f \in t.ranura[i].campos,
           \A f : \A i, j \in Ranuras :
               f \in t.ranura[i].campos /\ f \in t.ranura[j].campos => i = j
    PROVE  Marcas(t)
BY DEF Marcas

LEMMA DeMarcas ==
    ASSUME NEW t, Marcas(t)
    PROVE  /\ \A f : f \in t.listado <=> \E i \in Ranuras : f \in t.ranura[i].campos
           /\ \A f : \A i, j \in Ranuras :
               f \in t.ranura[i].campos /\ f \in t.ranura[j].campos => i = j
BY DEF Marcas

LEMMA BienTerminada ==
    ASSUME NEW t, ModuloBien(t), NEW i \in Ranuras, i # 0
    PROVE  ModuloBien(Terminada(t, i))
<1>1. PICK u : u = Terminada(t, i)
  OBVIOUS
<1>2. /\ u.ranura = [j \in Ranuras |-> IF j = i THEN Vacia
                                      ELSE IF j = 0 THEN [id |-> Base, campos |-> {}]
                                      ELSE t.ranura[j]]
      /\ u.lista = 0 /\ u.listado = (t.listado \ t.ranura[i].campos) \ t.ranura[0].campos
      /\ u.nivel = [f \in Campos |-> IF f \in t.ranura[i].campos THEN 0 ELSE t.nivel[f]]
  BY <1>1 DEF Terminada
<1>3. /\ u.ranura[0].id = Base /\ u.ranura[0].campos = {}
      /\ u.ranura[i].id = NADA /\ u.ranura[i].campos = {}
      /\ \A j \in Ranuras : j # 0 /\ j # i => u.ranura[j] = t.ranura[j]
  BY <1>2, Cero DEF Vacia
<1>4. u \in Registro
  <2>1. t \in Registro
    BY DEF ModuloBien
  <2>2. u.ranura \in [Ranuras -> [id : Nombres \cup {Base, NADA}, campos : SUBSET Campos]]
    BY <1>2, <2>1 DEF Registro, Vacia
  <2>3. u.nivel \in [Campos -> 0 .. MaxNivel + MaxAnidadas]
    BY <1>2, <2>1, BoundsAssumption DEF Registro
  <2>4. u.listado \in SUBSET Campos /\ u.lista \in Ranuras
    BY <1>2, <2>1, Cero DEF Registro
  <2>5. u = [ranura |-> u.ranura, lista |-> u.lista, listado |-> u.listado, nivel |-> u.nivel]
    BY <1>1 DEF Terminada
  <2> QED BY <2>2, <2>3, <2>4, <2>5 DEF Registro
<1>5. Marcas(u)
  <2>0. Marcas(t)
    BY DEF ModuloBien
  <2>1. \A f : f \in u.listado <=> \E j \in Ranuras : f \in u.ranura[j].campos
    BY <1>2, <1>3, <2>0, DeMarcas, Cero
  <2>2. \A f : \A j, k \in Ranuras :
               f \in u.ranura[j].campos /\ f \in u.ranura[k].campos => j = k
    BY <1>3, <2>0, DeMarcas, Cero
  <2> QED BY <2>1, <2>2, MarcasDe, Zenon
<1>6. Base # NADA
  BY NombresAssumption
<1> QED BY <1>1, <1>2, <1>3, <1>4, <1>5, <1>6 DEF ModuloBien

LEMMA BienArrancada ==
    ASSUME NEW t, ModuloBien(t), NEW i \in Ranuras, i # 0, t.ranura[i].id = NADA,
           NEW id \in Nombres
    PROVE  ModuloBien(Arrancada(t, i, id))
<1>1. PICK u : u = Arrancada(t, i, id)
  OBVIOUS
<1>2. /\ u.ranura = [t.ranura EXCEPT ![i] = [id |-> id, campos |-> {}]]
      /\ u.lista = i /\ u.listado = t.listado /\ u.nivel = t.nivel
      /\ u = [ranura |-> u.ranura, lista |-> u.lista, listado |-> u.listado, nivel |-> u.nivel]
  BY <1>1 DEF Arrancada
<1>0. t \in Registro /\ t.ranura[i].campos = {} /\ Marcas(t)
  BY DEF ModuloBien
<1>7. t.ranura \in [Ranuras -> [id : Nombres \cup {Base, NADA}, campos : SUBSET Campos]]
  BY <1>0 DEF Registro
<1>3. /\ u.ranura[i].id = id /\ u.ranura[i].campos = {}
      /\ \A j \in Ranuras : j # i => u.ranura[j] = t.ranura[j]
  BY <1>2, <1>7
<1>4. u \in Registro
  <2>1. u.ranura \in [Ranuras -> [id : Nombres \cup {Base, NADA}, campos : SUBSET Campos]]
    BY <1>2, <1>7
  <2> QED BY <1>0, <1>2, <2>1 DEF Registro
<1>5. Marcas(u)
  <2>1. \A f : f \in u.listado <=> \E j \in Ranuras : f \in u.ranura[j].campos
    BY <1>0, <1>2, <1>3, DeMarcas
  <2>2. \A f : \A j, k \in Ranuras :
               f \in u.ranura[j].campos /\ f \in u.ranura[k].campos => j = k
    BY <1>0, <1>3, DeMarcas
  <2> QED BY <2>1, <2>2, MarcasDe, Zenon
<1>6. id # NADA /\ id # Base
  BY NombresAssumption DEF Nombres
<1> QED BY <1>1, <1>2, <1>3, <1>4, <1>5, <1>6, Cero DEF ModuloBien

LEMMA BienConLista ==
    ASSUME NEW t, ModuloBien(t), NEW i \in Ranuras, t.ranura[i].id # NADA
    PROVE  ModuloBien(ConLista(t, i))
<1>1. PICK u : u = ConLista(t, i)
  OBVIOUS
<1>2. /\ u.ranura = t.ranura /\ u.lista = i /\ u.listado = t.listado /\ u.nivel = t.nivel
      /\ u = [ranura |-> u.ranura, lista |-> u.lista, listado |-> u.listado, nivel |-> u.nivel]
  BY <1>1 DEF ConLista
<1>3. u \in Registro
  BY <1>2 DEF Registro, ModuloBien
<1>4. Marcas(u)
  BY <1>2 DEF Marcas, ModuloBien
<1> QED BY <1>1, <1>2, <1>3, <1>4 DEF ModuloBien

LEMMA BienEnd ==
    ASSUME NEW t, ModuloBien(t), NEW id \in Nombres
    PROVE  ModuloBien(dt_tran_end(t, id))
<1>1. CASE Con(t, id) = {}
  <2>1. dt_tran_end(t, id) = t
    BY <1>1, Zenon DEF dt_tran_end
  <2> QED BY <2>1, Zenon
<1>2. CASE Con(t, id) # {}
  <2>1. PICK i : EsPrimera(t, id, i) /\ i # 0 /\ dt_tran_end(t, id) = Terminada(t, i)
    BY <1>2, Fin, Zenon
  <2>2. i \in Ranuras
    BY <2>1 DEF EsPrimera
  <2> QED BY <2>1, <2>2, BienTerminada, Zenon
<1> QED BY <1>1, <1>2

LEMMA BienStart ==
    ASSUME NEW t, ModuloBien(t), NEW id \in Nombres
    PROVE  ModuloBien(dt_tran_start(t, id))
<1>1. CASE Con(t, NADA) = {}
  BY <1>1, ArranqueLleno, Zenon
<1>2. CASE Con(t, NADA) # {}
  <2>1. PICK i : EsPrimera(t, NADA, i) /\ i # 0 /\ dt_tran_start(t, id) = Arrancada(t, i, id)
    BY <1>2, Arranque, Zenon
  <2>2. i \in Ranuras /\ t.ranura[i].id = NADA
    BY <2>1 DEF EsPrimera
  <2> QED BY <2>1, <2>2, BienArrancada, Zenon
<1> QED BY <1>1, <1>2

\* Going back to a level changes no slot, no mark and no field.
LEMMA BienRestart ==
    ASSUME NEW t, ModuloBien(t), NEW id, id # NADA
    PROVE  /\ ModuloBien(dt_tran_restart(t, id))
           /\ dt_tran_restart(t, id).ranura = t.ranura
           /\ dt_tran_restart(t, id).listado = t.listado
           /\ dt_tran_restart(t, id).nivel = t.nivel
<1>1. CASE Con(t, id) = {}
  <2>1. dt_tran_restart(t, id) = t
    BY <1>1, Zenon DEF dt_tran_restart
  <2> QED BY <2>1, Zenon
<1>2. CASE Con(t, id) # {}
  <2>1. PICK i : EsPrimera(t, id, i) /\ dt_tran_restart(t, id) = ConLista(t, i)
    BY <1>2, Vuelta, Zenon
  <2>2. i \in Ranuras /\ t.ranura[i].id # NADA
    BY <2>1 DEF EsPrimera
  <2>3. /\ ConLista(t, i).ranura = t.ranura /\ ConLista(t, i).listado = t.listado
        /\ ConLista(t, i).nivel = t.nivel
    BY DEF ConLista
  <2> QED BY <2>1, <2>2, <2>3, BienConLista, Zenon
<1> QED BY <1>1, <1>2

\* The driver goes back to the desktop and from there to the level on top.
Encima(t, id) == dt_tran_restart(dt_tran_restart(t, Base), id)

LEMMA BienEncima ==
    ASSUME NEW t, ModuloBien(t), NEW id, id # NADA
    PROVE  /\ ModuloBien(Encima(t, id))
           /\ Encima(t, id).ranura = t.ranura
           /\ Encima(t, id).listado = t.listado
           /\ Encima(t, id).nivel = t.nivel
<1>1. PICK u : u = dt_tran_restart(t, Base)
  OBVIOUS
<1>2. ModuloBien(u) /\ u.ranura = t.ranura /\ u.listado = t.listado /\ u.nivel = t.nivel
  BY <1>1, BienRestart, NombresAssumption
<1>3. PICK v : v = dt_tran_restart(u, id)
  OBVIOUS
<1>4. ModuloBien(v) /\ v.ranura = u.ranura /\ v.listado = u.listado /\ v.nivel = u.nivel
  BY <1>2, <1>3, BienRestart
<1>5. Encima(t, id) = v
  BY <1>1, <1>3, Zenon DEF Encima
<1> QED BY <1>2, <1>4, <1>5

LEMMA ListaEncima ==
    ASSUME NEW t, ModuloBien(t), NEW id, id # NADA, NEW i, EsPrimera(t, id, i)
    PROVE  Encima(t, id).lista = i
<1>1. PICK u : u = dt_tran_restart(t, Base)
  OBVIOUS
<1>2. ModuloBien(u) /\ u.ranura = t.ranura
  BY <1>1, BienRestart, NombresAssumption
<1>3. EsPrimera(u, id, i)
  BY <1>2 DEF EsPrimera
<1>4. Con(u, id) # {}
  BY <1>3 DEF EsPrimera, Con
<1>5. PICK j : EsPrimera(u, id, j) /\ dt_tran_restart(u, id) = ConLista(u, j)
  BY <1>2, <1>4, Vuelta, Zenon
<1>6. i = j
  BY <1>3, <1>5, Cero DEF EsPrimera
<1>7. ConLista(u, j).lista = j
  BY DEF ConLista
<1> QED BY <1>1, <1>5, <1>6, <1>7, Zenon DEF Encima

\* The desktop alone, with nothing listed.
SoloBase(t) ==
    /\ ModuloBien(t)
    /\ \A i \in Ranuras : i # 0 => t.ranura[i].id = NADA
    /\ t.lista = 0
    /\ t.listado = {}

LEMMA ListaBase ==
    ASSUME NEW t, ModuloBien(t), t.lista = 0
    PROVE  /\ dt_tran_start(t, Base) = Desmarcado(t, 0)
           /\ ModuloBien(dt_tran_start(t, Base))
<1>1. t \in Registro /\ 0 \in Ranuras /\ t.ranura[0].id = Base /\ Marcas(t)
  BY Cero DEF ModuloBien
<1>2. dt_tran_start(t, Base) = Desmarca(t, 0)
  BY <1>1, Zenon DEF dt_tran_start
<1>3. Desmarca(t, 0) = Desmarcado(t, 0)
  BY <1>1, Desmarcada, Zenon
<1>4. PICK u : u = Desmarcado(t, 0)
  OBVIOUS
<1>5. /\ u.ranura = [j \in Ranuras |-> IF j = 0 THEN [id |-> t.ranura[0].id, campos |-> {}] ELSE t.ranura[j]]
      /\ u.lista = t.lista /\ u.listado = t.listado \ t.ranura[0].campos /\ u.nivel = t.nivel
      /\ u = [ranura |-> u.ranura, lista |-> u.lista, listado |-> u.listado, nivel |-> u.nivel]
  BY <1>4 DEF Desmarcado
<1>6. /\ u.ranura[0].id = Base /\ u.ranura[0].campos = {}
      /\ \A j \in Ranuras : j # 0 => u.ranura[j] = t.ranura[j]
  BY <1>1, <1>5
<1>7. u \in Registro
  <2>1. u.ranura \in [Ranuras -> [id : Nombres \cup {Base, NADA}, campos : SUBSET Campos]]
    BY <1>1, <1>5 DEF Registro
  <2> QED BY <1>1, <1>5, <2>1 DEF Registro
<1>8. Marcas(u)
  <2>1. \A f : f \in u.listado <=> \E j \in Ranuras : f \in u.ranura[j].campos
    BY <1>1, <1>5, <1>6, DeMarcas
  <2>2. \A f : \A j, k \in Ranuras :
               f \in u.ranura[j].campos /\ f \in u.ranura[k].campos => j = k
    BY <1>1, <1>6, DeMarcas
  <2> QED BY <2>1, <2>2, MarcasDe, Zenon
<1>9. Base # NADA
  BY NombresAssumption
<1>10. ModuloBien(u)
  BY <1>1, <1>5, <1>6, <1>7, <1>8, <1>9 DEF ModuloBien
<1> QED BY <1>2, <1>3, <1>4, <1>10, Zenon

\* Starting the desktop with its own list in use empties it.
LEMMA SoloBaseStart ==
    ASSUME NEW t, SoloBase(t)
    PROVE  SoloBase(dt_tran_start(t, Base)) /\ dt_tran_start(t, Base).nivel = t.nivel
<1>1. ModuloBien(t) /\ t.lista = 0
  BY DEF SoloBase
<1>2. PICK u : u = Desmarcado(t, 0)
  OBVIOUS
<1>3. dt_tran_start(t, Base) = u /\ ModuloBien(u)
  BY <1>1, <1>2, ListaBase, Zenon
<1>4. /\ u.ranura = [j \in Ranuras |-> IF j = 0 THEN [id |-> t.ranura[0].id, campos |-> {}] ELSE t.ranura[j]]
      /\ u.lista = t.lista /\ u.listado = t.listado \ t.ranura[0].campos /\ u.nivel = t.nivel
  BY <1>2 DEF Desmarcado
<1>5. SoloBase(u)
  BY <1>1, <1>3, <1>4 DEF SoloBase
<1> QED BY <1>3, <1>4, <1>5, Zenon

LEMMA SoloBaseInit == SoloBase(dt_tran_init) /\ dt_tran_init.nivel = [f \in Campos |-> 0]
<1>1. PICK u : u = dt_tran_init
  OBVIOUS
<1>2. /\ u.ranura = [i \in Ranuras |-> IF i = 0 THEN [id |-> Base, campos |-> {}] ELSE Vacia]
      /\ u.lista = 0 /\ u.listado = {} /\ u.nivel = [f \in Campos |-> 0]
      /\ u = [ranura |-> u.ranura, lista |-> u.lista, listado |-> u.listado, nivel |-> u.nivel]
  BY <1>1 DEF dt_tran_init
<1>3. /\ u.ranura[0].id = Base
      /\ \A i \in Ranuras : u.ranura[i].campos = {} /\ (i # 0 => u.ranura[i].id = NADA)
  BY <1>2, Cero DEF Vacia
<1>4. u \in Registro
  <2>1. u.ranura \in [Ranuras -> [id : Nombres \cup {Base, NADA}, campos : SUBSET Campos]]
    BY <1>2 DEF Vacia
  <2>2. u.nivel \in [Campos -> 0 .. MaxNivel + MaxAnidadas]
    BY <1>2, BoundsAssumption
  <2> QED BY <1>2, <2>1, <2>2, Cero DEF Registro
<1>5. Marcas(u)
  BY <1>2, <1>3, MarcasDe
<1>6. Base # NADA
  BY NombresAssumption
<1> QED BY <1>1, <1>2, <1>3, <1>4, <1>5, <1>6 DEF SoloBase, ModuloBien

LEMMA SoloBaseReset ==
    ASSUME NEW t, ModuloBien(t)
    PROVE  /\ SoloBase(dt_tran_reset(t))
           /\ dt_tran_reset(t).nivel =
                [f \in Campos |->
                    IF \E i \in Ranuras \ {0} : f \in t.ranura[i].campos THEN 0 ELSE t.nivel[f]]
<1>1. PICK u : u = dt_tran_reset(t)
  OBVIOUS
<1>0. t \in Registro /\ t.ranura[0].id = Base /\ Marcas(t)
  BY DEF ModuloBien
<1>2. /\ u.ranura = [i \in Ranuras |-> IF i = 0 THEN [t.ranura[0] EXCEPT !.campos = {}] ELSE Vacia]
      /\ u.lista = 0
      /\ u.listado = t.listado \ UNION {t.ranura[i].campos : i \in Ranuras}
      /\ u.nivel = [f \in Campos |->
                     IF \E i \in Ranuras \ {0} : f \in t.ranura[i].campos THEN 0 ELSE t.nivel[f]]
      /\ u = [ranura |-> u.ranura, lista |-> u.lista, listado |-> u.listado, nivel |-> u.nivel]
  BY <1>1 DEF dt_tran_reset
<1>7. [t.ranura[0] EXCEPT !.campos = {}] = [id |-> Base, campos |-> {}]
  <2>1. PICK x \in [id : Nombres \cup {Base, NADA}, campos : SUBSET Campos] : x = t.ranura[0]
    BY <1>0, Cero DEF Registro
  <2>2. [x EXCEPT !.campos = {}] = [id |-> x.id, campos |-> {}]
    OBVIOUS
  <2> QED BY <1>0, <2>1, <2>2
<1>3. /\ u.ranura[0].id = Base
      /\ \A i \in Ranuras : u.ranura[i].campos = {} /\ (i # 0 => u.ranura[i].id = NADA)
  BY <1>2, <1>7, Cero DEF Vacia
<1>8. u.listado = {}
  BY <1>0, <1>2 DEF Marcas
<1>4. u \in Registro
  <2>1. u.ranura \in [Ranuras -> [id : Nombres \cup {Base, NADA}, campos : SUBSET Campos]]
    BY <1>2, <1>7 DEF Vacia
  <2>2. u.nivel \in [Campos -> 0 .. MaxNivel + MaxAnidadas]
    BY <1>0, <1>2, BoundsAssumption DEF Registro
  <2> QED BY <1>2, <1>8, <2>1, <2>2, Cero DEF Registro
<1>5. Marcas(u)
  BY <1>3, <1>8, MarcasDe
<1>6. Base # NADA
  BY NombresAssumption
<1>9. SoloBase(u)
  BY <1>2, <1>3, <1>4, <1>5, <1>6, <1>8 DEF SoloBase, ModuloBien
<1> QED BY <1>1, <1>2, <1>9, Zenon

\* A field that is used: its first writer, and the list that has it.
UsadoDe(t, f, n, u) ==
    /\ ModuloBien(u)
    /\ u.lista = t.lista
    /\ u.nivel = [t.nivel EXCEPT ![f] = IF t.nivel[f] = 0 THEN n ELSE t.nivel[f]]
    /\ u.listado = t.listado \cup {f}
    /\ \A i \in Ranuras : u.ranura[i].id = t.ranura[i].id
    /\ f \in t.listado => u.ranura = t.ranura
    /\ f \notin t.listado =>
         /\ u.ranura[t.lista].campos = t.ranura[t.lista].campos \cup {f}
         /\ \A i \in Ranuras : i # t.lista => u.ranura[i] = t.ranura[i]

LEMMA Usado ==
    ASSUME NEW t, ModuloBien(t), NEW f \in Campos, NEW n, n = Nivel,
           n \in 1 .. MaxNivel + MaxAnidadas, NEW u, u = add_field_rec(t, f)
    PROVE  UsadoDe(t, f, n, u)
<1>0. t \in Registro /\ Marcas(t) /\ t.ranura[t.lista].id # NADA
  BY DEF ModuloBien
<1>2. PICK V : V = [t.nivel EXCEPT ![f] = IF t.nivel[f] = 0 THEN n ELSE t.nivel[f]]
  OBVIOUS
<1>3. PICK R : R = t.ranura
  OBVIOUS
<1>4. PICK w : w = [t EXCEPT !.nivel[f] = IF @ = 0 THEN Nivel ELSE @]
  OBVIOUS
<1>5. w = [ranura |-> R, lista |-> t.lista, listado |-> t.listado, nivel |-> V]
  <2>1. t = [ranura |-> R, lista |-> t.lista, listado |-> t.listado, nivel |-> t.nivel]
    BY <1>0, <1>3, Partes
  <2>2. w = [t EXCEPT !.nivel = V]
    BY <1>2, <1>4, Zenon
  <2> QED BY <2>1, <2>2
<1>7. /\ R \in [Ranuras -> [id : Nombres \cup {Base, NADA}, campos : SUBSET Campos]]
      /\ V \in [Campos -> 0 .. MaxNivel + MaxAnidadas]
      /\ t.lista \in Ranuras /\ t.listado \in SUBSET Campos
  BY <1>0, <1>2, <1>3, BoundsAssumption DEF Registro
<1>8. CASE f \in t.listado
  <2>1. u = w
    BY <1>4, <1>8, Zenon DEF add_field_rec
  <2>2. u.lista = t.lista /\ u.nivel = V /\ u.listado = t.listado /\ u.ranura = t.ranura
    BY <1>3, <1>5, <2>1
  <2>3. t.listado = t.listado \cup {f}
    BY <1>8
  <2>4. u \in Registro
    BY <1>5, <1>7, <2>1 DEF Registro
  <2>5. Marcas(u)
    BY <1>0, <2>2 DEF Marcas
  <2>6. ModuloBien(u)
    BY <2>2, <2>4, <2>5 DEF ModuloBien
  <2> QED BY <1>2, <1>8, <2>2, <2>3, <2>6 DEF UsadoDe
<1>9. CASE f \notin t.listado
  <2>1. PICK Q : Q = [R EXCEPT ![t.lista].campos = @ \cup {f}]
    OBVIOUS
  <2>2. PICK K : K = t.listado \cup {f}
    OBVIOUS
  <2>3. u = [w EXCEPT !.listado = @ \cup {f}, !.ranura[t.lista].campos = @ \cup {f}]
    BY <1>4, <1>9, Zenon DEF add_field_rec
  <2>4. PICK v : v = [w EXCEPT !.listado = @ \cup {f}]
    OBVIOUS
  <2>5. v = [ranura |-> R, lista |-> t.lista, listado |-> K, nivel |-> V]
    BY <1>5, <2>2, <2>4
  <2>6. u = [v EXCEPT !.ranura[t.lista].campos = @ \cup {f}]
    BY <2>3, <2>4
  <2>7. [v EXCEPT !.ranura[t.lista].campos = @ \cup {f}] = [v EXCEPT !.ranura = Q]
    <3>1. v.ranura = R
      BY <2>5
    <3> QED BY <2>1, <3>1, Zenon
  <2>8. u = [ranura |-> Q, lista |-> t.lista, listado |-> K, nivel |-> V]
    BY <2>5, <2>6, <2>7
  <2>9. u.lista = t.lista /\ u.nivel = V /\ u.listado = K /\ u.ranura = Q
    BY <2>8
  <2>10. [R[t.lista] EXCEPT !.campos = @ \cup {f}] =
           [id |-> R[t.lista].id, campos |-> R[t.lista].campos \cup {f}]
    <3>1. PICK x \in [id : Nombres \cup {Base, NADA}, campos : SUBSET Campos] : x = R[t.lista]
      BY <1>7
    <3>2. [x EXCEPT !.campos = @ \cup {f}] = [id |-> x.id, campos |-> x.campos \cup {f}]
      OBVIOUS
    <3> QED BY <3>1, <3>2
  <2>11. /\ Q[t.lista].id = R[t.lista].id /\ Q[t.lista].campos = R[t.lista].campos \cup {f}
         /\ \A i \in Ranuras : i # t.lista => Q[i] = R[i]
    BY <1>7, <2>1, <2>10
  <2>12. Q \in [Ranuras -> [id : Nombres \cup {Base, NADA}, campos : SUBSET Campos]]
    BY <1>7, <2>1, <2>10
  <2>13. u \in Registro
    BY <1>7, <2>2, <2>8, <2>12 DEF Registro
  <2>14. Marcas(u)
    <3>1. \A g : g \in u.listado <=> \E j \in Ranuras : g \in u.ranura[j].campos
      BY <1>0, <1>3, <1>7, <2>2, <2>9, <2>11, DeMarcas
    <3>2. \A g : \A j, k \in Ranuras :
               g \in u.ranura[j].campos /\ g \in u.ranura[k].campos => j = k
      BY <1>0, <1>3, <1>7, <1>9, <2>9, <2>11, DeMarcas
    <3> QED BY <3>1, <3>2, MarcasDe, Zenon
  <2>15. ModuloBien(u)
    BY <1>3, <1>7, <2>9, <2>11, <2>13, <2>14, Cero DEF ModuloBien
  <2>16. \A i \in Ranuras : u.ranura[i].id = t.ranura[i].id
    BY <1>3, <2>9, <2>11
  <2> QED BY <1>2, <1>3, <1>9, <2>2, <2>9, <2>11, <2>15, <2>16 DEF UsadoDe
<1> QED BY <1>8, <1>9

-----------------------------------------------------------------------------
(* A slot for each level: a start gives the new one a slot that was free, an *)
(* end frees one with its name.                                              *)

LEMMA RepartoIgual ==
    ASSUME NEW t, NEW u, NEW q, Reparto(t, q),
           \A i \in Ranuras : u.ranura[i].id = t.ranura[i].id
    PROVE  Reparto(u, q)
<1>1. PICK s \in [1 .. Len(q) -> Ranuras] :
        /\ s[1] = 0
        /\ \A j, k \in 1 .. Len(q) : s[j] = s[k] => j = k
        /\ \A k \in 1 .. Len(q) : t.ranura[s[k]].id = q[k]
        /\ \A i \in Ranuras : t.ranura[i].id # NADA => \E k \in 1 .. Len(q) : s[k] = i
  BY Zenon DEF Reparto, Reparte
<1>2. \A k \in 1 .. Len(q) : u.ranura[s[k]].id = q[k]
  <2> SUFFICES ASSUME NEW k \in 1 .. Len(q) PROVE u.ranura[s[k]].id = q[k]
    OBVIOUS
  <2>1. s[k] \in Ranuras
    OBVIOUS
  <2> QED BY <1>1, <2>1
<1>3. \A i \in Ranuras : u.ranura[i].id # NADA => \E k \in 1 .. Len(q) : s[k] = i
  BY <1>1
<1> QED BY <1>1, <1>2, <1>3, Zenon DEF Reparto, Reparte

LEMMA RepartoBase ==
    ASSUME NEW t, SoloBase(t)
    PROVE  Reparto(t, <<Base>>)
<1> DEFINE s == [k \in 1 .. 1 |-> 0]
<1>1. Len(<<Base>>) = 1 /\ <<Base>>[1] = Base
  OBVIOUS
<1>2. s \in [1 .. 1 -> Ranuras] /\ s[1] = 0 /\ \A k \in 1 .. 1 : k = 1 /\ s[k] = 0
  BY Cero
<1> HIDE DEF s
<1>3. t.ranura[0].id = Base /\ \A i \in Ranuras : t.ranura[i].id # NADA => i = 0
  BY DEF SoloBase, ModuloBien
<1>4. /\ \A j, k \in 1 .. 1 : s[j] = s[k] => j = k
      /\ \A k \in 1 .. 1 : t.ranura[s[k]].id = <<Base>>[k]
      /\ \A i \in Ranuras : t.ranura[i].id # NADA => \E k \in 1 .. 1 : s[k] = i
  BY <1>1, <1>2, <1>3
<1>5. Len(<<Base>>) = 1
  OBVIOUS
<1> QED BY <1>2, <1>4, <1>5 DEF Reparto, Reparte

LEMMA RepartoMas ==
    ASSUME NEW t, ModuloBien(t), NEW q, q \in Seq(Nombres \cup {Base}), Len(q) >= 1,
           Reparto(t, q), NEW id \in Nombres, NEW i, EsPrimera(t, NADA, i), i # 0
    PROVE  Reparto(Arrancada(t, i, id), Append(q, id))
<1>1. PICK n \in Nat : n = Len(q)
  OBVIOUS
<1>16. PICK s \in [1 .. n -> Ranuras] : Reparte(t, q, n, s)
  BY <1>1, Zenon DEF Reparto
<1>2. /\ s[1] = 0
      /\ \A j, k \in 1 .. n : s[j] = s[k] => j = k
      /\ \A k \in 1 .. n : t.ranura[s[k]].id = q[k]
      /\ \A j \in Ranuras : t.ranura[j].id # NADA => \E k \in 1 .. n : s[k] = j
  BY <1>16 DEF Reparte
<1>3. PICK u : u = Arrancada(t, i, id)
  OBVIOUS
<1>4. i \in Ranuras /\ t.ranura[i].id = NADA
  BY DEF EsPrimera
<1>5. u.ranura[i].id = id /\ \A j \in Ranuras : j # i => u.ranura[j] = t.ranura[j]
  <2>1. t.ranura \in [Ranuras -> [id : Nombres \cup {Base, NADA}, campos : SUBSET Campos]]
    BY DEF ModuloBien, Registro
  <2>2. u.ranura = [t.ranura EXCEPT ![i] = [id |-> id, campos |-> {}]]
    BY <1>3 DEF Arrancada
  <2> QED BY <1>4, <2>1, <2>2
<1>6. \A k \in 1 .. n : q[k] \in Nombres \cup {Base} /\ q[k] # NADA
  BY <1>1, NombresAssumption DEF Nombres
<1>7. \A k \in 1 .. n : s[k] \in Ranuras /\ s[k] # i
  BY <1>2, <1>4, <1>6
<1> DEFINE r == [k \in 1 .. n + 1 |-> IF k = n + 1 THEN i ELSE s[k]]
           q2 == Append(q, id)
<1>8. Len(q2) = n + 1 /\ q2[n + 1] = id /\ \A k \in 1 .. n : q2[k] = q[k]
  BY <1>1
<1>9. /\ r \in [1 .. n + 1 -> Ranuras] /\ r[n + 1] = i
      /\ \A k \in 1 .. n : r[k] = s[k]
  BY <1>1, <1>4
<1>10. \A k \in 1 .. n + 1 : k = n + 1 \/ k \in 1 .. n
  OBVIOUS
<1> HIDE DEF r, q2
<1>11. r[1] = 0
  BY <1>1, <1>2, <1>9
<1>12. \A j, k \in 1 .. n + 1 : r[j] = r[k] => j = k
  <2> SUFFICES ASSUME NEW j \in 1 .. n + 1, NEW k \in 1 .. n + 1, r[j] = r[k] PROVE j = k
    OBVIOUS
  <2>1. CASE j \in 1 .. n /\ k \in 1 .. n
    BY <1>2, <1>9, <2>1
  <2>2. CASE j = n + 1 /\ k \in 1 .. n
    BY <1>7, <1>9, <2>2
  <2>3. CASE k = n + 1 /\ j \in 1 .. n
    BY <1>7, <1>9, <2>3
  <2> QED BY <1>10, <2>1, <2>2, <2>3
<1>13. \A k \in 1 .. n + 1 : u.ranura[r[k]].id = q2[k]
  <2> SUFFICES ASSUME NEW k \in 1 .. n + 1 PROVE u.ranura[r[k]].id = q2[k]
    OBVIOUS
  <2>1. CASE k = n + 1
    BY <1>5, <1>8, <1>9, <2>1
  <2>2. CASE k \in 1 .. n
    <3>1. r[k] = s[k] /\ q2[k] = q[k]
      BY <1>8, <1>9, <2>2, Zenon
    <3>2. u.ranura[s[k]] = t.ranura[s[k]]
      BY <1>5, <1>7, <2>2, Zenon
    <3>3. t.ranura[s[k]].id = q[k]
      BY <1>2, <2>2, Zenon
    <3> QED BY <3>1, <3>2, <3>3, Zenon
  <2> QED BY <1>10, <2>1, <2>2, Zenon
<1>14. \A j \in Ranuras : u.ranura[j].id # NADA => \E k \in 1 .. n + 1 : r[k] = j
  <2> SUFFICES ASSUME NEW j \in Ranuras, u.ranura[j].id # NADA
               PROVE  \E k \in 1 .. n + 1 : r[k] = j
    OBVIOUS
  <2>1. CASE j = i
    BY <1>1, <1>9, <2>1
  <2>2. CASE j # i
    <3>1. PICK k \in 1 .. n : s[k] = j
      BY <1>2, <1>5, <2>2
    <3> QED BY <1>9, <3>1
  <2> QED BY <2>1, <2>2
<1>15. Reparto(u, q2)
  <2>1. Reparte(u, q2, n + 1, r)
    BY <1>11, <1>12, <1>13, <1>14, Zenon DEF Reparte
  <2> QED BY <1>8, <1>9, <2>1, Zenon DEF Reparto
<1> QED BY <1>3, <1>15, Zenon DEF q2

\* The level that ends is the last; the slot it had passes to the level whose
\* slot was freed, if that was not the same.
LEMMA RepartoMenos ==
    ASSUME NEW t, ModuloBien(t), NEW q, q \in Seq(Nombres \cup {Base}), Len(q) >= 2,
           Reparto(t, q), NEW i, EsPrimera(t, q[Len(q)], i), i # 0, q[Len(q)] \in Nombres
    PROVE  Reparto(Terminada(t, i), SubSeq(q, 1, Len(q) - 1))
<1>1. PICK n \in Nat : n = Len(q)
  OBVIOUS
<1>18. PICK s \in [1 .. n -> Ranuras] : Reparte(t, q, n, s)
  BY <1>1, Zenon DEF Reparto
<1>2. /\ s[1] = 0
      /\ \A j, k \in 1 .. n : s[j] = s[k] => j = k
      /\ \A k \in 1 .. n : t.ranura[s[k]].id = q[k]
      /\ \A j \in Ranuras : t.ranura[j].id # NADA => \E k \in 1 .. n : s[k] = j
  BY <1>18 DEF Reparte
<1>3. PICK u : u = Terminada(t, i)
  OBVIOUS
<1>4. i \in Ranuras /\ t.ranura[i].id = q[n] /\ q[n] # NADA
  BY <1>1, NombresAssumption DEF EsPrimera, Nombres
<1>5. u.ranura[i].id = NADA /\ \A j \in Ranuras : j # i => u.ranura[j].id = t.ranura[j].id
  <2>1. u.ranura = [j \in Ranuras |-> IF j = i THEN Vacia
                                     ELSE IF j = 0 THEN [id |-> Base, campos |-> {}]
                                     ELSE t.ranura[j]]
    BY <1>3 DEF Terminada
  <2>2. t.ranura[0].id = Base
    BY DEF ModuloBien
  <2> QED BY <1>4, <2>1, <2>2, Cero DEF Vacia
<1>6. PICK m \in 1 .. n : s[m] = i
  BY <1>2, <1>4
<1>7. m # 1 /\ n \in 1 .. n /\ n >= 2
  BY <1>1, <1>2, <1>6
<1>8. q[m] = q[n]
  BY <1>2, <1>4, <1>6
<1>9. \A k \in 1 .. n : s[k] \in Ranuras
  OBVIOUS
<1> DEFINE r == [k \in 1 .. n - 1 |-> IF k = m THEN s[n] ELSE s[k]]
           q2 == SubSeq(q, 1, Len(q) - 1)
<1>10. Len(q2) = n - 1 /\ \A k \in 1 .. n - 1 : q2[k] = q[k]
  BY <1>1
<1>11. /\ r \in [1 .. n - 1 -> Ranuras]
       /\ \A k \in 1 .. n - 1 : r[k] = IF k = m THEN s[n] ELSE s[k]
  BY <1>7, <1>9
<1>12. \A k \in 1 .. n - 1 : k \in 1 .. n /\ k # n
  OBVIOUS
<1> HIDE DEF r, q2
<1>13. r[1] = 0
  BY <1>2, <1>7, <1>11
<1>14. \A j, k \in 1 .. n - 1 : r[j] = r[k] => j = k
  <2> SUFFICES ASSUME NEW j \in 1 .. n - 1, NEW k \in 1 .. n - 1, r[j] = r[k] PROVE j = k
    OBVIOUS
  <2>1. j \in 1 .. n /\ j # n /\ k \in 1 .. n /\ k # n
    BY <1>12
  <2>2. r[j] = (IF j = m THEN s[n] ELSE s[j]) /\ r[k] = (IF k = m THEN s[n] ELSE s[k])
    BY <1>11
  <2>3. CASE j = m /\ k # m
    <3>1. s[n] = s[k]
      BY <2>2, <2>3
    <3>2. n = k
      BY <1>2, <1>7, <2>1, <3>1, Zenon
    <3> QED BY <2>1, <3>2
  <2>4. CASE j # m /\ k = m
    <3>1. s[j] = s[n]
      BY <2>2, <2>4
    <3>2. j = n
      BY <1>2, <1>7, <2>1, <3>1, Zenon
    <3> QED BY <2>1, <3>2
  <2>5. CASE j # m /\ k # m
    BY <1>2, <2>1, <2>2, <2>5
  <2> QED BY <2>3, <2>4, <2>5
<1>15. \A k \in 1 .. n - 1 : u.ranura[r[k]].id = q2[k]
  <2> SUFFICES ASSUME NEW k \in 1 .. n - 1 PROVE u.ranura[r[k]].id = q2[k]
    OBVIOUS
  <2>1. k \in 1 .. n /\ k # n /\ q2[k] = q[k]
    BY <1>10, <1>12
  <2>2. CASE k = m
    <3>1. r[k] = s[n] /\ s[n] # s[m]
      BY <1>2, <1>7, <1>11, <2>1, <2>2
    <3>2. u.ranura[s[n]].id = t.ranura[s[n]].id
      BY <1>5, <1>6, <1>7, <1>9, <3>1
    <3> QED BY <1>2, <1>7, <1>8, <2>1, <2>2, <3>1, <3>2
  <2>3. CASE k # m
    <3>1. r[k] = s[k] /\ s[k] # s[m]
      BY <1>2, <1>11, <2>1, <2>3
    <3>2. u.ranura[s[k]].id = t.ranura[s[k]].id
      BY <1>5, <1>6, <1>9, <2>1, <3>1
    <3> QED BY <1>2, <2>1, <3>1, <3>2
  <2> QED BY <2>2, <2>3
<1>16. \A j \in Ranuras : u.ranura[j].id # NADA => \E k \in 1 .. n - 1 : r[k] = j
  <2> SUFFICES ASSUME NEW j \in Ranuras, u.ranura[j].id # NADA
               PROVE  \E k \in 1 .. n - 1 : r[k] = j
    OBVIOUS
  <2>1. j # i /\ t.ranura[j].id # NADA
    BY <1>5
  <2>2. PICK k \in 1 .. n : s[k] = j
    BY <1>2, <2>1
  <2>3. k # m
    BY <1>6, <2>1, <2>2
  <2>4. CASE k = n
    <3>1. m \in 1 .. n - 1
      BY <1>6, <2>3, <2>4
    <3> QED BY <1>11, <2>2, <2>4, <3>1
  <2>5. CASE k # n
    <3>1. k \in 1 .. n - 1
      BY <2>5
    <3> QED BY <1>11, <2>2, <2>3, <3>1
  <2> QED BY <2>4, <2>5
<1>17. Reparto(u, q2)
  <2>1. Reparte(u, q2, n - 1, r)
    BY <1>13, <1>14, <1>15, <1>16, Zenon DEF Reparte
  <2> QED BY <1>10, <1>11, <2>1, Zenon DEF Reparto
<1> QED BY <1>3, <1>17, Zenon DEF q2

LEMMA RepartoEnd ==
    ASSUME NEW t, ModuloBien(t), NEW q, q \in Seq(Nombres \cup {Base}), Len(q) >= 2,
           Reparto(t, q), q[Len(q)] \in Nombres
    PROVE  Reparto(dt_tran_end(t, q[Len(q)]), SubSeq(q, 1, Len(q) - 1))
<1>1. PICK id \in Nombres : id = q[Len(q)]
  OBVIOUS
<1>2. Con(t, id) # {}
  <2>1. PICK s \in [1 .. Len(q) -> Ranuras] : \A k \in 1 .. Len(q) : t.ranura[s[k]].id = q[k]
    BY Zenon DEF Reparto, Reparte
  <2>2. Len(q) \in 1 .. Len(q)
    OBVIOUS
  <2>3. s[Len(q)] \in Ranuras /\ t.ranura[s[Len(q)]].id = id
    BY <1>1, <2>1, <2>2
  <2> QED BY <2>3 DEF Con
<1>3. PICK i : EsPrimera(t, id, i) /\ i # 0 /\ dt_tran_end(t, id) = Terminada(t, i)
  BY <1>2, Fin, Zenon
<1>4. Reparto(Terminada(t, i), SubSeq(q, 1, Len(q) - 1))
  BY <1>1, <1>3, RepartoMenos, Zenon
<1> QED BY <1>1, <1>3, <1>4, Zenon

LEMMA RepartoStart ==
    ASSUME NEW t, ModuloBien(t), NEW q, q \in Seq(Nombres \cup {Base}), Len(q) >= 1,
           Reparto(t, q), NEW id \in Nombres, Con(t, NADA) # {}
    PROVE  Reparto(dt_tran_start(t, id), Append(q, id))
<1>1. PICK i : EsPrimera(t, NADA, i) /\ i # 0 /\ dt_tran_start(t, id) = Arrancada(t, i, id)
  BY Arranque, Zenon
<1>2. Reparto(Arrancada(t, i, id), Append(q, id))
  BY <1>1, RepartoMas, Zenon
<1> QED BY <1>1, <1>2, Zenon

-----------------------------------------------------------------------------
(* The slots in the order of the levels.                                     *)

LEMMA OrdenBase ==
    ASSUME NEW t, SoloBase(t), \A f \in Campos : t.nivel[f] \in {0, 1}
    PROVE  EnOrden(t, <<Base>>)
<1>1. Len(<<Base>>) = 1 /\ <<Base>>[1] = Base
  OBVIOUS
<1>2. /\ t.ranura[0].id = Base /\ t.listado = {}
      /\ \A i \in Ranuras : i # 0 => t.ranura[i].id = NADA
  BY DEF SoloBase, ModuloBien
<1>3. \A k \in 1 .. 1 : k = 1 /\ k - 1 = 0
  OBVIOUS
<1>4. \A k \in 1 .. Len(<<Base>>) : t.ranura[k - 1].id = <<Base>>[k]
  BY <1>1, <1>2, <1>3
<1>5. \A i \in Ranuras : i >= 1 => t.ranura[i].id = NADA
  BY <1>2, Cero
<1>6. \A f \in Campos : t.nivel[f] <= 1
  OBVIOUS
<1>7. \A k \in 2 .. 1 : FALSE
  OBVIOUS
<1>8. SSIZE >= 1
  BY SSIZEAssumption
<1>9. \A f \in t.listado : t.nivel[f] >= 1
  BY <1>2
<1> QED BY <1>1, <1>4, <1>5, <1>6, <1>7, <1>8, <1>9 DEF EnOrden

\* Nothing that the order is about changes.
LEMMA OrdenIgual ==
    ASSUME NEW t, NEW u, NEW q, EnOrden(t, q), u.ranura = t.ranura,
           u.listado = t.listado, u.nivel = t.nivel
    PROVE  EnOrden(u, q)
BY DEF EnOrden

\* A start takes the slot above those in use.
LEMMA OrdenStart ==
    ASSUME NEW t, ModuloBien(t), NEW q, q \in Seq(Nombres \cup {Base}), Len(q) >= 1,
           EnOrden(t, q), NEW id \in Nombres, Con(t, NADA) # {}
    PROVE  /\ EnOrden(dt_tran_start(t, id), Append(q, id))
           /\ dt_tran_start(t, id).lista = Len(q)
<1>1. PICK n \in Nat : n = Len(q)
  OBVIOUS
<1>2. PICK i : EsPrimera(t, NADA, i) /\ i # 0 /\ dt_tran_start(t, id) = Arrancada(t, i, id)
  BY Arranque, Zenon
<1>3. \A k \in 1 .. n : q[k] \in Nombres \cup {Base} /\ q[k] # NADA
  BY <1>1, NombresAssumption DEF Nombres
<1>4. /\ n <= SSIZE
      /\ \A k \in 1 .. n : t.ranura[k - 1].id = q[k]
      /\ \A j \in Ranuras : j >= n => t.ranura[j].id = NADA
      /\ \A f \in Campos : t.nivel[f] <= n
      /\ \A f \in t.listado : t.nivel[f] >= 1
      /\ \A f \in Campos : \A k \in 2 .. n : t.nivel[f] = k => f \in t.ranura[k - 1].campos
  BY <1>1 DEF EnOrden
<1>5. i \in Ranuras /\ t.ranura[i].id = NADA /\ i \in Nat /\ i < SSIZE
  BY <1>2, Cero, SSIZEAssumption DEF EsPrimera, Ranuras
<1>6. i = n
  <2>1. i >= n
    <3>1. SUFFICES ASSUME i < n PROVE FALSE
      BY <1>5
    <3>2. i + 1 \in 1 .. n /\ (i + 1) - 1 = i
      BY <1>5, <3>1
    <3>3. t.ranura[i].id = q[i + 1]
      BY <1>4, <3>2
    <3> QED BY <1>3, <1>5, <3>2, <3>3
  <2>2. n \in Ranuras /\ t.ranura[n].id = NADA
    BY <1>4, <1>5, <2>1, SSIZEAssumption DEF Ranuras
  <2> QED BY <1>2, <1>5, <2>1, <2>2 DEF EsPrimera
<1>7. PICK u : u = Arrancada(t, n, id)
  OBVIOUS
<1>8. /\ u.ranura[n].id = id
      /\ \A j \in Ranuras : j # n => u.ranura[j] = t.ranura[j]
      /\ u.lista = n /\ u.listado = t.listado /\ u.nivel = t.nivel
  <2>1. t.ranura \in [Ranuras -> [id : Nombres \cup {Base, NADA}, campos : SUBSET Campos]]
    BY DEF ModuloBien, Registro
  <2>2. u.ranura = [t.ranura EXCEPT ![n] = [id |-> id, campos |-> {}]]
        /\ u.lista = n /\ u.listado = t.listado /\ u.nivel = t.nivel
    BY <1>7 DEF Arrancada
  <2> QED BY <1>5, <1>6, <2>1, <2>2
<1> DEFINE q2 == Append(q, id)
<1>9. Len(q2) = n + 1 /\ q2[n + 1] = id /\ \A k \in 1 .. n : q2[k] = q[k]
  BY <1>1
<1>10. \A k \in 1 .. n + 1 : k = n + 1 \/ k \in 1 .. n
  OBVIOUS
<1>11. \A k \in 1 .. n : k - 1 \in Ranuras /\ k - 1 # n
  BY <1>4, SSIZEAssumption DEF Ranuras
<1> HIDE DEF q2
<1>12. n + 1 <= SSIZE
  BY <1>5, <1>6, SSIZEAssumption
<1>13. \A k \in 1 .. n + 1 : u.ranura[k - 1].id = q2[k]
  <2> SUFFICES ASSUME NEW k \in 1 .. n + 1 PROVE u.ranura[k - 1].id = q2[k]
    OBVIOUS
  <2>1. CASE k = n + 1
    BY <1>8, <1>9, <2>1
  <2>2. CASE k \in 1 .. n
    BY <1>4, <1>8, <1>9, <1>11, <2>2
  <2> QED BY <1>10, <2>1, <2>2
<1>14. \A j \in Ranuras : j >= n + 1 => u.ranura[j].id = NADA
  <2> SUFFICES ASSUME NEW j \in Ranuras, j >= n + 1 PROVE u.ranura[j].id = NADA
    OBVIOUS
  <2>1. j \in Nat
    BY Cero
  <2>2. j >= n /\ j # n
    BY <2>1
  <2> QED BY <1>4, <1>8, <2>2
<1>15. \A f \in Campos : t.nivel[f] \in Nat
  BY BoundsAssumption DEF ModuloBien, Registro
<1>16. \A f \in Campos : u.nivel[f] <= n + 1
  BY <1>4, <1>8, <1>15
<1>17. \A f \in Campos : \A k \in 2 .. n + 1 : u.nivel[f] = k => f \in u.ranura[k - 1].campos
  <2> SUFFICES ASSUME NEW f \in Campos, NEW k \in 2 .. n + 1, u.nivel[f] = k
               PROVE  f \in u.ranura[k - 1].campos
    OBVIOUS
  <2>1. k \in 2 .. n /\ k \in 1 .. n
    BY <1>4, <1>8
  <2> QED BY <1>4, <1>8, <1>11, <2>1
<1>18. \A f \in u.listado : u.nivel[f] >= 1
  BY <1>4, <1>8
<1>19. EnOrden(u, q2)
  BY <1>9, <1>12, <1>13, <1>14, <1>16, <1>17, <1>18 DEF EnOrden
<1> QED BY <1>1, <1>2, <1>6, <1>7, <1>8, <1>19, Zenon DEF q2

\* An end frees the slot on top, if no level below has the same name, and clears
\* only what the level that ends wrote first.
LEMMA OrdenEnd ==
    ASSUME NEW t, ModuloBien(t), NEW q, q \in Seq(Nombres \cup {Base}), Len(q) >= 2,
           EnOrden(t, q), q[Len(q)] \in Nombres,
           \A k \in 1 .. Len(q) - 1 : q[k] # q[Len(q)]
    PROVE  LET u == dt_tran_end(t, q[Len(q)]) IN
             /\ EnOrden(u, SubSeq(q, 1, Len(q) - 1))
             /\ \A f \in Campos : t.nivel[f] \in 2 .. Len(q) - 1 => u.nivel[f] = t.nivel[f]
<1>1. PICK n \in Nat : n = Len(q)
  OBVIOUS
<1>2. PICK id \in Nombres : id = q[n]
  BY <1>1
<1>3. n >= 2
  BY <1>1
<1>4. /\ n <= SSIZE
      /\ \A k \in 1 .. n : t.ranura[k - 1].id = q[k]
      /\ \A j \in Ranuras : j >= n => t.ranura[j].id = NADA
      /\ \A f \in Campos : t.nivel[f] <= n
      /\ \A f \in t.listado : t.nivel[f] >= 1
      /\ \A f \in Campos : \A k \in 2 .. n : t.nivel[f] = k => f \in t.ranura[k - 1].campos
  BY <1>1 DEF EnOrden
<1>5. n - 1 \in Ranuras /\ t.ranura[n - 1].id = id
  BY <1>2, <1>3, <1>4, SSIZEAssumption DEF Ranuras
<1>6. Con(t, id) # {}
  BY <1>5 DEF Con
<1>7. PICK i : EsPrimera(t, id, i) /\ i # 0 /\ dt_tran_end(t, id) = Terminada(t, i)
  BY <1>6, Fin, Zenon
<1>8. i = n - 1
  <2>1. i \in Nat /\ i \in Ranuras /\ t.ranura[i].id = id /\ i <= n - 1
    BY <1>5, <1>7, Cero DEF EsPrimera
  <2>2. i + 1 \in 1 .. n /\ (i + 1) - 1 = i
    BY <1>3, <2>1
  <2>3. q[i + 1] = id
    BY <1>4, <2>1, <2>2
  <2>4. i + 1 \in 1 .. n - 1 => q[i + 1] # id
    BY <1>1, <1>2
  <2> QED BY <2>1, <2>2, <2>3, <2>4
<1>9. PICK u : u = Terminada(t, n - 1)
  OBVIOUS
<1>10. PICK V : V = [f \in Campos |-> IF f \in t.ranura[n - 1].campos THEN 0 ELSE t.nivel[f]]
  OBVIOUS
<1>11. /\ u.ranura[n - 1].id = NADA /\ u.ranura[0].id = Base
       /\ \A j \in Ranuras : j # n - 1 /\ j # 0 => u.ranura[j] = t.ranura[j]
       /\ u.listado = (t.listado \ t.ranura[n - 1].campos) \ t.ranura[0].campos
       /\ u.nivel = V
  <2>1. /\ u.ranura = [j \in Ranuras |-> IF j = n - 1 THEN Vacia
                                        ELSE IF j = 0 THEN [id |-> Base, campos |-> {}]
                                        ELSE t.ranura[j]]
        /\ u.listado = (t.listado \ t.ranura[n - 1].campos) \ t.ranura[0].campos
        /\ u.nivel = [f \in Campos |-> IF f \in t.ranura[n - 1].campos THEN 0 ELSE t.nivel[f]]
    BY <1>9 DEF Terminada
  <2> QED BY <1>3, <1>5, <1>10, <2>1, Cero DEF Vacia
<1>12. t.ranura[0].id = Base /\ Marcas(t) /\ \A f \in Campos : t.nivel[f] \in Nat
  BY BoundsAssumption DEF ModuloBien, Registro
<1> DEFINE q2 == SubSeq(q, 1, Len(q) - 1)
<1>13. Len(q2) = n - 1 /\ \A k \in 1 .. n - 1 : q2[k] = q[k]
  BY <1>1, <1>3
<1> HIDE DEF q2
<1>14. \A k \in 1 .. n - 1 : k \in 1 .. n /\ k - 1 \in Ranuras /\ k - 1 # n - 1
  BY <1>4, SSIZEAssumption DEF Ranuras
<1>15. \A k \in 1 .. n - 1 : u.ranura[k - 1].id = q2[k]
  <2> SUFFICES ASSUME NEW k \in 1 .. n - 1 PROVE u.ranura[k - 1].id = q2[k]
    OBVIOUS
  <2>1. k \in 1 .. n /\ k - 1 \in Ranuras /\ k - 1 # n - 1 /\ t.ranura[k - 1].id = q2[k]
    BY <1>4, <1>13, <1>14
  <2>2. CASE k - 1 = 0
    BY <1>11, <1>12, <2>1, <2>2
  <2>3. CASE k - 1 # 0
    BY <1>11, <2>1, <2>3
  <2> QED BY <2>2, <2>3
<1>16. \A j \in Ranuras : j >= n - 1 => u.ranura[j].id = NADA
  <2> SUFFICES ASSUME NEW j \in Ranuras, j >= n - 1 PROVE u.ranura[j].id = NADA
    OBVIOUS
  <2>1. j \in Nat
    BY Cero
  <2>2. CASE j = n - 1
    BY <1>11, <2>2
  <2>3. CASE j # n - 1
    <3>1. j >= n /\ j # 0
      BY <1>3, <2>1, <2>3
    <3> QED BY <1>4, <1>11, <2>3, <3>1
  <2> QED BY <2>2, <2>3
<1>17. \A f \in Campos : u.nivel[f] = IF f \in t.ranura[n - 1].campos THEN 0 ELSE t.nivel[f]
  BY <1>10, <1>11
<1>18. \A f \in Campos : u.nivel[f] <= n - 1
  <2> SUFFICES ASSUME NEW f \in Campos PROVE u.nivel[f] <= n - 1
    OBVIOUS
  <2>1. CASE f \in t.ranura[n - 1].campos
    BY <1>3, <1>17, <2>1
  <2>2. CASE f \notin t.ranura[n - 1].campos
    <3>1. n \in 2 .. n
      BY <1>3
    <3>2. t.nivel[f] # n
      BY <1>4, <2>2, <3>1
    <3> QED BY <1>3, <1>4, <1>12, <1>17, <2>2, <3>2
  <2> QED BY <2>1, <2>2
<1>19. \A f \in u.listado : u.nivel[f] >= 1
  <2> SUFFICES ASSUME NEW f \in u.listado PROVE u.nivel[f] >= 1
    OBVIOUS
  <2>1. f \in t.listado /\ f \notin t.ranura[n - 1].campos
    BY <1>11
  <2>2. f \in Campos
    BY <2>1 DEF ModuloBien, Registro
  <2> QED BY <1>4, <1>17, <2>1, <2>2
<1>20. \A f \in Campos : \A k \in 2 .. n - 1 : t.nivel[f] = k =>
          f \in t.ranura[k - 1].campos /\ f \notin t.ranura[n - 1].campos
  <2> SUFFICES ASSUME NEW f \in Campos, NEW k \in 2 .. n - 1, t.nivel[f] = k
               PROVE  f \in t.ranura[k - 1].campos /\ f \notin t.ranura[n - 1].campos
    OBVIOUS
  <2>1. k \in 2 .. n /\ k - 1 \in Ranuras /\ k - 1 # n - 1
    BY <1>14
  <2>2. f \in t.ranura[k - 1].campos
    BY <1>4, <2>1
  <2> QED BY <1>5, <1>12, <2>1, <2>2, DeMarcas
<1>21. \A f \in Campos : \A k \in 2 .. n - 1 : u.nivel[f] = k => f \in u.ranura[k - 1].campos
  <2> SUFFICES ASSUME NEW f \in Campos, NEW k \in 2 .. n - 1, u.nivel[f] = k
               PROVE  f \in u.ranura[k - 1].campos
    OBVIOUS
  <2>1. t.nivel[f] = k
    BY <1>17
  <2>2. k - 1 \in Ranuras /\ k - 1 # n - 1 /\ k - 1 # 0
    BY <1>14
  <2> QED BY <1>11, <1>20, <2>1, <2>2
<1>22. EnOrden(u, q2)
  <2>1. n - 1 <= SSIZE
    BY <1>3, <1>4, SSIZEAssumption
  <2> QED BY <1>13, <1>15, <1>16, <1>18, <1>19, <1>21, <2>1 DEF EnOrden
<1>23. \A f \in Campos : t.nivel[f] \in 2 .. n - 1 => u.nivel[f] = t.nivel[f]
  BY <1>17, <1>20
<1>24. dt_tran_end(t, q[Len(q)]) = u
  BY <1>1, <1>2, <1>7, <1>8, <1>9, Zenon
<1> QED BY <1>1, <1>22, <1>23, <1>24, Zenon DEF q2

\* The driver finds the slot of the level on top.
LEMMA OrdenEncima ==
    ASSUME NEW t, ModuloBien(t), NEW q, q \in Seq(Nombres \cup {Base}), Len(q) >= 1,
           EnOrden(t, q), \A j, k \in 1 .. Len(q) : q[j] = q[k] => j = k
    PROVE  EnOrden(Encima(t, q[Len(q)]), q) /\ Encima(t, q[Len(q)]).lista = Len(q) - 1
<1>1. PICK n \in Nat : n = Len(q)
  OBVIOUS
<1>2. PICK id \in Nombres \cup {Base} : id = q[n]
  BY <1>1
<1>3. n >= 1 /\ id # NADA
  BY <1>1, NombresAssumption DEF Nombres
<1>4. /\ n <= SSIZE
      /\ \A k \in 1 .. n : t.ranura[k - 1].id = q[k]
      /\ \A j \in Ranuras : j >= n => t.ranura[j].id = NADA
  BY <1>1 DEF EnOrden
<1>5. n - 1 \in Ranuras /\ t.ranura[n - 1].id = id
  BY <1>2, <1>3, <1>4, SSIZEAssumption DEF Ranuras
<1>6. EsPrimera(t, id, n - 1)
  <2>1. SUFFICES ASSUME NEW j \in Ranuras, t.ranura[j].id = id PROVE n - 1 <= j
    BY <1>5 DEF EsPrimera
  <2>2. j \in Nat
    BY Cero
  <2>3. SUFFICES ASSUME j < n - 1 PROVE FALSE
    BY <2>2
  <2>4. j + 1 \in 1 .. n /\ (j + 1) - 1 = j /\ n \in 1 .. n
    BY <1>3, <2>2, <2>3
  <2>5. q[j + 1] = q[n]
    BY <1>2, <1>4, <2>1, <2>4
  <2>6. j + 1 = n
    BY <1>1, <2>4, <2>5
  <2> QED BY <2>2, <2>3, <2>6
<1>7. Encima(t, id).lista = n - 1
  BY <1>3, <1>6, ListaEncima, Zenon
<1>8. EnOrden(Encima(t, id), q)
  BY <1>3, BienEncima, OrdenIgual, Zenon
<1> QED BY <1>1, <1>2, <1>7, <1>8, Zenon

-----------------------------------------------------------------------------
(* The levels as one sequence, and the way back to the desktop at once.      *)

LEMMA Prefijo ==
    ASSUME NEW X, NEW p \in Seq(X), NEW m \in 0 .. Len(p)
    PROVE  /\ SubSeq(p, 1, m) \in Seq(X) /\ Len(SubSeq(p, 1, m)) = m
           /\ \A k \in 1 .. m : SubSeq(p, 1, m)[k] = p[k]
<1>1. m \in Int /\ 1 \in Int /\ \A i \in 1 .. m : p[i] \in X
  OBVIOUS
<1>2. PICK q : q = SubSeq(p, 1, m)
  OBVIOUS
<1>3. /\ q \in Seq(X) /\ Len(q) = (IF 1 <= m THEN m - 1 + 1 ELSE 0)
      /\ \A i \in 1 .. m - 1 + 1 : q[i] = p[1 + i - 1]
  BY <1>1, <1>2, SubSeqProperties
<1>4. Len(q) = m /\ \A k \in 1 .. m : q[k] = p[k]
  BY <1>3
<1> QED BY <1>2, <1>3, <1>4

LEMMA CapasTipo ==
    ASSUME PilasBien
    PROVE  /\ Capas \in Seq(Nombres \cup {Base})
           /\ Len(Capas) = Nivel /\ Nivel \in 1 .. MaxNivel + MaxAnidadas
           /\ Capas[1] = Base
           /\ \A k \in 1 .. Len(pila) : Capas[k] = pila[k]
           /\ \A k \in 1 .. Len(anidadas) : Capas[Len(pila) + k] = anidadas[k]
           /\ anidadas = <<>> => Capas = pila
<1>1. PICK p \in Seq(Nombres \cup {Base}) : p = pila
  BY DEF PilasBien, Nombres
<1>2. PICK a \in Seq(Nombres \cup {Base}) : a = anidadas
  BY DEF PilasBien
<1>3. PICK q : q = p \o a
  OBVIOUS
<1>4. /\ q \in Seq(Nombres \cup {Base}) /\ Len(q) = Len(p) + Len(a)
      /\ \A i \in 1 .. Len(p) + Len(a) : q[i] = IF i <= Len(p) THEN p[i] ELSE a[i - Len(p)]
  BY <1>3, ConcatProperties
<1>5. /\ \A k \in 1 .. Len(p) : q[k] = p[k]
      /\ \A k \in 1 .. Len(a) : q[Len(p) + k] = a[k]
  <2>1. \A k \in 1 .. Len(p) : q[k] = p[k]
    BY <1>4
  <2>2. SUFFICES ASSUME NEW k \in 1 .. Len(a) PROVE q[Len(p) + k] = a[k]
    BY <2>1
  <2>3. Len(p) + k \in 1 .. Len(p) + Len(a) /\ ~(Len(p) + k <= Len(p)) /\ (Len(p) + k) - Len(p) = k
    OBVIOUS
  <2> QED BY <1>4, <2>3
<1>6. a = <<>> => q = p
  BY <1>3
<1>7. Len(p) \in 1 .. MaxNivel /\ Len(a) <= MaxAnidadas /\ p[1] = Base
  BY <1>1, <1>2 DEF PilasBien
<1>8. Len(p) + Len(a) \in 1 .. MaxNivel + MaxAnidadas /\ 1 \in 1 .. Len(p)
  BY <1>7, BoundsAssumption
<1>9. q = Capas
  BY <1>1, <1>2, <1>3 DEF Capas
<1>10. Nivel = Len(p) + Len(a)
  BY <1>1, <1>2 DEF Nivel
<1> QED BY <1>1, <1>2, <1>4, <1>5, <1>6, <1>7, <1>8, <1>9, <1>10

\* One level more, and one level less, of the two stacks.
LEMMA CapasMas ==
    ASSUME NEW X, NEW p \in Seq(X), NEW a \in Seq(X), NEW id \in X
    PROVE  p \o Append(a, id) = Append(p \o a, id)
<1>1. <<id>> \in Seq(X)
  OBVIOUS
<1>2. p \o a \in Seq(X)
  BY ConcatProperties
<1>3. Append(a, id) = a \o <<id>>
  BY AppendIsConcat
<1>4. PICK q \in Seq(X) : q = p \o a
  BY <1>2
<1>5. Append(q, id) = q \o <<id>>
  BY AppendIsConcat
<1>6. (p \o a) \o <<id>> = p \o (a \o <<id>>)
  BY <1>1, ConcatAssociative
<1> QED BY <1>3, <1>4, <1>5, <1>6, Zenon

LEMMA SinElUltimo_ ==
    ASSUME NEW X, NEW q \in Seq(X), NEW id \in X
    PROVE  SubSeq(Append(q, id), 1, Len(q)) = q
<1>1. PICK r \in Seq(X) : r = Append(q, id)
  BY AppendProperties
<1>2. Len(r) = Len(q) + 1 /\ \A i \in 1 .. Len(q) : r[i] = q[i]
  BY <1>1, AppendProperties
<1>3. Len(q) \in 0 .. Len(r)
  BY <1>2
<1>4. PICK z \in Seq(X) : z = SubSeq(r, 1, Len(q))
  BY <1>3, Prefijo
<1>5. Len(z) = Len(q) /\ \A k \in 1 .. Len(q) : z[k] = r[k]
  BY <1>3, <1>4, Prefijo
<1>6. z = q
  BY <1>2, <1>5, SeqEqual
<1> QED BY <1>1, <1>4, <1>6

LEMMA CapasMenos ==
    ASSUME NEW X, NEW p \in Seq(X), NEW a \in Seq(X), a # <<>>
    PROVE  /\ p \o SubSeq(a, 1, Len(a) - 1) = SubSeq(p \o a, 1, Len(p \o a) - 1)
           /\ (p \o a)[Len(p \o a)] = a[Len(a)]
<1>1. Len(a) >= 1 /\ Len(a) \in Nat /\ Len(a) - 1 \in 0 .. Len(a)
  OBVIOUS
<1>2. PICK b \in Seq(X) : b = SubSeq(a, 1, Len(a) - 1)
  BY <1>1, Prefijo
<1>3. PICK x \in X : x = a[Len(a)]
  BY <1>1
<1>4. a = Append(b, x)
  <2>1. Len(b) = Len(a) - 1 /\ \A k \in 1 .. Len(a) - 1 : b[k] = a[k]
    BY <1>1, <1>2, Prefijo
  <2>2. PICK c \in Seq(X) : c = Append(b, x)
    BY AppendProperties
  <2>3. Len(c) = Len(b) + 1 /\ (\A i \in 1 .. Len(b) : c[i] = b[i]) /\ c[Len(b) + 1] = x
    BY <2>2, AppendProperties
  <2>4. \A i \in 1 .. Len(a) : a[i] = c[i]
    <3> SUFFICES ASSUME NEW i \in 1 .. Len(a) PROVE a[i] = c[i]
      OBVIOUS
    <3>1. CASE i = Len(a)
      BY <1>1, <1>3, <2>1, <2>3, <3>1
    <3>2. CASE i # Len(a)
      <4>1. i \in 1 .. Len(a) - 1 /\ i \in 1 .. Len(b)
        BY <1>1, <2>1, <3>2
      <4> QED BY <2>1, <2>3, <4>1, Zenon
    <3> QED BY <3>1, <3>2
  <2>5. Len(a) = Len(c)
    BY <1>1, <2>1, <2>3
  <2>6. a = c
    BY <2>4, <2>5, SeqEqual
  <2> QED BY <2>2, <2>6
<1>5. PICK q \in Seq(X) : q = p \o b
  BY ConcatProperties
<1>6. p \o a = Append(q, x)
  <2>1. p \o Append(b, x) = Append(p \o b, x)
    BY CapasMas
  <2> QED BY <1>4, <1>5, <2>1
<1>7. PICK r \in Seq(X) : r = Append(q, x)
  BY AppendProperties
<1>8. Len(r) = Len(q) + 1 /\ r[Len(q) + 1] = x
  BY <1>7, AppendProperties
<1>9. Len(r) - 1 = Len(q) /\ r[Len(r)] = x
  BY <1>8
<1>10. SubSeq(r, 1, Len(r) - 1) = q
  BY <1>7, <1>9, SinElUltimo_
<1> QED BY <1>2, <1>3, <1>5, <1>6, <1>7, <1>9, <1>10

LEMMA MenosUno ==
    ASSUME NEW X, NEW p \in Seq(X), NEW m \in 2 .. Len(p), NEW q, q = SubSeq(p, 1, m)
    PROVE  /\ q \in Seq(X) /\ Len(q) = m /\ \A k \in 1 .. m : q[k] = p[k]
           /\ SubSeq(q, 1, Len(q) - 1) = SubSeq(p, 1, m - 1)
<1>0. m \in 0 .. Len(p) /\ m - 1 \in 0 .. Len(p) /\ m - 1 \in 0 .. m
  OBVIOUS
<1>1. q \in Seq(X) /\ Len(q) = m /\ \A k \in 1 .. m : q[k] = p[k]
  BY <1>0, Prefijo
<1>2. PICK r \in Seq(X) : r = SubSeq(q, 1, m - 1)
  BY <1>0, <1>1, Prefijo
<1>3. Len(r) = m - 1 /\ \A k \in 1 .. m - 1 : r[k] = q[k]
  BY <1>0, <1>1, <1>2, Prefijo
<1>4. PICK z \in Seq(X) : z = SubSeq(p, 1, m - 1)
  BY <1>0, Prefijo
<1>5. Len(z) = m - 1 /\ \A k \in 1 .. m - 1 : z[k] = p[k]
  BY <1>0, <1>4, Prefijo
<1>6. \A k \in 1 .. Len(r) : r[k] = z[k]
  BY <1>1, <1>3, <1>5
<1>7. r = z
  BY <1>3, <1>5, <1>6, SeqEqual
<1> QED BY <1>1, <1>2, <1>4, <1>7

\* Leaving the application ends the levels one by one, from the one on top.
LEMMA Todas ==
    ASSUME NEW t, ModuloBien(t), PilasBien, Len(pila) > 1
    PROVE  /\ ModuloBien(TodasDesdeArriba(t))
           /\ Reparto(t, pila) => Reparto(TodasDesdeArriba(t), <<Base>>)
           /\ EnOrden(t, pila) => EnOrden(TodasDesdeArriba(t), <<Base>>)
<1> DEFINE X == Nombres \cup {Base}
<1>1. PICK p \in Seq(X) : p = pila
  BY DEF PilasBien, Nombres
<1>2. PICK N \in Nat : N = Len(p) - 1
  <2>1. Len(p) \in Nat /\ Len(p) > 1
    BY <1>1
  <2> QED BY <2>1
<1>3. /\ Len(p) = N + 1 /\ N >= 1 /\ p[1] = Base
      /\ \A k \in 2 .. N + 1 : p[k] \in Nombres
      /\ \A j, k \in 1 .. N + 1 : p[j] = p[k] => j = k
  <2>1. Len(p) \in Nat /\ Len(p) > 1
    BY <1>1
  <2>2. Len(p) = N + 1 /\ N >= 1
    BY <1>2, <2>1
  <2>3. /\ p[1] = Base /\ \A k \in 2 .. Len(p) : p[k] \in Nombres
        /\ \A j, k \in 1 .. Len(p) : p[j] = p[k] => j = k
    BY <1>1 DEF PilasBien, Nombres
  <2> QED BY <2>2, <2>3, Zenon
<1> DEFINE S == {x \in Registro : ModuloBien(x)}
           G == [n \in 1 .. N |-> [x \in S |-> dt_tran_end(x, p[Len(p) - n + 1])]]
           P(f) == f = [n \in 0 .. N |-> IF n = 0 THEN t ELSE dt_tran_end(f[n - 1], p[Len(p) - n + 1])]
<1>4. \A n \in 1 .. N : Len(p) - n + 1 \in 2 .. N + 1 /\ p[Len(p) - n + 1] \in Nombres
  <2> SUFFICES ASSUME NEW n \in 1 .. N
               PROVE  Len(p) - n + 1 \in 2 .. N + 1 /\ p[Len(p) - n + 1] \in Nombres
    OBVIOUS
  <2>1. Len(p) - n + 1 \in 2 .. N + 1
    BY <1>3
  <2> QED BY <1>3, <2>1
<1>5. \A x \in S : \A n \in 1 .. N : dt_tran_end(x, p[Len(p) - n + 1]) \in S
  <2> SUFFICES ASSUME NEW x \in S, NEW n \in 1 .. N
               PROVE  dt_tran_end(x, p[Len(p) - n + 1]) \in S
    OBVIOUS
  <2>1. ModuloBien(dt_tran_end(x, p[Len(p) - n + 1]))
    BY <1>4, BienEnd, Zenon
  <2> QED BY <2>1 DEF ModuloBien
<1>6. t \in S
  BY DEF ModuloBien
<1>7. \E f \in [0 .. N -> S] : f[0] = t /\ \A n \in 1 .. N : f[n] = G[n][f[n - 1]]
  <2>1. G \in [1 .. N -> [S -> S]]
    <3> HIDE DEF S
    <3> QED BY <1>5
  <2>2. PICK H : H = G
    OBVIOUS
  <2>3. PICK Z : Z = S
    OBVIOUS
  <2>4. H \in [1 .. N -> [Z -> Z]] /\ t \in Z
    BY <1>6, <2>1, <2>2, <2>3, Zenon
  <2>5. \E f \in [0 .. N -> Z] : f[0] = t /\ \A n \in 1 .. N : f[n] = H[n][f[n - 1]]
    <3>1. N \in Nat
      OBVIOUS
    <3> HIDE DEF P, X, S, G
    <3>2. HayBucle(Z, t, N, H)
      BY <2>4, <3>1, Bucle, Zenon
    <3> QED BY <3>2, Zenon DEF HayBucle
  <2> HIDE DEF S, G
  <2> QED BY <2>2, <2>3, <2>5, Zenon
<1>8. PICK f \in [0 .. N -> S] : f[0] = t /\ \A n \in 1 .. N : f[n] = G[n][f[n - 1]]
  BY <1>7, Zenon
<1>9. \A n \in 1 .. N : f[n] = dt_tran_end(f[n - 1], p[Len(p) - n + 1])
  <2> SUFFICES ASSUME NEW n \in 1 .. N PROVE f[n] = dt_tran_end(f[n - 1], p[Len(p) - n + 1])
    OBVIOUS
  <2> HIDE DEF S
  <2>1. f[n - 1] \in S
    OBVIOUS
  <2> QED BY <1>8, <2>1
<1>10. P(f)
  <2> HIDE DEF S
  <2> QED BY <1>8, <1>9
<1> HIDE DEF P
<1>11. P(CHOOSE x : P(x))
  BY <1>10
<1>12. PICK g : g = CHOOSE x : P(x)
  OBVIOUS
<1>13. P(g)
  BY <1>11, <1>12
<1>14. TodasDesdeArriba(t) = g[N]
  <2>1. Len(pila) - 1 = N
    BY <1>1, <1>2
  <2> QED BY <1>1, <1>12, <2>1 DEF TodasDesdeArriba, P
<1>15. g[0] = t /\ \A n \in 1 .. N : g[n] = dt_tran_end(g[n - 1], p[Len(p) - n + 1])
  BY <1>13 DEF P
<1> DEFINE A == {n \in 0 .. N : /\ ModuloBien(g[n])
                                /\ Reparto(t, p) => Reparto(g[n], SubSeq(p, 1, N + 1 - n))
                                /\ EnOrden(t, p) => EnOrden(g[n], SubSeq(p, 1, N + 1 - n))}
<1>16. 0 \in A
  <2>1. SubSeq(p, 1, N + 1 - 0) = p
    <3>1. N + 1 - 0 = Len(p)
      BY <1>3
    <3> QED BY <3>1, SubSeqFull
  <2>2. 0 \in 0 .. N /\ g[0] = t
    BY <1>15
  <2> QED BY <2>1, <2>2, Zenon
<1>17. \A n \in 1 .. N : n - 1 \in A => n \in A
  <2> SUFFICES ASSUME NEW n \in 1 .. N, n - 1 \in A PROVE n \in A
    OBVIOUS
  <2>1. PICK m \in 2 .. N + 1 : m = Len(p) - n + 1
    BY <1>4
  <2>2. PICK q : q = SubSeq(p, 1, m)
    OBVIOUS
  <2>3. m \in 2 .. Len(p) /\ m = N + 1 - (n - 1) /\ m - 1 = N + 1 - n
    BY <1>3, <2>1
  <2>4. /\ q \in Seq(X) /\ Len(q) = m /\ \A k \in 1 .. m : q[k] = p[k]
        /\ SubSeq(q, 1, Len(q) - 1) = SubSeq(p, 1, N + 1 - n)
    <3> HIDE DEF X
    <3>1. /\ q \in Seq(X) /\ Len(q) = m /\ \A k \in 1 .. m : q[k] = p[k]
          /\ SubSeq(q, 1, Len(q) - 1) = SubSeq(p, 1, m - 1)
      BY <2>2, <2>3, MenosUno
    <3> QED BY <2>3, <3>1
  <2>5. PICK x : x = g[n - 1]
    OBVIOUS
  <2>6. /\ ModuloBien(x)
        /\ Reparto(t, p) => Reparto(x, q)
        /\ EnOrden(t, p) => EnOrden(x, q)
    BY <2>2, <2>3, <2>5
  <2>7. g[n] = dt_tran_end(x, q[Len(q)]) /\ q[Len(q)] \in Nombres
    <3>1. q[Len(q)] = p[m] /\ p[m] \in Nombres
      BY <1>3, <2>4
    <3> QED BY <1>15, <2>1, <2>5, <3>1
  <2>8. Len(q) >= 2 /\ \A k \in 1 .. Len(q) - 1 : q[k] # q[Len(q)]
    <3>1. Len(q) >= 2
      BY <2>4
    <3>2. SUFFICES ASSUME NEW k \in 1 .. Len(q) - 1, q[k] = q[Len(q)] PROVE FALSE
      BY <3>1
    <3>3. k \in 1 .. m /\ m \in 1 .. m /\ k \in 1 .. N + 1 /\ m \in 1 .. N + 1 /\ k # m
      BY <2>4
    <3> QED BY <1>3, <2>4, <3>2, <3>3
  <2>9. ModuloBien(g[n])
    BY <2>6, <2>7, BienEnd, Zenon
  <2>10. Reparto(t, p) => Reparto(g[n], SubSeq(p, 1, N + 1 - n))
    BY <2>4, <2>6, <2>7, <2>8, RepartoEnd
  <2>11. EnOrden(t, p) => EnOrden(g[n], SubSeq(p, 1, N + 1 - n))
    BY <2>4, <2>6, <2>7, <2>8, OrdenEnd
  <2> QED BY <2>9, <2>10, <2>11
<1>18. N \in A
  <2> HIDE DEF A
  <2>1. \A n \in 0 .. N : n \in A
    BY <1>16, <1>17, InduccionHasta, Zenon
  <2> QED BY <2>1
<1>19. SubSeq(p, 1, N + 1 - N) = <<Base>>
  <2>1. N + 1 - N = 1
    OBVIOUS
  <2> HIDE DEF X
  <2>2. PICK z : z = SubSeq(p, 1, 1)
    OBVIOUS
  <2>5. 1 \in 0 .. Len(p)
    BY <1>3
  <2>3. z \in Seq(X) /\ Len(z) = 1 /\ z[1] = p[1]
    BY <2>2, <2>5, Prefijo
  <2>4. z = <<Base>>
    BY <1>3, <2>3
  <2> QED BY <2>1, <2>2, <2>4
<1> QED BY <1>1, <1>14, <1>18, <1>19

-----------------------------------------------------------------------------
(* Every action preserves the invariant.                                     *)

LEMMA EnLaBase ==
    ASSUME NEW t, SoloBase(t)
    PROVE  /\ ModuloBien(t) /\ t.lista = 0 /\ Reparto(t, <<Base>>)
           /\ (\A f \in Campos : t.nivel[f] \in {0, 1}) => EnOrden(t, <<Base>>)
BY RepartoBase, OrdenBase, Zenon DEF SoloBase

LEMMA SoloPila ==
    ASSUME NEW X, NEW p \in Seq(X)
    PROVE  p \o <<>> = p
BY ConcatEmptySeq

LEMMA TInicial == InitTran => TInv
<1> SUFFICES ASSUME InitTran PROVE TInv
  OBVIOUS
<1>1. PICK t : t = tran
  OBVIOUS
<1>2. SoloBase(t) /\ t.nivel = [f \in Campos |-> 0]
  BY <1>1, SoloBaseInit, SoloBaseStart DEF InitTran
<1>3. /\ ModuloBien(t) /\ t.lista = 0 /\ Reparto(t, <<Base>>) /\ EnOrden(t, <<Base>>)
  <2>1. \A f \in Campos : t.nivel[f] \in {0, 1}
    BY <1>2
  <2> QED BY <1>2, <2>1, EnLaBase, Zenon
<1>4. Capas = <<Base>> /\ Len(Capas) = 1
  BY SoloPila DEF InitTran, Capas
<1>5. PilasBien
  BY BoundsAssumption DEF InitTran, PilasBien
<1> QED BY <1>1, <1>3, <1>4, <1>5 DEF TInv

LEMMA PasoReset == TInv /\ reset_all => TInv'
<1> SUFFICES ASSUME TInv, reset_all PROVE TInv'
  OBVIOUS
<1>1. PICK t : t = tran
  OBVIOUS
<1>2. PICK u : u = dt_tran_reset(t)
  OBVIOUS
<1>3. PICK v : v = dt_tran_start(u, Base)
  OBVIOUS
<1>4. tran' = v
  BY <1>1, <1>2, <1>3, Zenon DEF reset_all
<1>5. ModuloBien(t)
  BY <1>1 DEF TInv
<1>6. /\ SoloBase(u)
      /\ u.nivel = [f \in Campos |-> IF \E i \in Ranuras \ {0} : f \in t.ranura[i].campos
                                     THEN 0 ELSE t.nivel[f]]
  BY <1>2, <1>5, SoloBaseReset, Zenon
<1>7. SoloBase(v) /\ v.nivel = u.nivel
  BY <1>3, <1>6, SoloBaseStart, Zenon
<1>8. ModuloBien(v) /\ v.lista = 0 /\ Reparto(v, <<Base>>)
      /\ ((\A f \in Campos : v.nivel[f] \in {0, 1}) => EnOrden(v, <<Base>>))
  BY <1>7, EnLaBase, Zenon
<1>9. Capas' = <<Base>> /\ Len(Capas') = 1
  BY SoloPila DEF reset_all, Capas
<1>10. PilasBien'
  BY BoundsAssumption DEF reset_all, PilasBien, TInv
<1>11. casos' = {} => \A f \in Campos : v.nivel[f] \in {0, 1}
  <2> SUFFICES ASSUME casos' = {}, NEW f \in Campos PROVE v.nivel[f] \in {0, 1}
    OBVIOUS
  <2>1. casos = {}
    BY DEF reset_all
  <2>2. EnOrden(t, Capas) /\ Len(Capas) \in Nat
    BY <1>1, <2>1, CapasTipo DEF TInv
  <2>3. t.nivel[f] \in Nat /\ t.nivel[f] <= Len(Capas)
    BY <1>5, <2>2, BoundsAssumption DEF ModuloBien, Registro, EnOrden
  <2>4. CASE t.nivel[f] \in 2 .. Len(Capas)
    <3>1. PICK k \in 2 .. Len(Capas) : k = t.nivel[f]
      BY <2>4
    <3>2. f \in t.ranura[k - 1].campos
      BY <2>2, <3>1 DEF EnOrden
    <3>3. k - 1 \in Ranuras \ {0}
      BY <2>2, <3>1, SSIZEAssumption DEF EnOrden, Ranuras
    <3>4. v.nivel[f] = 0
      BY <1>6, <1>7, <3>2, <3>3
    <3> QED BY <3>4
  <2>5. CASE t.nivel[f] \in {0, 1}
    BY <1>6, <1>7, <2>5
  <2> QED BY <2>2, <2>3, <2>4, <2>5
<1> QED BY <1>4, <1>8, <1>9, <1>10, <1>11 DEF TInv

LEMMA PasoLoad == ASSUME NEW id \in Trans PROVE TInv /\ driver_load(id) => TInv'
<1> SUFFICES ASSUME TInv, driver_load(id) PROVE TInv'
  OBVIOUS
<1>1. PICK p : p = pila
  OBVIOUS
<1>2. PICK t : t = tran
  OBVIOUS
<1>3. PICK u : u = Encima(t, p[Len(p)])
  OBVIOUS
<1>4. tran' = dt_tran_start(u, id)
  BY <1>1, <1>2, <1>3, Zenon DEF driver_load, save_stack, Encima, Last
<1>5. PilasBien /\ ModuloBien(t) /\ id \in Nombres /\ anidadas = <<>> /\ anidadas' = <<>>
      /\ pila' = Append(p, id) /\ casos' = SinRanura
  BY <1>1, <1>2 DEF TInv, driver_load, Nombres
<1>6. /\ p \in Seq(Nombres \cup {Base}) /\ Len(p) >= 1 /\ Len(p) \in Nat
      /\ p[Len(p)] \in Nombres \cup {Base} /\ p[Len(p)] # NADA
  <2>1. p \in Seq(Nombres \cup {Base}) /\ Len(p) >= 1
    BY <1>1, <1>5 DEF PilasBien, Nombres
  <2> QED BY <2>1, NombresAssumption DEF Nombres
<1>7. ModuloBien(u) /\ u.ranura = t.ranura /\ u.listado = t.listado /\ u.nivel = t.nivel
  BY <1>3, <1>5, <1>6, BienEncima, Zenon
<1>8. Con(u, NADA) = Con(t, NADA)
  BY <1>7 DEF Con
<1>9. PICK q : q = Append(p, id)
  OBVIOUS
<1>10. Capas = p /\ Capas' = q /\ Len(q) = Len(p) + 1
  <2>1. Capas = p
    BY <1>1, <1>5, CapasTipo, Zenon
  <2>2. q \in Seq(Nombres \cup {Base}) /\ Len(q) = Len(p) + 1
    BY <1>5, <1>6, <1>9
  <2>3. q \o <<>> = q
    BY <2>2, SoloPila, Zenon
  <2>4. Capas' = q \o <<>>
    BY <1>5, <1>9, Zenon DEF Capas
  <2> QED BY <2>1, <2>2, <2>3, <2>4, Zenon
<1>11. PilasBien'
  <2>1. p \in Seq(Trans \cup {Base}) /\ Len(p) < MaxNivel /\ Len(p) \in Nat /\ Len(p) >= 1
        /\ id \notin Range(p)
    BY <1>1, <1>5 DEF PilasBien, driver_load
  <2>2. q \in Seq(Trans \cup {Base}) /\ Len(q) = Len(p) + 1 /\ q[Len(p) + 1] = id
        /\ \A k \in 1 .. Len(p) : q[k] = p[k]
    BY <1>9, <2>1
  <2>3. \A k \in 1 .. Len(p) : p[k] # id
    BY <2>1 DEF Range
  <2>4. /\ p[1] = Base /\ \A k \in 2 .. Len(p) : p[k] \in Trans
        /\ \A j, k \in 1 .. Len(p) : p[j] = p[k] => j = k
    BY <1>1, <1>5 DEF PilasBien
  <2>5. q[1] = Base
    BY <2>1, <2>2, <2>4
  <2>6. \A k \in 2 .. Len(q) : q[k] \in Trans
    BY <2>1, <2>2, <2>4
  <2>7. \A j, k \in 1 .. Len(q) : q[j] = q[k] => j = k
    <3> SUFFICES ASSUME NEW j \in 1 .. Len(q), NEW k \in 1 .. Len(q), q[j] = q[k] PROVE j = k
      OBVIOUS
    <3>1. CASE j \in 1 .. Len(p) /\ k \in 1 .. Len(p)
      BY <2>2, <2>4, <3>1
    <3>2. CASE j = Len(p) + 1 /\ k \in 1 .. Len(p)
      BY <2>2, <2>3, <3>2
    <3>3. CASE k = Len(p) + 1 /\ j \in 1 .. Len(p)
      BY <2>2, <2>3, <3>3
    <3> QED BY <2>1, <2>2, <3>1, <3>2, <3>3
  <2>8. casos' \subseteq {"cierre", "abandono", "lleno", "antes"}
    BY <1>5 DEF PilasBien, SinRanura
  <2>9. Len(q) \in 1 .. MaxNivel
    BY <2>1, <2>2, BoundsAssumption
  <2>10. pila' = q /\ anidadas' = <<>> /\ <<>> \in Seq(Nombres) /\ Len(<<>>) = 0
    BY <1>5, <1>9
  <2> QED BY <2>2, <2>5, <2>6, <2>7, <2>8, <2>9, <2>10, BoundsAssumption DEF PilasBien
<1>12. ModuloBien(tran')
  BY <1>4, <1>5, <1>7, BienStart, Zenon
<1>13. CASE Con(t, NADA) = {}
  <2>1. casos' = casos \cup {"lleno"}
    BY <1>2, <1>5, <1>13 DEF SinRanura
  <2>2. ~(casos' \subseteq {"cierre", "antes"}) /\ casos' # {}
    BY <2>1
  <2> QED BY <1>11, <1>12, <2>2 DEF TInv
<1>14. CASE Con(t, NADA) # {}
  <2>1. casos' = casos
    BY <1>2, <1>5, <1>14 DEF SinRanura
  <2>2. casos \subseteq {"cierre", "antes"} => Reparto(tran', Capas')
    <3> SUFFICES ASSUME casos \subseteq {"cierre", "antes"} PROVE Reparto(tran', Capas')
      OBVIOUS
    <3>1. Reparto(t, p)
      BY <1>2, <1>10 DEF TInv
    <3>2. Reparto(u, p)
      BY <1>7, <3>1, RepartoIgual, Zenon
    <3>3. Reparto(dt_tran_start(u, id), Append(p, id))
      BY <1>5, <1>6, <1>7, <1>8, <1>14, <3>2, RepartoStart, Zenon
    <3> QED BY <1>4, <1>9, <1>10, <3>3, Zenon
  <2>3. casos = {} => EnOrden(tran', Capas') /\ tran'.lista = Len(Capas') - 1
    <3> SUFFICES ASSUME casos = {} PROVE EnOrden(tran', Capas') /\ tran'.lista = Len(Capas') - 1
      OBVIOUS
    <3>1. EnOrden(t, p)
      BY <1>2, <1>10 DEF TInv
    <3>2. EnOrden(u, p)
      BY <1>7, <3>1, OrdenIgual, Zenon
    <3>3. EnOrden(dt_tran_start(u, id), Append(p, id)) /\ dt_tran_start(u, id).lista = Len(p)
      BY <1>5, <1>6, <1>7, <1>8, <1>14, <3>2, OrdenStart, Zenon
    <3>4. Len(q) - 1 = Len(p)
      BY <1>6, <1>10
    <3> QED BY <1>4, <1>9, <1>10, <3>3, <3>4, Zenon
  <2> QED BY <1>11, <1>12, <2>1, <2>2, <2>3 DEF TInv
<1> QED BY <1>13, <1>14

\* What is on top of the stack has gone: the rest, and the level that runs now.
MenosDe(p, q) ==
    /\ p \in Seq(Nombres \cup {Base}) /\ Len(p) >= 2 /\ p[Len(p)] \in Nombres
    /\ \A k \in 1 .. Len(p) - 1 : p[k] # p[Len(p)]
    /\ q \in Seq(Trans \cup {Base}) /\ q \in Seq(Nombres \cup {Base})
    /\ Len(q) = Len(p) - 1 /\ Len(q) \in 1 .. MaxNivel /\ q[1] = Base
    /\ \A k \in 2 .. Len(q) : q[k] \in Trans
    /\ \A j, k \in 1 .. Len(q) : q[j] = q[k] => j = k
    /\ q[Len(q)] # NADA

LEMMA PilaMenos ==
    ASSUME PilasBien, Len(pila) > 1, NEW p, p = pila, NEW q, q = SubSeq(p, 1, Len(p) - 1)
    PROVE  MenosDe(p, q)
<1>1. /\ p \in Seq(Trans \cup {Base}) /\ Len(p) \in 1 .. MaxNivel /\ p[1] = Base
      /\ \A k \in 2 .. Len(p) : p[k] \in Trans
      /\ \A j, k \in 1 .. Len(p) : p[j] = p[k] => j = k
      /\ Len(p) > 1
  BY DEF PilasBien
<1>2. Len(p) >= 2 /\ Len(p) \in Nat /\ Len(p) - 1 \in 0 .. Len(p) /\ Len(p) \in 2 .. Len(p)
  BY <1>1
<1>3. q \in Seq(Trans \cup {Base}) /\ Len(q) = Len(p) - 1 /\ \A k \in 1 .. Len(p) - 1 : q[k] = p[k]
  BY <1>1, <1>2, Prefijo
<1>4. p \in Seq(Nombres \cup {Base}) /\ q \in Seq(Nombres \cup {Base})
  BY <1>1, <1>3 DEF Nombres
<1>5. p[Len(p)] \in Nombres /\ \A k \in 1 .. Len(p) - 1 : p[k] # p[Len(p)]
  <2>1. p[Len(p)] \in Nombres
    BY <1>1, <1>2 DEF Nombres
  <2>2. SUFFICES ASSUME NEW k \in 1 .. Len(p) - 1, p[k] = p[Len(p)] PROVE FALSE
    BY <2>1
  <2>3. k \in 1 .. Len(p) /\ Len(p) \in 1 .. Len(p) /\ k # Len(p)
    BY <1>2
  <2> QED BY <1>1, <2>2, <2>3
<1>6. q[1] = Base /\ (\A k \in 2 .. Len(q) : q[k] \in Trans) /\ Len(q) \in 1 .. MaxNivel
  <2>1. Len(q) \in 1 .. MaxNivel /\ 1 \in 1 .. Len(p) - 1
    BY <1>1, <1>2, <1>3, BoundsAssumption
  <2>2. \A k \in 2 .. Len(q) : k \in 1 .. Len(p) - 1 /\ k \in 2 .. Len(p)
    BY <1>2, <1>3
  <2> QED BY <1>1, <1>3, <2>1, <2>2
<1>7. \A j, k \in 1 .. Len(q) : q[j] = q[k] => j = k
  <2>1. \A k \in 1 .. Len(q) : k \in 1 .. Len(p) /\ q[k] = p[k]
    BY <1>2, <1>3
  <2> QED BY <1>1, <2>1
<1>8. q[Len(q)] # NADA
  <2>1. q[Len(q)] \in Trans \cup {Base}
    BY <1>3, <1>6
  <2> QED BY <2>1, NombresAssumption
<1> QED BY <1>2, <1>3, <1>4, <1>5, <1>6, <1>7, <1>8 DEF MenosDe

\* Going back to the level on top of the stack leaves what the invariant says.
LEMMA Repone ==
    ASSUME NEW t, ModuloBien(t), NEW q, q \in Seq(Nombres \cup {Base}), Len(q) >= 1,
           q[Len(q)] # NADA, \A j, k \in 1 .. Len(q) : q[j] = q[k] => j = k
    PROVE  /\ ModuloBien(Encima(t, q[Len(q)]))
           /\ Reparto(t, q) => Reparto(Encima(t, q[Len(q)]), q)
           /\ EnOrden(t, q) => EnOrden(Encima(t, q[Len(q)]), q)
                               /\ Encima(t, q[Len(q)]).lista = Len(q) - 1
<1>1. PICK u : u = Encima(t, q[Len(q)])
  OBVIOUS
<1>2. ModuloBien(u) /\ u.ranura = t.ranura
  BY <1>1, BienEncima, Zenon
<1>3. Reparto(t, q) => Reparto(u, q)
  BY <1>2, RepartoIgual, Zenon
<1>4. EnOrden(t, q) => EnOrden(u, q) /\ u.lista = Len(q) - 1
  BY <1>1, OrdenEncima, Zenon
<1> QED BY <1>1, <1>2, <1>3, <1>4, Zenon

LEMMA PasoEndTran == TInv /\ end_tran => TInv'
<1> SUFFICES ASSUME TInv, end_tran PROVE TInv'
  OBVIOUS
<1>1. PICK p : p = pila
  OBVIOUS
<1>2. PICK t : t = tran
  OBVIOUS
<1>3. PICK q : q = SubSeq(p, 1, Len(p) - 1)
  OBVIOUS
<1>4. PICK u : u = dt_tran_end(t, p[Len(p)])
  OBVIOUS
<1>5. PilasBien /\ ModuloBien(t) /\ anidadas = <<>> /\ anidadas' = <<>> /\ casos' = casos
      /\ Len(pila) > 1
  BY <1>2 DEF TInv, end_tran
<1>6. pila' = q /\ tran' = Encima(u, q[Len(q)])
  BY <1>1, <1>2, <1>3, <1>4, Zenon DEF end_tran, reset_stack, Encima, Last, Front
<1>7. /\ p \in Seq(Nombres \cup {Base}) /\ Len(p) >= 2 /\ p[Len(p)] \in Nombres
      /\ \A k \in 1 .. Len(p) - 1 : p[k] # p[Len(p)]
      /\ q \in Seq(Trans \cup {Base}) /\ q \in Seq(Nombres \cup {Base})
      /\ Len(q) = Len(p) - 1 /\ Len(q) \in 1 .. MaxNivel /\ q[1] = Base
      /\ \A k \in 2 .. Len(q) : q[k] \in Trans
      /\ \A j, k \in 1 .. Len(q) : q[j] = q[k] => j = k
      /\ q[Len(q)] # NADA
  <2>1. MenosDe(p, q)
    BY <1>1, <1>3, <1>5, PilaMenos, Zenon
  <2> QED BY <2>1 DEF MenosDe
<1>8. ModuloBien(u)
  BY <1>4, <1>5, <1>7, BienEnd, Zenon
<1>9. Len(q) >= 1
  BY <1>7
<1>10. Capas = p /\ Capas' = q
  <2>1. Capas = p
    BY <1>1, <1>5, CapasTipo, Zenon
  <2>2. q \o <<>> = q
    BY <1>7, SoloPila, Zenon
  <2> QED BY <1>5, <1>6, <2>1, <2>2, Zenon DEF Capas
<1>11. PilasBien'
  <2>1. <<>> \in Seq(Nombres) /\ Len(<<>>) = 0
    OBVIOUS
  <2> QED BY <1>5, <1>6, <1>7, <2>1, BoundsAssumption DEF PilasBien
<1>12. /\ ModuloBien(tran')
       /\ Reparto(u, q) => Reparto(tran', q)
       /\ EnOrden(u, q) => EnOrden(tran', q) /\ tran'.lista = Len(q) - 1
  BY <1>6, <1>7, <1>8, <1>9, Repone, Zenon
<1>13. Reparto(t, p) => Reparto(u, q)
  BY <1>3, <1>4, <1>5, <1>7, RepartoEnd, Zenon
<1>14. EnOrden(t, p) => EnOrden(u, q)
  BY <1>3, <1>4, <1>5, <1>7, OrdenEnd, Zenon
<1>15. casos \subseteq {"cierre", "antes"} => Reparto(t, p)
  BY <1>2, <1>10, Zenon DEF TInv
<1>16. casos = {} => EnOrden(t, p)
  BY <1>2, <1>10, Zenon DEF TInv
<1> QED BY <1>5, <1>10, <1>11, <1>12, <1>13, <1>14, <1>15, <1>16, Zenon DEF TInv

LEMMA PasoExit == TInv /\ end_tran_exit_app => TInv'
<1> SUFFICES ASSUME TInv, end_tran_exit_app PROVE TInv'
  OBVIOUS
<1>1. PICK t : t = tran
  OBVIOUS
<1>2. PICK u : u = TodasDesdeArriba(t)
  OBVIOUS
<1>3. PICK q : q = <<Base>>
  OBVIOUS
<1>4. PilasBien /\ ModuloBien(t) /\ anidadas = <<>> /\ anidadas' = <<>> /\ casos' = casos
      /\ Len(pila) > 1 /\ pila' = q
  BY <1>1, <1>3 DEF TInv, end_tran_exit_app
<1>5. /\ q \in Seq(Nombres \cup {Base}) /\ Len(q) = 1 /\ Len(q) >= 1 /\ q[1] = Base /\ q[Len(q)] # NADA
      /\ \A j, k \in 1 .. Len(q) : q[j] = q[k] => j = k
  BY <1>3, NombresAssumption
<1>6. tran' = Encima(u, q[Len(q)])
  BY <1>1, <1>2, <1>4, Zenon DEF end_tran_exit_app, reset_stack, Encima, Last
<1>7. /\ ModuloBien(u)
      /\ Reparto(t, pila) => Reparto(u, q)
      /\ EnOrden(t, pila) => EnOrden(u, q)
  BY <1>2, <1>3, <1>4, Todas, Zenon
<1>8. /\ ModuloBien(tran')
      /\ Reparto(u, q) => Reparto(tran', q)
      /\ EnOrden(u, q) => EnOrden(tran', q) /\ tran'.lista = Len(q) - 1
  BY <1>5, <1>6, <1>7, Repone, Zenon
<1>9. Capas = pila /\ Capas' = q
  <2>1. Capas = pila
    BY <1>4, CapasTipo, Zenon
  <2>2. q \o <<>> = q
    BY <1>5, SoloPila, Zenon
  <2> QED BY <1>4, <2>1, <2>2, Zenon DEF Capas
<1>10. PilasBien'
  BY <1>3, <1>4, BoundsAssumption DEF PilasBien
<1>11. casos \subseteq {"cierre", "antes"} => Reparto(t, pila)
  BY <1>1, <1>9, Zenon DEF TInv
<1>12. casos = {} => EnOrden(t, pila)
  BY <1>1, <1>9, Zenon DEF TInv
<1> QED BY <1>4, <1>7, <1>8, <1>9, <1>10, <1>11, <1>12, Zenon DEF TInv

LEMMA PasoUsa == ASSUME NEW f \in Campos PROVE TInv /\ Usa(f) => TInv'
<1> SUFFICES ASSUME TInv, Usa(f) PROVE TInv'
  OBVIOUS
<1>1. PICK t : t = tran
  OBVIOUS
<1>2. PICK u : u = add_field_rec(t, f)
  OBVIOUS
<1>3. PICK n \in Nat : n = Len(Capas)
  BY CapasTipo DEF TInv
<1>4. PilasBien /\ ModuloBien(t) /\ tran' = u /\ pila' = pila /\ anidadas' = anidadas /\ casos' = casos
  BY <1>1, <1>2 DEF TInv, Usa
<1>5. Nivel = n /\ n \in 1 .. MaxNivel + MaxAnidadas
  BY <1>3, <1>4, CapasTipo
<1>6. /\ ModuloBien(u)
      /\ u.lista = t.lista
      /\ u.nivel = [t.nivel EXCEPT ![f] = IF t.nivel[f] = 0 THEN n ELSE t.nivel[f]]
      /\ u.listado = t.listado \cup {f}
      /\ \A i \in Ranuras : u.ranura[i].id = t.ranura[i].id
      /\ f \in t.listado => u.ranura = t.ranura
      /\ f \notin t.listado =>
           /\ u.ranura[t.lista].campos = t.ranura[t.lista].campos \cup {f}
           /\ \A i \in Ranuras : i # t.lista => u.ranura[i] = t.ranura[i]
  <2>1. n = Nivel
    BY <1>5
  <2>2. UsadoDe(t, f, n, u)
    BY <1>2, <1>4, <1>5, <2>1, Usado, Zenon
  <2> QED BY <2>2 DEF UsadoDe
<1>7. Capas' = Capas /\ PilasBien'
  BY <1>4 DEF Capas, PilasBien
<1>8. casos \subseteq {"cierre", "antes"} => Reparto(u, Capas)
  BY <1>1, <1>6, RepartoIgual DEF TInv
<1>9. casos = {} => EnOrden(u, Capas) /\ u.lista = Len(Capas) - 1
  <2> SUFFICES ASSUME casos = {} PROVE EnOrden(u, Capas) /\ u.lista = Len(Capas) - 1
    OBVIOUS
  <2>1. /\ n <= SSIZE /\ t.lista = n - 1
        /\ \A k \in 1 .. n : t.ranura[k - 1].id = Capas[k]
        /\ \A i \in Ranuras : i >= n => t.ranura[i].id = NADA
        /\ \A g \in Campos : t.nivel[g] <= n
        /\ \A g \in t.listado : t.nivel[g] >= 1
        /\ \A g \in Campos : \A k \in 2 .. n : t.nivel[g] = k => g \in t.ranura[k - 1].campos
    BY <1>1, <1>3 DEF TInv, EnOrden
  <2>2. \A k \in 1 .. n : k - 1 \in Ranuras
    BY <2>1, SSIZEAssumption DEF Ranuras
  <2>3. \A k \in 1 .. n : u.ranura[k - 1].id = Capas[k]
    BY <1>6, <2>1, <2>2
  <2>4. \A i \in Ranuras : i >= n => u.ranura[i].id = NADA
    BY <1>6, <2>1
  <2>5. /\ t.nivel \in [Campos -> 0 .. MaxNivel + MaxAnidadas] /\ t.listado \subseteq Campos
        /\ t.lista \in Ranuras
    BY <1>4 DEF ModuloBien, Registro
  <2>6. /\ u.nivel[f] = (IF t.nivel[f] = 0 THEN n ELSE t.nivel[f])
        /\ \A g \in Campos : g # f => u.nivel[g] = t.nivel[g]
    BY <1>6, <2>5
  <2>7. \A g \in Campos : u.nivel[g] <= n
    BY <1>3, <2>1, <2>6
  <2>8. \A g \in u.listado : u.nivel[g] >= 1
    <3> SUFFICES ASSUME NEW g \in u.listado PROVE u.nivel[g] >= 1
      OBVIOUS
    <3>1. CASE g = f
      <4>1. t.nivel[f] \in Nat
        BY <2>5, BoundsAssumption
      <4> QED BY <1>5, <2>6, <3>1, <4>1
    <3>2. CASE g # f
      <4>1. g \in t.listado /\ g \in Campos
        BY <1>6, <2>5, <3>2
      <4> QED BY <2>1, <2>6, <3>2, <4>1
    <3> QED BY <3>1, <3>2
  <2>9. \A i \in Ranuras : t.ranura[i].campos \subseteq u.ranura[i].campos
    BY <1>6, <2>5
  <2>10. \A g \in Campos : \A k \in 2 .. n : u.nivel[g] = k => g \in u.ranura[k - 1].campos
    <3> SUFFICES ASSUME NEW g \in Campos, NEW k \in 2 .. n, u.nivel[g] = k
                 PROVE  g \in u.ranura[k - 1].campos
      OBVIOUS
    <3>1. k - 1 \in Ranuras
      BY <2>2
    <3>2. CASE t.nivel[g] = k
      BY <2>1, <2>9, <3>1, <3>2
    <3>3. CASE t.nivel[g] # k
      <4>1. g = f /\ t.nivel[f] = 0 /\ k = n
        BY <2>6, <3>3
      <4>2. f \notin t.listado
        BY <2>1, <4>1
      <4>3. f \in u.ranura[t.lista].campos
        BY <1>6, <4>2
      <4> QED BY <2>1, <4>1, <4>3
    <3> QED BY <3>2, <3>3
  <2>11. EnOrden(u, Capas)
    BY <1>3, <2>1, <2>3, <2>4, <2>7, <2>8, <2>10 DEF EnOrden
  <2> QED BY <1>3, <1>6, <2>1, <2>11
<1> QED BY <1>4, <1>6, <1>7, <1>8, <1>9 DEF TInv

LEMMA PasoAbreNivel == ASSUME NEW id PROVE TInv /\ Abre(id) => TInv'
<1> SUFFICES ASSUME TInv, Abre(id) PROVE TInv'
  OBVIOUS
<1>1. PICK t : t = tran
  OBVIOUS
<1>2. PICK q : q = Capas
  OBVIOUS
<1>3. PilasBien /\ ModuloBien(t) /\ id \in Nombres /\ tran' = dt_tran_start(t, id)
      /\ anidadas' = Append(anidadas, id) /\ pila' = pila /\ casos' = SinRanura
      /\ Len(pila) > 1 /\ Len(anidadas) < MaxAnidadas
  BY <1>1 DEF TInv, Abre, Nombres
<1>4. q \in Seq(Nombres \cup {Base}) /\ Len(q) >= 1 /\ Len(q) \in Nat
  BY <1>2, <1>3, CapasTipo
<1>5. Capas' = Append(q, id) /\ Len(Append(q, id)) - 1 = Len(q)
  <2>1. PICK p \in Seq(Nombres \cup {Base}) : p = pila
    BY <1>3 DEF PilasBien, Nombres
  <2>2. PICK a \in Seq(Nombres \cup {Base}) : a = anidadas
    BY <1>3 DEF PilasBien
  <2>3. id \in Nombres \cup {Base}
    BY <1>3
  <2>4. p \o Append(a, id) = Append(p \o a, id)
    BY <2>3, CapasMas
  <2>5. Len(Append(q, id)) - 1 = Len(q)
    BY <1>4
  <2> QED BY <1>2, <1>3, <2>1, <2>2, <2>4, <2>5 DEF Capas
<1>6. PilasBien'
  <2>1. anidadas' \in Seq(Nombres) /\ Len(anidadas') <= MaxAnidadas
    BY <1>3, BoundsAssumption DEF PilasBien
  <2>2. casos' \subseteq {"cierre", "abandono", "lleno", "antes"}
    BY <1>3 DEF PilasBien, SinRanura
  <2> QED BY <1>3, <2>1, <2>2 DEF PilasBien
<1>7. ModuloBien(tran')
  BY <1>3, BienStart, Zenon
<1>8. CASE Con(t, NADA) = {}
  <2>1. casos' = casos \cup {"lleno"}
    BY <1>1, <1>3, <1>8 DEF SinRanura
  <2>2. ~(casos' \subseteq {"cierre", "antes"}) /\ casos' # {}
    BY <2>1
  <2> QED BY <1>6, <1>7, <2>2 DEF TInv
<1>9. CASE Con(t, NADA) # {}
  <2>1. casos' = casos
    BY <1>1, <1>3, <1>9 DEF SinRanura
  <2>2. casos \subseteq {"cierre", "antes"} => Reparto(tran', Capas')
    <3>1. casos \subseteq {"cierre", "antes"} => Reparto(t, q)
      BY <1>1, <1>2, Zenon DEF TInv
    <3>2. Reparto(t, q) => Reparto(dt_tran_start(t, id), Append(q, id))
      BY <1>3, <1>4, <1>9, RepartoStart, Zenon
    <3> QED BY <1>3, <1>5, <3>1, <3>2, Zenon
  <2>3. casos = {} => EnOrden(tran', Capas') /\ tran'.lista = Len(Capas') - 1
    <3>1. casos = {} => EnOrden(t, q)
      BY <1>1, <1>2, Zenon DEF TInv
    <3>2. EnOrden(t, q) => /\ EnOrden(dt_tran_start(t, id), Append(q, id))
                           /\ dt_tran_start(t, id).lista = Len(q)
      BY <1>3, <1>4, <1>9, OrdenStart, Zenon
    <3> QED BY <1>3, <1>5, <3>1, <3>2, Zenon
  <2> QED BY <1>6, <1>7, <2>1, <2>2, <2>3 DEF TInv
<1> QED BY <1>8, <1>9

LEMMA PasoCierra == TInv /\ Cierra => TInv'
<1> SUFFICES ASSUME TInv, Cierra PROVE TInv'
  OBVIOUS
<1>1. PICK t : t = tran
  OBVIOUS
<1>2. PICK q : q = Capas
  OBVIOUS
<1>3. PICK p \in Seq(Nombres \cup {Base}) : p = pila
  BY DEF PilasBien, Nombres, TInv
<1>4. PICK a \in Seq(Nombres) : a = anidadas
  BY DEF PilasBien, TInv
<1>5. PilasBien /\ ModuloBien(t) /\ a # <<>> /\ Len(a) >= 1 /\ tran' = dt_tran_end(t, a[Len(a)])
      /\ anidadas' = SubSeq(a, 1, Len(a) - 1) /\ pila' = pila /\ casos' = casos \cup {"cierre"}
      /\ Len(a) <= MaxAnidadas
  BY <1>1, <1>4 DEF TInv, Cierra, Last, Front, PilasBien
<1>6. a \in Seq(Nombres \cup {Base}) /\ a[Len(a)] \in Nombres
  BY <1>5
<1>7. q = p \o a /\ q \in Seq(Nombres \cup {Base})
  BY <1>2, <1>3, <1>4, <1>5, CapasTipo, Zenon DEF Capas
<1>8. /\ p \o SubSeq(a, 1, Len(a) - 1) = SubSeq(q, 1, Len(q) - 1)
      /\ q[Len(q)] = a[Len(a)]
  BY <1>5, <1>6, <1>7, CapasMenos, Zenon
<1>9. Capas' = SubSeq(q, 1, Len(q) - 1)
  BY <1>3, <1>5, <1>8, Zenon DEF Capas
<1>10. Len(a) - 1 \in 0 .. Len(a)
  BY <1>5
<1>11. PilasBien'
  <2>1. SubSeq(a, 1, Len(a) - 1) \in Seq(Nombres) /\ Len(SubSeq(a, 1, Len(a) - 1)) = Len(a) - 1
    BY <1>10, Prefijo, Zenon
  <2>2. Len(pila) > 1
    BY <1>4, <1>5 DEF PilasBien
  <2>3. Len(a) - 1 <= MaxAnidadas
    BY <1>5, BoundsAssumption
  <2>4. casos' \subseteq {"cierre", "abandono", "lleno", "antes"}
    BY <1>5 DEF PilasBien
  <2> QED BY <1>5, <2>1, <2>2, <2>3, <2>4 DEF PilasBien
<1>12. ModuloBien(tran')
  BY <1>5, <1>6, BienEnd, Zenon
<1>13. Len(q) >= 2
  <2>1. Len(q) = Len(p) + Len(a) /\ Len(p) \in Nat
    BY <1>6, <1>7, ConcatProperties
  <2>2. Len(p) > 1
    BY <1>3, <1>4, <1>5 DEF PilasBien
  <2> QED BY <1>5, <2>1, <2>2
<1>14. casos' \subseteq {"cierre", "antes"} => Reparto(tran', Capas')
  <2> SUFFICES ASSUME casos' \subseteq {"cierre", "antes"} PROVE Reparto(tran', Capas')
    OBVIOUS
  <2>1. casos \subseteq {"cierre", "antes"}
    BY <1>5
  <2>2. Reparto(t, q)
    BY <1>1, <1>2, <2>1 DEF TInv
  <2>3. Reparto(dt_tran_end(t, q[Len(q)]), SubSeq(q, 1, Len(q) - 1))
    BY <1>5, <1>6, <1>7, <1>8, <1>13, <2>2, RepartoEnd, Zenon
  <2> QED BY <1>5, <1>8, <1>9, <2>3, Zenon
<1>15. casos' # {}
  BY <1>5
<1> QED BY <1>11, <1>12, <1>14, <1>15 DEF TInv

LEMMA PasoAbandona == TInv /\ Abandona => TInv'
<1> SUFFICES ASSUME TInv, Abandona PROVE TInv'
  OBVIOUS
<1>1. PICK t : t = tran
  OBVIOUS
<1>2. PICK p : p = pila
  OBVIOUS
<1>3. PilasBien /\ ModuloBien(t) /\ tran' = Encima(t, p[Len(p)])
      /\ anidadas' = <<>> /\ pila' = pila /\ casos' = casos \cup {"abandono"}
  BY <1>1, <1>2 DEF TInv, Abandona, reset_stack, Encima, Last
<1>4. p[Len(p)] # NADA
  BY <1>2, <1>3, NombresAssumption DEF PilasBien
<1>5. ModuloBien(tran')
  BY <1>3, <1>4, BienEncima, Zenon
<1>6. PilasBien'
  BY <1>3, BoundsAssumption DEF PilasBien
<1>7. ~(casos' \subseteq {"cierre", "antes"}) /\ casos' # {}
  BY <1>3
<1> QED BY <1>5, <1>6, <1>7 DEF TInv

LEMMA TInvQuieto == TInv /\ UNCHANGED varsTran => TInv'
<1> SUFFICES ASSUME TInv, UNCHANGED varsTran PROVE TInv'
  OBVIOUS
<1>1. tran' = tran /\ pila' = pila /\ anidadas' = anidadas /\ casos' = casos
  BY DEF varsTran
<1>2. Capas' = Capas /\ (PilasBien' <=> PilasBien)
  BY <1>1 DEF Capas, PilasBien
<1> QED BY <1>1, <1>2 DEF TInv

LEMMA TInductivo == TInv /\ [NextTran]_varsTran => TInv'
<1> SUFFICES ASSUME TInv, [NextTran]_varsTran PROVE TInv'
  OBVIOUS
<1>1. CASE Driver
  BY <1>1, PasoLoad, PasoEndTran, PasoExit, PasoReset DEF Driver
<1>2. CASE \E f \in Campos : Usa(f)
  BY <1>2, PasoUsa
<1>3. CASE Rutina
  BY <1>3, PasoAbreNivel, PasoCierra, PasoAbandona DEF Rutina
<1>4. CASE UNCHANGED varsTran
  BY <1>4, TInvQuieto
<1> QED BY <1>1, <1>2, <1>3, <1>4 DEF NextTran

-----------------------------------------------------------------------------
(* What the runs check, from the invariant.                                  *)

LEMMA RangoDe ==
    ASSUME NEW X, NEW p \in Seq(X), NEW x
    PROVE  x \in Range(p) <=> \E k \in 1 .. Len(p) : p[k] = x
BY DEF Range

\* One slot for each level above the desktop, with the names of those levels.
JustasDe(t, q, n, usadas) ==
    /\ Cardinality(usadas) = n - 1
    /\ \A x : x \in {t.ranura[i].id : i \in usadas} <=> \E k \in 2 .. n : q[k] = x

LEMMA Justas ==
    ASSUME NEW t, NEW q, NEW n \in Nat, Len(q) = n, n >= 1, Reparto(t, q),
           \A k \in 1 .. n : q[k] # NADA,
           NEW usadas, usadas = {i \in Ranuras \ {0} : t.ranura[i].id # NADA}
    PROVE  JustasDe(t, q, n, usadas)
<1>1. PICK s \in [1 .. n -> Ranuras] :
        /\ s[1] = 0
        /\ \A j, k \in 1 .. n : s[j] = s[k] => j = k
        /\ \A k \in 1 .. n : t.ranura[s[k]].id = q[k]
        /\ \A i \in Ranuras : t.ranura[i].id # NADA => \E k \in 1 .. n : s[k] = i
  <2>1. \E s \in [1 .. n -> Ranuras] : Reparte(t, q, n, s)
    BY Zenon DEF Reparto
  <2> QED BY <2>1, Zenon DEF Reparte
<1>2. \A k \in 2 .. n : k \in 1 .. n /\ s[k] \in usadas
  <2> SUFFICES ASSUME NEW k \in 2 .. n PROVE k \in 1 .. n /\ s[k] \in usadas
    OBVIOUS
  <2>1. k \in 1 .. n /\ 1 \in 1 .. n /\ k # 1
    OBVIOUS
  <2>2. s[k] \in Ranuras /\ s[k] # 0 /\ t.ranura[s[k]].id # NADA
    BY <1>1, <2>1
  <2> QED BY <2>1, <2>2
<1>3. \A i \in usadas : \E k \in 2 .. n : s[k] = i
  <2> SUFFICES ASSUME NEW i \in usadas PROVE \E k \in 2 .. n : s[k] = i
    OBVIOUS
  <2>1. PICK k \in 1 .. n : s[k] = i
    BY <1>1
  <2>2. k # 1
    BY <1>1, <2>1
  <2>3. k \in 2 .. n
    BY <2>2
  <2> QED BY <2>1, <2>3
<1>4. \A x : x \in {t.ranura[i].id : i \in usadas} <=> \E k \in 2 .. n : q[k] = x
  BY <1>1, <1>2, <1>3
<1>5. PICK D : D = 2 .. n
  OBVIOUS
<1>6. PICK g : g = [k \in D |-> s[k]]
  OBVIOUS
<1>7. g \in [D -> usadas] /\ \A k \in D : g[k] = s[k]
  BY <1>2, <1>5, <1>6
<1>8. g \in Bijection(D, usadas)
  <2>1. \A a, b \in D : g[a] = g[b] => a = b
    BY <1>1, <1>2, <1>5, <1>7
  <2>2. \A i \in usadas : \E k \in D : g[k] = i
    BY <1>3, <1>5, <1>7
  <2>3. DOMAIN g = D
    BY <1>7
  <2> QED BY <1>7, <2>1, <2>2, <2>3 DEF Bijection, Injection, Surjection, IsInjective
<1>9. IsFiniteSet(D) /\ Cardinality(D) = n - 1
  <2>1. IsFiniteSet(2 .. n) /\ Cardinality(2 .. n) = (IF 2 > n THEN 0 ELSE n - 2 + 1)
    BY FS_Interval
  <2> QED BY <1>5, <2>1
<1>10. ExistsBijection(D, usadas)
  BY <1>8 DEF ExistsBijection
<1>11. Cardinality(usadas) = Cardinality(D)
  BY <1>9, <1>10, FS_Bijection
<1> QED BY <1>4, <1>9, <1>11 DEF JustasDe

LEMMA TInvDriver == TInv => DriverInv
<1> SUFFICES ASSUME TInv PROVE DriverInv
  OBVIOUS
<1>1. PilasBien /\ ModuloBien(tran)
  BY DEF TInv
<1>2. TypeTran
  BY <1>1 DEF PilasBien, ModuloBien, Registro, Nombres, TypeTran
<1>3. MarcasConcuerdan
  BY <1>1 DEF ModuloBien, Marcas, MarcasConcuerdan
<1>4. PICK q : q = Capas
  OBVIOUS
<1>5. PICK n \in Nat : n = Nivel
  BY <1>1, CapasTipo
<1>6. /\ q \in Seq(Nombres \cup {Base}) /\ Len(q) = n /\ n >= 1
      /\ \A k \in 1 .. Len(pila) : q[k] = pila[k]
      /\ \A k \in 1 .. Len(anidadas) : q[Len(pila) + k] = anidadas[k]
  BY <1>1, <1>4, <1>5, CapasTipo
<1>7. \A k \in 1 .. n : q[k] # NADA
  BY <1>6, NombresAssumption DEF Nombres
<1>8. ListaPropia
  <2> SUFFICES ASSUME casos = {} PROVE tran.ranura[tran.lista].id = Last(pila \o anidadas)
    BY DEF ListaPropia
  <2>1. EnOrden(tran, q) /\ tran.lista = n - 1
    BY <1>4, <1>6 DEF TInv
  <2>2. n \in 1 .. Len(q)
    BY <1>6
  <2>3. tran.ranura[n - 1].id = q[n]
    BY <2>1, <2>2 DEF EnOrden
  <2> QED BY <1>4, <1>6, <2>1, <2>3 DEF Capas, Last
<1>9. RanurasJustas
  <2>1. PICK usadas : usadas = {i \in Ranuras \ {0} : tran.ranura[i].id # NADA}
    OBVIOUS
  <2> SUFFICES ASSUME casos \subseteq {"cierre", "antes"}
               PROVE  /\ Cardinality(usadas) = Nivel - 1
                      /\ {tran.ranura[i].id : i \in usadas} = Range(Tail(pila)) \cup Range(anidadas)
    BY <2>1, Zenon DEF RanurasJustas
  <2>2. Reparto(tran, q)
    BY <1>4 DEF TInv
  <2>3. /\ Cardinality(usadas) = n - 1
        /\ \A x : x \in {tran.ranura[i].id : i \in usadas} <=> \E k \in 2 .. n : q[k] = x
    <3>1. PICK t : t = tran
      OBVIOUS
    <3>2. usadas = {i \in Ranuras \ {0} : t.ranura[i].id # NADA} /\ Reparto(t, q)
      BY <2>1, <2>2, <3>1
    <3>3. JustasDe(t, q, n, usadas)
      BY <1>6, <1>7, <3>2, Justas, Zenon
    <3> QED BY <3>1, <3>3 DEF JustasDe
  <2>4. PICK p \in Seq(Trans \cup {Base}) : p = pila
    BY <1>1 DEF PilasBien
  <2>5. PICK a \in Seq(Nombres) : a = anidadas
    BY <1>1 DEF PilasBien
  <2>6. n = Len(p) + Len(a) /\ Len(p) \in Nat /\ Len(a) \in Nat /\ Len(p) >= 1
    BY <1>1, <1>5, <2>4, <2>5 DEF Nivel, PilasBien
  <2>7. PICK r \in Seq(Trans \cup {Base}) : r = Tail(p)
    <3>1. Tail(p) \in Seq(Trans \cup {Base})
      BY <2>6, HeadTailProperties
    <3> QED BY <3>1
  <2>8. Len(r) = Len(p) - 1 /\ \A k \in 1 .. Len(p) - 1 : r[k] = p[k + 1]
    <3>1. p # <<>>
      BY <2>6
    <3> QED BY <2>6, <2>7, <3>1, HeadTailProperties
  <2>9. ASSUME NEW x PROVE (\E k \in 2 .. n : q[k] = x) <=> x \in Range(r) \cup Range(a)
    <3>1. ASSUME NEW k \in 2 .. n, q[k] = x PROVE x \in Range(r) \cup Range(a)
      <4>1. CASE k <= Len(p)
        <5>1. k - 1 \in 1 .. Len(r) /\ r[k - 1] = x
          <6>1. k - 1 \in 1 .. Len(p) - 1 /\ k - 1 + 1 = k /\ k \in 1 .. Len(p)
            BY <2>6, <4>1
          <6> QED BY <1>6, <2>4, <2>8, <3>1, <6>1
        <5> QED BY <5>1, RangoDe
      <4>2. CASE ~(k <= Len(p))
        <5>1. k - Len(p) \in 1 .. Len(a) /\ a[k - Len(p)] = x
          <6>1. k - Len(p) \in 1 .. Len(a) /\ Len(p) + (k - Len(p)) = k
            BY <2>6, <4>2
          <6> QED BY <1>6, <2>4, <2>5, <3>1, <6>1
        <5> QED BY <5>1, RangoDe
      <4> QED BY <4>1, <4>2
    <3>2. ASSUME x \in Range(r) PROVE \E k \in 2 .. n : q[k] = x
      <4>1. PICK k \in 1 .. Len(r) : r[k] = x
        BY <3>2, RangoDe
      <4>2. k + 1 \in 2 .. n /\ k + 1 \in 1 .. Len(p) /\ k \in 1 .. Len(p) - 1
        BY <2>6, <2>8
      <4>3. q[k + 1] = x
        BY <1>6, <2>4, <2>8, <4>1, <4>2
      <4> QED BY <4>2, <4>3
    <3>3. ASSUME x \in Range(a) PROVE \E k \in 2 .. n : q[k] = x
      <4>1. PICK k \in 1 .. Len(a) : a[k] = x
        BY <3>3, RangoDe
      <4>2. Len(p) + k \in 2 .. n
        BY <2>6
      <4>3. q[Len(p) + k] = x
        BY <1>6, <2>4, <2>5, <4>1
      <4> QED BY <4>2, <4>3
    <3> QED BY <3>1, <3>2, <3>3
  <2>10. {tran.ranura[i].id : i \in usadas} = Range(r) \cup Range(a)
    BY <2>3, <2>9
  <2> QED BY <1>5, <2>3, <2>4, <2>5, <2>7, <2>10
<1> QED BY <1>2, <1>3, <1>8, <1>9 DEF DriverInv

LEMMA TInvSinBasura == TInv => SinBasura
<1> SUFFICES ASSUME TInv, casos = {}, NEW f \in Campos PROVE tran.nivel[f] <= Nivel
  BY DEF SinBasura
<1>1. EnOrden(tran, Capas) /\ Len(Capas) = Nivel
  BY CapasTipo DEF TInv
<1> QED BY <1>1 DEF EnOrden


-----------------------------------------------------------------------------
(* The end of a level, step by step.                                         *)

Conserva(t, u, m) == \A f \in Campos : t.nivel[f] \in 2 .. m => u.nivel[f] = t.nivel[f]

LEMMA ConservaEnd ==
    ASSUME NEW t, ModuloBien(t), NEW q, q \in Seq(Nombres \cup {Base}), Len(q) >= 2,
           EnOrden(t, q), q[Len(q)] \in Nombres,
           \A k \in 1 .. Len(q) - 1 : q[k] # q[Len(q)],
           NEW u, u = dt_tran_end(t, q[Len(q)])
    PROVE  Conserva(t, u, Len(q) - 1)
<1>1. \A f \in Campos : t.nivel[f] \in 2 .. Len(q) - 1 => u.nivel[f] = t.nivel[f]
  BY OrdenEnd, Zenon
<1> QED BY <1>1, Zenon DEF Conserva

LEMMA NivelDe == PilasBien => Nivel \in Nat /\ Nivel >= 1 /\ Nivel = Len(pila) + Len(anidadas)
BY BoundsAssumption, CapasTipo DEF Nivel

Guarda ==
    /\ casos = {} /\ Nivel' = Nivel - 1
    /\ anidadas # <<>> => Last(anidadas) \notin Range(pila \o Front(anidadas))

LEMMA ConservaEndTran == TInv /\ end_tran /\ Guarda => Conserva(tran, tran', Nivel')
<1> SUFFICES ASSUME TInv, end_tran, Guarda PROVE Conserva(tran, tran', Nivel')
  OBVIOUS
<1>1. PICK p : p = pila
  OBVIOUS
<1>2. PICK t : t = tran
  OBVIOUS
<1>3. PICK q : q = SubSeq(p, 1, Len(p) - 1)
  OBVIOUS
<1>4. PICK u : u = dt_tran_end(t, p[Len(p)])
  OBVIOUS
<1>5. PilasBien /\ ModuloBien(t) /\ anidadas = <<>> /\ Len(pila) > 1
  BY <1>2 DEF TInv, end_tran
<1>6. tran' = Encima(u, q[Len(q)])
  BY <1>1, <1>2, <1>3, <1>4, Zenon DEF end_tran, reset_stack, Encima, Last, Front
<1>7. MenosDe(p, q)
  BY <1>1, <1>3, <1>5, PilaMenos, Zenon
<1>8. /\ p \in Seq(Nombres \cup {Base}) /\ Len(p) >= 2 /\ p[Len(p)] \in Nombres
      /\ \A k \in 1 .. Len(p) - 1 : p[k] # p[Len(p)]
      /\ q[Len(q)] # NADA
  BY <1>7 DEF MenosDe
<1>9. EnOrden(t, p)
  <2>1. Capas = p
    BY <1>1, <1>5, CapasTipo, Zenon
  <2> QED BY <1>2, <2>1, Zenon DEF TInv, Guarda
<1>10. Conserva(t, u, Len(p) - 1)
  BY <1>4, <1>5, <1>8, <1>9, ConservaEnd, Zenon
<1>11. ModuloBien(u)
  BY <1>4, <1>5, <1>8, BienEnd, Zenon
<1>12. tran'.nivel = u.nivel
  BY <1>6, <1>8, <1>11, BienEncima, Zenon
<1>13. Nivel' = Len(p) - 1
  <2>1. Nivel = Len(p)
    BY <1>1, <1>5 DEF Nivel
  <2> QED BY <2>1, Zenon DEF Guarda
<1> QED BY <1>2, <1>10, <1>12, <1>13, Zenon DEF Conserva

LEMMA ConservaCierra == TInv /\ Cierra /\ Guarda => Conserva(tran, tran', Nivel')
<1> SUFFICES ASSUME TInv, Cierra, Guarda PROVE Conserva(tran, tran', Nivel')
  OBVIOUS
<1>1. PICK t : t = tran
  OBVIOUS
<1>2. PICK q : q = Capas
  OBVIOUS
<1>3. PICK p \in Seq(Nombres \cup {Base}) : p = pila
  BY DEF PilasBien, Nombres, TInv
<1>4. PICK a \in Seq(Nombres) : a = anidadas
  BY DEF PilasBien, TInv
<1>5. PilasBien /\ ModuloBien(t) /\ a # <<>> /\ Len(a) >= 1 /\ tran' = dt_tran_end(t, a[Len(a)])
      /\ a[Len(a)] \notin Range(p \o SubSeq(a, 1, Len(a) - 1))
  BY <1>1, <1>3, <1>4 DEF TInv, Cierra, Guarda, Last, Front
<1>6. a \in Seq(Nombres \cup {Base}) /\ a[Len(a)] \in Nombres
  BY <1>5
<1>7. q = p \o a /\ q \in Seq(Nombres \cup {Base})
  BY <1>2, <1>3, <1>4, <1>5, CapasTipo, Zenon DEF Capas
<1>8. /\ p \o SubSeq(a, 1, Len(a) - 1) = SubSeq(q, 1, Len(q) - 1)
      /\ q[Len(q)] = a[Len(a)]
  BY <1>5, <1>6, <1>7, CapasMenos, Zenon
<1>9. Len(q) >= 2
  <2>1. Len(q) = Len(p) + Len(a) /\ Len(p) \in Nat
    BY <1>6, <1>7, ConcatProperties
  <2>2. Len(p) > 1
    BY <1>3, <1>4, <1>5 DEF PilasBien
  <2> QED BY <1>5, <2>1, <2>2
<1>10. \A k \in 1 .. Len(q) - 1 : q[k] # q[Len(q)]
  <2>1. PICK r : r = SubSeq(q, 1, Len(q) - 1)
    OBVIOUS
  <2>2. Len(q) - 1 \in 0 .. Len(q)
    BY <1>7, <1>9
  <2>3. r \in Seq(Nombres \cup {Base}) /\ Len(r) = Len(q) - 1 /\ \A k \in 1 .. Len(q) - 1 : r[k] = q[k]
    BY <1>7, <2>1, <2>2, Prefijo, Zenon
  <2>4. q[Len(q)] \notin Range(r)
    BY <1>5, <1>8, <2>1, Zenon
  <2>5. \A k \in 1 .. Len(r) : r[k] # q[Len(q)]
    BY <2>3, <2>4, RangoDe, Zenon
  <2> QED BY <2>3, <2>5, Zenon
<1>11. EnOrden(t, q)
  BY <1>1, <1>2, Zenon DEF TInv, Guarda
<1>12. q[Len(q)] \in Nombres /\ tran' = dt_tran_end(t, q[Len(q)])
  BY <1>5, <1>6, <1>8, Zenon
<1>13. Conserva(t, tran', Len(q) - 1)
  BY <1>5, <1>7, <1>9, <1>10, <1>11, <1>12, ConservaEnd, Zenon
<1>14. Nivel' = Len(q) - 1
  <2>1. Nivel = Len(q)
    BY <1>2, <1>5, CapasTipo, Zenon
  <2> QED BY <2>1, Zenon DEF Guarda
<1> QED BY <1>1, <1>13, <1>14, Zenon

\* Every other step goes up, stays where it is, goes to the desktop or leaves
\* the fields alone.
LEMMA ConservaPaso == TInv /\ NextTran /\ Guarda => Conserva(tran, tran', Nivel')
<1> SUFFICES ASSUME TInv, NextTran, Guarda PROVE Conserva(tran, tran', Nivel')
  OBVIOUS
<1>0. PilasBien /\ Nivel \in Nat /\ Nivel >= 1 /\ Nivel = Len(pila) + Len(anidadas)
      /\ Nivel' = Nivel - 1
  BY NivelDe DEF TInv, Guarda
<1>1. ASSUME NEW id \in Trans, driver_load(id) PROVE FALSE
  <2>1. Len(pila') = Len(pila) + 1 /\ anidadas' = anidadas
    BY <1>0, <1>1 DEF driver_load, PilasBien
  <2> QED BY <1>0, <2>1 DEF Nivel, PilasBien
<1>2. CASE end_tran
  BY <1>2, ConservaEndTran
<1>3. ASSUME pila' = <<Base>>, anidadas' = <<>> PROVE Conserva(tran, tran', Nivel')
  <2>1. Nivel' = 1
    BY <1>3 DEF Nivel
  <2>2. 2 .. Nivel' = {}
    BY <2>1
  <2> QED BY <2>2, Zenon DEF Conserva
<1>4. CASE end_tran_exit_app
  BY <1>3, <1>4 DEF end_tran_exit_app
<1>5. CASE reset_all
  BY <1>3, <1>5 DEF reset_all
<1>6. ASSUME NEW f \in Campos, Usa(f) PROVE FALSE
  <2>1. Nivel' = Nivel
    BY <1>6 DEF Usa, Nivel
  <2> QED BY <1>0, <2>1
<1>7. ASSUME NEW id \in Rutinas \cup Trans, Abre(id) PROVE FALSE
  <2>1. Len(anidadas') = Len(anidadas) + 1 /\ pila' = pila
    BY <1>0, <1>7 DEF Abre, PilasBien, Nombres
  <2> QED BY <1>0, <2>1 DEF Nivel, PilasBien
<1>8. CASE Cierra
  BY <1>8, ConservaCierra
<1>9. CASE Abandona
  <2>1. PICK t : t = tran
    OBVIOUS
  <2>2. PICK p : p = pila
    OBVIOUS
  <2>3. ModuloBien(t) /\ tran' = Encima(t, p[Len(p)])
    BY <1>9, <2>1, <2>2, Zenon DEF TInv, Abandona, reset_stack, Encima, Last
  <2>4. p[Len(p)] # NADA
    BY <1>0, <2>2, NombresAssumption DEF PilasBien
  <2>5. tran'.nivel = t.nivel
    BY <2>3, <2>4, BienEncima, Zenon
  <2> QED BY <2>1, <2>5, Zenon DEF Conserva
<1> QED BY <1>1, <1>2, <1>4, <1>5, <1>6, <1>7, <1>8, <1>9 DEF NextTran, Driver, Rutina

-----------------------------------------------------------------------------
(* The theorems.                                                             *)

\* The slots of the C module keep their names, lists and marks, and each open
\* level has one, for stacks of any size and any number of transactions.
THEOREM SpecTran_TInv == SpecTran => []TInv
<1>1. InitTran => TInv
  BY TInicial
<1>2. TInv /\ [NextTran]_varsTran => TInv'
  BY TInductivo
<1> QED BY <1>1, <1>2, PTL DEF SpecTran

\* The slots in use, the marks of the fields and the list in use are those of the
\* levels that are open (dt_tran_start, dt_tran_end, dt_tran_restart).
THEOREM SpecTran_DriverInv == SpecTran => []DriverInv
BY SpecTran_TInv, TInvDriver, PTL

\* Until a routine closes a bracket, no field keeps the data of a transaction
\* that has ended.
THEOREM SpecTran_SinBasura == SpecTran => []SinBasura
BY SpecTran_TInv, TInvSinBasura, PTL

\* The end of a level clears its own fields and none of those that the levels
\* below it wrote.
THEOREM SpecTran_NoPisa == SpecTran => NoPisa
<1> DEFINE Respeta == Guarda => Conserva(tran, tran', Nivel')
<1>1. TInv /\ [NextTran]_varsTran => [Respeta]_varsTran
  BY ConservaPaso
<1>2. [][Respeta]_varsTran <=> NoPisa
  BY DEF NoPisa, Guarda, Conserva
<1> HIDE DEF Respeta
<1>3. SpecTran => [][Respeta]_varsTran
  BY <1>1, SpecTran_TInv, PTL DEF SpecTran
<1> QED BY <1>2, <1>3
=============================================================================
