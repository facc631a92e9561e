------------------------- MODULE FechaTotalesProofs -------------------------
(* What the run of FechaTotales finds on a few days and records, for every  *)
(* bound.  IInv is inductive as long as every transaction is dated on the   *)
(* day it is made (SinAnterior): the order of the journal and the place of  *)
(* the marks in it make it so.  No step takes SinAnterior back, which makes *)
(* SinAnterior => IInv an invariant of the specification.                   *)
EXTENDS FechaTotales, SequenceTheorems, TLAPS

USE FechaMaxAssumption

-----------------------------------------------------------------------------
(* The inductive invariant.                                                *)

Antes(r, s) == r.fecha < s.fecha \/ (r.fecha = s.fecha /\ r.seq < s.seq)

\* The journal is in the order of its dates and sequences, and holds no date
\* to come.
Orden ==
    /\ \A i \in Indices : jnl[i].bus = jnl[i].fecha /\ jnl[i].fecha \in 1 .. dia
    /\ \A i, j \in Indices : i < j => Antes(jnl[i], jnl[j])

\* The date and the sequence of the station follow the marks of the totals, so
\* that what is inserted next comes last.
Estacion ==
    /\ apertura <= tots.fecha /\ tots.fecha <= dia
    /\ est \in {"opera", "enviada"} =>
           apertura = dia /\ tots.fecha = dia /\ mem.bus = dia
    /\ est = "opera" => mem.seq = tots.seq
    /\ est = "abre" => (tots.fecha = dia => mem.seq = tots.seq)
    /\ est = "enviada" => mem.seq = jnl[Len(jnl)].seq

Totalizado(i) == jnl[i].acepta /\ jnl[i].lista => veces[i] = 1

\* What is before the marks and was accepted is in the totals, once.
Cuentas ==
    /\ NingunaDosVeces
    /\ \A i \in Indices : i < Len(jnl) => Totalizado(i)
    /\ Marcas(Len(jnl)) => \A i \in Indices : Totalizado(i)

IInv == TypeOK /\ MarcasAlDia /\ Orden /\ Estacion /\ Cuentas

-----------------------------------------------------------------------------
(* Types.                                                                  *)

LEMMA Encadena ==
    ASSUME NEW x, NEW y, NEW z, x.fecha \in Int /\ x.seq \in Int,
           y.fecha \in Int /\ y.seq \in Int, z.fecha \in Int /\ z.seq \in Int,
           Antes(x, y), Antes(y, z)
    PROVE  Antes(x, z)
BY DEF Antes

\* An insertion adds a record at the end of the journal and one count beside it.
LEMMA Inserta ==
    ASSUME TypeOK, NEW r \in Registro, NEW v \in Nat, Len(jnl) < MaxReg,
           jnl' = Append(jnl, r), veces' = Append(veces, v)
    PROVE  /\ jnl' \in Seq(Registro) /\ veces' \in Seq(Nat)
           /\ Len(jnl') = Len(jnl) + 1 /\ Len(veces') = Len(veces) + 1
           /\ \A i \in Indices : jnl'[i] = jnl[i] /\ veces'[i] = veces[i]
           /\ jnl'[Len(jnl')] = r /\ veces'[Len(jnl')] = v
           /\ Len(jnl) \in Nat /\ Len(jnl') <= MaxReg
<1>1. jnl \in Seq(Registro) /\ veces \in Seq(Nat) /\ Len(veces) = Len(jnl)
    BY DEF TypeOK
<1>2. Len(jnl) \in Nat
    BY <1>1
<1> QED
    BY <1>1, <1>2, AppendProperties DEF Indices

\* Totalising a record touches its count only.
LEMMA Suma ==
    ASSUME TypeOK, NEW n \in Indices, veces' = Totaliza(n)
    PROVE  /\ veces' \in Seq(Nat) /\ Len(veces') = Len(veces)
           /\ \A i \in Indices : i # n => veces'[i] = veces[i]
           /\ veces'[n] = IF jnl[n].lista THEN veces[n] + 1 ELSE veces[n]
<1>1. veces \in Seq(Nat) /\ Len(veces) = Len(jnl) /\ n \in 1 .. Len(veces)
    BY DEF TypeOK, Indices
<1>2. veces[n] + 1 \in Nat
    BY <1>1, ElementOfSeq
<1> QED
    BY <1>1, <1>2, ExceptSeq DEF Totaliza, Indices

\* The answer of the host writes the status of the last record only.
LEMMA Responde ==
    ASSUME TypeOK, Len(jnl) > 0, NEW b \in BOOLEAN,
           jnl' = [jnl EXCEPT ![Len(jnl)].acepta = b]
    PROVE  /\ jnl' \in Seq(Registro) /\ Len(jnl') = Len(jnl)
           /\ \A i \in Indices : i # Len(jnl) => jnl'[i] = jnl[i]
           /\ jnl'[Len(jnl)] = [jnl[Len(jnl)] EXCEPT !.acepta = b]
<1> DEFINE n == Len(jnl)
           r == [jnl[n] EXCEPT !.acepta = b]
<1>1. jnl \in Seq(Registro) /\ n \in 1 .. Len(jnl)
    BY DEF TypeOK
<1>2. jnl[n] \in Registro
    BY <1>1, ElementOfSeq
<1>3. r \in Registro
    BY <1>2 DEF Registro
<1>4. jnl' = [jnl EXCEPT ![n] = r]
    OBVIOUS
<1> HIDE DEF n, r
<1>5. /\ jnl' \in Seq(Registro) /\ Len(jnl') = Len(jnl)
      /\ \A i \in 1 .. Len(jnl) : jnl'[i] = IF i = n THEN r ELSE jnl[i]
    <2>1. /\ [jnl EXCEPT ![n] = r] \in Seq(Registro)
          /\ Len([jnl EXCEPT ![n] = r]) = Len(jnl)
          /\ \A i \in 1 .. Len(jnl) :
                [jnl EXCEPT ![n] = r][i] = IF i = n THEN r ELSE jnl[i]
        BY <1>1, <1>3, ExceptSeq
    <2> QED
        BY <2>1, <1>4
<1> QED
    BY <1>1, <1>5 DEF n, r, Indices

\* A transaction that was sent has its record.
Tipo == TypeOK /\ (est = "enviada" => Len(jnl) > 0)

LEMMA RegistroValido ==
    ASSUME TypeOK, NEW n \in Indices
    PROVE  /\ jnl[n] \in Registro
           /\ jnl[n].fecha \in Dias /\ jnl[n].bus \in Dias /\ jnl[n].seq \in 1 .. MaxReg
           /\ TOTScommit(jnl[n]) \in [fecha : Dias, seq : 0 .. MaxReg]
           /\ TOTSbackout(jnl[n]) \in [fecha : Dias, seq : 0 .. MaxReg]
<1>1. jnl[n] \in Registro
    BY ElementOfSeq DEF TypeOK, Indices
<1> QED
    BY <1>1 DEF Registro, TOTScommit, TOTSbackout

\* The flag of the profile is a Boolean.
LEMMA BanderaValida ==
    ASSUME TypeOK, NEW t PROVE Bandera(t) \in BOOLEAN
BY DEF Bandera, TypeOK

\* What a sign-on writes has its type.
LEMMA SincronizaTipo ==
    ASSUME TypeOK, jnl_check_sync
    PROVE  /\ tots' \in [fecha : Dias, seq : 0 .. MaxReg] /\ abierto' \in BOOLEAN
           /\ veces' \in Seq(Nat) /\ Len(veces') = Len(jnl)
<1>1. CASE UNCHANGED <<tots, veces, abierto>>
    BY <1>1 DEF TypeOK
<1>2. CASE \E i \in Indices : jnl_init_resync(i)
    <2> PICK n \in Indices : jnl_init_resync(n)
        BY <1>2
    <2> QED
        BY RegistroValido, Suma, BanderaValida DEF jnl_init_resync, TypeOK
<1> QED
    BY <1>1, <1>2 DEF jnl_check_sync

\* So has the record of an opening or a close.
LEMMA AsientaTipo ==
    ASSUME TypeOK, NEW t \in {"OPENDAY", "CLOSEDAY"}, NEW f \in Dias, Asienta(t, f)
    PROVE  /\ jnl' \in Seq(Registro) /\ Len(jnl') <= MaxReg
           /\ veces' \in Seq(Nat) /\ Len(veces') = Len(jnl')
           /\ tots' \in [fecha : Dias, seq : 0 .. MaxReg]
           /\ mem' \in [bus : Dias, seq : 0 .. MaxReg] /\ abierto' \in BOOLEAN
<1> DEFINE r == [tran |-> t, bus |-> f, fecha |-> dia, seq |-> mem.seq + 1,
                 acepta |-> TRUE, lista |-> TRUE]
<1>1. r \in Registro
    BY DEF Registro, TypeOK, Trans, Dias, Asienta
<1>2. /\ Len(jnl) < MaxReg /\ jnl' = Append(jnl, r) /\ veces' = Append(veces, 1)
      /\ tots' = TOTScommit(r) /\ abierto' = Bandera(t)
      /\ mem' = [bus |-> f, seq |-> r.seq]
    BY DEF Asienta
<1>3. tots' \in [fecha : Dias, seq : 0 .. MaxReg] /\ mem' \in [bus : Dias, seq : 0 .. MaxReg]
    BY <1>1, <1>2 DEF Registro, TOTScommit
<1> HIDE DEF r
<1> QED
    BY <1>1, <1>2, <1>3, Inserta, BanderaValida DEF TypeOK

\* The accounting date of a transaction is a date.
LEMMA FechaValida ==
    ASSUME TypeOK PROVE {mem.bus} \cup Anteriores \subseteq Dias
BY DEF Anteriores, Dias, TypeOK

\* So has what the station starts with.
LEMMA Arranca ==
    ASSUME NEW t \in [fecha : Dias, seq : 0 .. MaxReg], NEW b \in BOOLEAN
    PROVE  Arranque(t, b) \in [bus : Dias, seq : 0 .. MaxReg]
BY DEF Arranque, Dias

LEMMA TipoInductivo == Tipo /\ [Next]_vars => Tipo'
<1> SUFFICES ASSUME Tipo, [Next]_vars PROVE Tipo'
    OBVIOUS
<1> USE DEF Tipo
<1>1. CASE JNLinitialize
    BY <1>1, SincronizaTipo, Arranca DEF JNLinitialize, TypeOK
<1>2. CASE AbreDia
    <2>1. dia \in Dias /\ dia' = dia /\ Asienta("OPENDAY", dia)
        BY <1>2 DEF AbreDia, TypeOK, Dias
    <2> QED
        BY <1>2, <2>1, AsientaTipo DEF AbreDia, TypeOK
<1>3. CASE CierraDia
    <2>1. mem.bus \in Dias /\ Asienta("CLOSEDAY", mem.bus)
        BY <1>3 DEF CierraDia, TypeOK
    <2> QED
        BY <1>3, <2>1, AsientaTipo DEF CierraDia, TypeOK
<1>4. CASE JNLprelog_tran
    <2> PICK bus \in {mem.bus} \cup Anteriores, acepta \in BOOLEAN, lista \in BOOLEAN :
             jnl' = Append(jnl, [tran |-> "OP", bus |-> bus, fecha |-> dia,
                                 seq |-> Numero(mem.seq), acepta |-> acepta,
                                 lista |-> lista])
        BY <1>4 DEF JNLprelog_tran
    <2> DEFINE r == [tran |-> "OP", bus |-> bus, fecha |-> dia,
                     seq |-> Numero(mem.seq), acepta |-> acepta, lista |-> lista]
    <2>1. bus \in Dias
        BY FechaValida
    <2>2. Numero(mem.seq) \in 1 .. MaxReg
        BY <1>4 DEF JNLprelog_tran, Numero, TypeOK
    <2>3. r \in Registro
        BY <2>1, <2>2 DEF Registro, Trans, TypeOK, Dias
    <2>4. mem' \in [bus : Dias, seq : 0 .. MaxReg]
        <3>1. mem' = [mem EXCEPT !.seq = Numero(mem.seq)]
            BY <1>4 DEF JNLprelog_tran
        <3>2. mem' = [bus |-> mem.bus, seq |-> Numero(mem.seq)] /\ mem.bus \in Dias
            BY <3>1 DEF TypeOK
        <3> QED
            BY <3>2, <2>2
    <2> HIDE DEF r
    <2>5. Len(jnl) < MaxReg /\ jnl' = Append(jnl, r) /\ veces' = Append(veces, 0)
        BY <1>4 DEF JNLprelog_tran, r
    <2> QED
        BY <1>4, <2>3, <2>4, <2>5, Inserta DEF JNLprelog_tran, TypeOK
<1>5. CASE JNLupdate_commit
    <2>1. Len(jnl) \in Indices /\ Len(jnl) > 0
        BY <1>5 DEF JNLupdate_commit, TypeOK, Indices
    <2> QED
        BY <1>5, <2>1, Responde, Suma, RegistroValido DEF JNLupdate_commit, TypeOK
<1>6. CASE JNLupdate_backout
    <2>1. Len(jnl) \in Indices /\ Len(jnl) > 0
        BY <1>6 DEF JNLupdate_backout, TypeOK, Indices
    <2> QED
        BY <1>6, <2>1, Responde, RegistroValido DEF JNLupdate_backout, TypeOK
<1>7. CASE APPLterm \/ Cae \/ NuevoDia \/ UNCHANGED vars
    <2>1. CASE APPLterm \/ UNCHANGED vars
        BY <2>1 DEF APPLterm, vars, registros, TypeOK
    <2>2. CASE Cae
        BY <2>2 DEF Cae, registros, TypeOK
    <2>3. CASE NuevoDia
        BY <2>3 DEF NuevoDia, registros, TypeOK
    <2> QED
        BY <1>7, <2>1, <2>2, <2>3
<1> QED
    BY <1>1, <1>2, <1>3, <1>4, <1>5, <1>6, <1>7 DEF Next

LEMMA TipoInicial == Init => Tipo
<1> SUFFICES ASSUME Init PROVE Tipo
    OBVIOUS
<1>1. /\ jnl \in Seq(Registro) /\ Len(jnl) = 0
      /\ veces \in Seq(Nat) /\ Len(veces) = 0
    BY EmptySeq DEF Init
<1>2. /\ tots = [fecha |-> 0, seq |-> 0] /\ mem = [bus |-> 0, seq |-> 0]
      /\ dia = 1 /\ apertura = 0 /\ abierto = FALSE /\ est = "fuera" /\ caidas = 0
    BY Zenon DEF Init
<1>3. /\ tots \in [fecha : Dias, seq : 0 .. MaxReg]
      /\ mem \in [bus : Dias, seq : 0 .. MaxReg]
      /\ dia \in 1 .. MaxDia /\ apertura \in Dias /\ caidas \in 0 .. MaxCaidas
    BY <1>2 DEF Dias
<1>4. Len(jnl) <= MaxReg /\ Len(veces) = Len(jnl)
    BY <1>1
<1> QED
    BY <1>1, <1>2, <1>3, <1>4, Zenon DEF Tipo, TypeOK

\* The marks of the totals, the date and sequence of the station and every
\* journal record keep their ranges, with any mix of earlier dates, rejections,
\* crashes and changes of day.
THEOREM TipoCorrecto == Spec => []TypeOK
<1>1. Tipo => TypeOK
    BY DEF Tipo
<1> QED
    BY TipoInicial, TipoInductivo, <1>1, PTL DEF Spec

-----------------------------------------------------------------------------
(* Sign-on: what jnl_check_sync finds, and what it does about it.          *)

\* With the marks on the last record there is nothing to totalise,
LEMMA NadaPendiente ==
    ASSUME IInv, Marcas(Len(jnl)), jnl_check_sync
    PROVE  UNCHANGED <<tots, veces>>
<1>1. CASE PorExaminar = {}
    BY <1>1 DEF jnl_check_sync
<1>2. ASSUME NEW i \in Indices, Ultimo(i), Desincronizado(jnl[i]) PROVE FALSE
    <2> DEFINE n == Len(jnl)
    <2>1. n \in Indices /\ n \in Nat /\ i \in Nat /\ i <= n
        BY <1>2 DEF Indices, IInv, TypeOK
    <2>2. tots = [fecha |-> jnl[n].fecha, seq |-> jnl[n].seq]
        BY <2>1 DEF Marcas, Indices
    <2>3. jnl[i].fecha = tots.fecha /\ jnl[i].seq >= tots.seq
        BY <1>2 DEF Ultimo, PorExaminar
    <2>4. i < n => Antes(jnl[i], jnl[n])
        BY <2>1 DEF IInv, Orden
    <2>5. /\ jnl[i].seq \in 1 .. MaxReg /\ jnl[n].seq \in 1 .. MaxReg
          /\ jnl[i].fecha \in Dias /\ jnl[n].fecha \in Dias /\ jnl[i].bus = jnl[i].fecha
        BY <2>1, RegistroValido DEF IInv, Orden
    <2>6. i = n
        BY <2>1, <2>2, <2>3, <2>4, <2>5 DEF Antes, Dias
    <2> QED
        BY <1>2, <2>2, <2>5, <2>6 DEF Desincronizado, Dias
<1> QED
    BY <1>1, <1>2 DEF jnl_check_sync

\* and with one record after them, that one is found, in either order of the
\* context, and no other.
LEMMA SeTotaliza ==
    ASSUME IInv, Pendiente, jnl_check_sync
    PROVE  jnl_init_resync(Len(jnl))
<1> DEFINE n == Len(jnl)
<1>1. n \in Nat /\ n > 1 /\ n \in Indices /\ n - 1 \in Indices
    BY DEF IInv, TypeOK, Pendiente, Indices
<1>2. /\ tots = [fecha |-> jnl[n - 1].fecha, seq |-> jnl[n - 1].seq]
      /\ jnl[n].fecha = jnl[n - 1].fecha
    BY <1>1 DEF Pendiente, Marcas
<1>3. jnl[n - 1].seq < jnl[n].seq
    <2>1. Antes(jnl[n - 1], jnl[n])
        BY <1>1 DEF IInv, Orden
    <2>2. jnl[n].fecha \in Dias
        BY <1>1, RegistroValido DEF IInv
    <2> QED
        BY <1>2, <2>1, <2>2 DEF Antes, Dias
<1>4. /\ \A i \in Indices : /\ jnl[i].seq \in 1 .. MaxReg /\ jnl[i].fecha \in Dias
                            /\ jnl[i].bus = jnl[i].fecha
    BY RegistroValido DEF IInv, Orden
<1>5. n \in PorExaminar /\ Desincronizado(jnl[n])
    BY <1>1, <1>2, <1>3, <1>4 DEF PorExaminar, Desincronizado, Dias
<1>6. ASSUME NEW i \in Indices, Ultimo(i) PROVE i = n
    <2>1. i \in Nat /\ i <= n
        BY <1>1 DEF Indices
    <2>2. i < n - 1 => Antes(jnl[i], jnl[n - 1])
        BY <1>1, <2>1 DEF IInv, Orden
    <2>3. jnl[i].fecha = jnl[n - 1].fecha /\ jnl[i].seq >= jnl[n - 1].seq
        BY <1>2, <1>6 DEF Ultimo, PorExaminar
    <2>4. ~ (i < n - 1)
        BY <1>1, <1>4, <2>1, <2>2, <2>3 DEF Antes, Dias
    <2>5. jnl[n].seq <= jnl[i].seq
        BY <1>1, <1>2, <1>4, <1>5, <1>6, <2>3 DEF Ultimo, Dias
    <2> QED
        BY <1>1, <1>3, <1>4, <2>1, <2>4, <2>5
<1>7. PorExaminar # {}
    BY <1>5
<1> QED
    BY <1>5, <1>6, <1>7 DEF jnl_check_sync

\* After it the marks are on the last record, what was accepted is in the
\* totals once, and only the last record was totalised.
LEMMA Sincroniza ==
    ASSUME IInv, est = "fuera", jnl_check_sync, UNCHANGED jnl
    PROVE  /\ Marcas(Len(jnl))' /\ Cuentas'
           /\ tots'.fecha = tots.fecha
           /\ \A i \in Indices : veces'[i] > veces[i] => i = Len(jnl)
<1>1. CASE Marcas(Len(jnl))
    <2>1. UNCHANGED <<tots, veces>>
        BY <1>1, NadaPendiente
    <2>2. \A i \in Indices : veces[i] \in Nat
        BY ElementOfSeq DEF IInv, TypeOK, Indices
    <2> QED
        BY <1>1, <2>1, <2>2 DEF IInv, Cuentas, NingunaDosVeces, Totalizado, Marcas, Indices
<1>2. CASE Pendiente
    <2> DEFINE n == Len(jnl)
    <2>1. n \in Nat /\ n > 1 /\ n \in Indices /\ veces[n] = 0
        BY <1>2 DEF IInv, TypeOK, Pendiente, Indices
    <2>2. jnl_init_resync(n)
        BY <1>2, SeTotaliza
    <2>3. tots' = [fecha |-> jnl[n].fecha, seq |-> jnl[n].seq]
        BY <2>1, <2>2 DEF jnl_init_resync, TOTScommit, TOTSbackout, IInv, Orden
    <2>4. Marcas(Len(jnl))'
        BY <2>1, <2>3 DEF Marcas
    <2>5. tots.fecha = jnl[n].fecha
        BY <1>2, <2>1 DEF Pendiente, Marcas
    <2>6. /\ \A i \in Indices : i # n => veces'[i] = veces[i]
          /\ veces'[n] = IF jnl[n].acepta /\ jnl[n].lista THEN 1 ELSE 0
        BY <2>1, <2>2, Suma DEF jnl_init_resync, JNLcustom_resync, IInv
    <2>7. \A i \in Indices : i # n => i < n /\ veces[i] \in Nat
        BY <2>1, ElementOfSeq DEF IInv, TypeOK, Indices
    <2> QED
        BY <2>1, <2>3, <2>4, <2>5, <2>6, <2>7
           DEF IInv, Cuentas, NingunaDosVeces, Totalizado, Indices
<1> QED
    BY <1>1, <1>2 DEF IInv, MarcasAlDia

-----------------------------------------------------------------------------
(* Insertions and answers.                                                 *)

\* What is inserted on today's date, after the sequence of the totals of
\* today, comes last.
LEMMA InsertaOrden ==
    ASSUME IInv, Marcas(Len(jnl)), NEW r \in Registro, NEW v \in Nat, Len(jnl) < MaxReg,
           r.bus = dia, r.fecha = dia, tots.fecha = dia => r.seq = tots.seq + 1,
           jnl' = Append(jnl, r), veces' = Append(veces, v), dia' = dia
    PROVE  Orden'
<1> DEFINE n == Len(jnl)
<1>1. /\ n \in Nat /\ Len(jnl') = n + 1 /\ jnl'[n + 1] = r
      /\ \A i \in 1 .. n : jnl'[i] = jnl[i]
    BY Inserta DEF IInv, Indices
<1>2. \A i \in 1 .. n : /\ jnl[i].seq \in 1 .. MaxReg /\ jnl[i].fecha \in 1 .. dia
                        /\ jnl[i].bus = jnl[i].fecha
    BY RegistroValido DEF IInv, Orden, Indices
<1>3. dia \in 1 .. MaxDia /\ r.seq \in 1 .. MaxReg
    BY DEF IInv, TypeOK, Registro
<1>4. ASSUME n > 0 PROVE Antes(jnl[n], r)
    <2>1. tots = [fecha |-> jnl[n].fecha, seq |-> jnl[n].seq] /\ n \in 1 .. n
        BY <1>1, <1>4 DEF Marcas
    <2> QED
        BY <2>1, <1>2, <1>3 DEF Antes
<1>5. ASSUME NEW i \in 1 .. n PROVE Antes(jnl[i], r)
    <2>1. n > 0 /\ n \in 1 .. n
        BY <1>1
    <2>2. i = n \/ Antes(jnl[i], jnl[n])
        BY <1>1, <2>1 DEF IInv, Orden, Indices
    <2>3. CASE i = n
        BY <1>4, <2>1, <2>3
    <2>4. CASE Antes(jnl[i], jnl[n])
      <3>1. Antes(jnl[n], r)
          BY <1>4, <2>1
      <3>2. /\ jnl[i].fecha \in Int /\ jnl[i].seq \in Int
            /\ jnl[n].fecha \in Int /\ jnl[n].seq \in Int
          BY <1>2, <1>3, <2>1
      <3>3. r.fecha \in Int /\ r.seq \in Int
          BY <1>3
      <3> QED
          BY <2>4, <3>1, <3>2, <3>3, Encadena, Zenon
    <2> QED
        BY <2>2, <2>3, <2>4
<1>6. ASSUME NEW i \in 1 .. n + 1
      PROVE  jnl'[i].bus = jnl'[i].fecha /\ jnl'[i].fecha \in 1 .. dia
    <2>1. CASE i \in 1 .. n
        BY <1>1, <1>2, <2>1
    <2>2. CASE i = n + 1
        BY <1>1, <1>3, <2>2
    <2> QED
        BY <1>1, <2>1, <2>2
<1>7. ASSUME NEW i \in 1 .. n + 1, NEW j \in 1 .. n + 1, i < j
      PROVE  Antes(jnl'[i], jnl'[j])
    <2>1. i \in 1 .. n /\ jnl'[i] = jnl[i]
        BY <1>1, <1>7
    <2>2. CASE j = n + 1
        BY <2>1, <2>2, <1>1, <1>5
    <2>3. CASE j # n + 1
        <3>1. j \in 1 .. n
            BY <1>1, <2>3
        <3> QED
            BY <1>1, <1>7, <2>1, <3>1 DEF IInv, Orden, Indices
    <2> QED
        BY <2>2, <2>3
<1> QED
    BY <1>1, <1>6, <1>7 DEF Orden, Indices, Antes

\* An opening or a close leaves the marks on its record.
LEMMA AsientaAvanza ==
    ASSUME IInv, Marcas(Len(jnl)), NEW t \in {"OPENDAY", "CLOSEDAY"},
           Asienta(t, dia), tots.fecha = dia => mem.seq = tots.seq, dia' = dia
    PROVE  /\ Orden' /\ Marcas(Len(jnl))' /\ Cuentas'
           /\ tots'.fecha = dia /\ mem' = [bus |-> dia, seq |-> tots'.seq]
           /\ \A i \in Indices : veces'[i] = veces[i]
<1> DEFINE r == [tran |-> t, bus |-> dia, fecha |-> dia, seq |-> mem.seq + 1,
                 acepta |-> TRUE, lista |-> TRUE]
           n == Len(jnl)
<1>1. r \in Registro
    BY DEF Registro, IInv, TypeOK, Trans, Dias, Asienta
<1>2. /\ Len(jnl) < MaxReg /\ jnl' = Append(jnl, r) /\ veces' = Append(veces, 1)
      /\ tots' = [fecha |-> dia, seq |-> r.seq]
      /\ mem' = [bus |-> dia, seq |-> r.seq]
    BY DEF Asienta, TOTScommit
<1>3. r.bus = dia /\ r.fecha = dia /\ (tots.fecha = dia => r.seq = tots.seq + 1)
    OBVIOUS
<1> HIDE DEF r
<1>4. Orden'
    BY <1>1, <1>2, <1>3, InsertaOrden
<1>5. /\ n \in Nat /\ Len(jnl') = n + 1 /\ jnl'[n + 1] = r /\ veces'[n + 1] = 1
      /\ \A i \in 1 .. n : jnl'[i] = jnl[i] /\ veces'[i] = veces[i]
    BY <1>1, <1>2, Inserta DEF IInv, Indices
<1>6. Marcas(Len(jnl))'
    BY <1>2, <1>3, <1>5 DEF Marcas
<1>7. ASSUME NEW i \in 1 .. n + 1
      PROVE  veces'[i] <= 1 /\ (jnl'[i].acepta /\ jnl'[i].lista => veces'[i] = 1)
    <2>1. CASE i = n + 1
        BY <2>1, <1>5
    <2>2. CASE i # n + 1
        <3>1. i \in 1 .. n
            BY <1>5, <2>2
        <3> QED
            BY <1>5, <3>1 DEF IInv, Cuentas, NingunaDosVeces, Totalizado, Indices
    <2> QED
        BY <2>1, <2>2
<1>8. Cuentas'
    BY <1>5, <1>7 DEF Cuentas, NingunaDosVeces, Totalizado, Indices
<1> QED
    BY <1>2, <1>4, <1>5, <1>6, <1>8 DEF Indices

\* A transaction of today leaves one record after the marks.
LEMMA PrelogPaso ==
    ASSUME IInv, TypeOK', JNLprelog_tran, SinAnterior'
    PROVE  IInv' /\ \A i \in Indices : veces'[i] = veces[i]
<1> DEFINE n == Len(jnl)
<1> PICK bus \in {mem.bus} \cup Anteriores, acepta \in BOOLEAN, lista \in BOOLEAN :
         jnl' = Append(jnl, [tran |-> "OP", bus |-> bus, fecha |-> dia,
                             seq |-> Numero(mem.seq), acepta |-> acepta,
                             lista |-> lista])
    BY DEF JNLprelog_tran
<1> DEFINE r == [tran |-> "OP", bus |-> bus, fecha |-> dia,
                 seq |-> Numero(mem.seq), acepta |-> acepta, lista |-> lista]
<1>1. bus \in Dias
    BY FechaValida DEF IInv
<1>2. /\ est = "opera" /\ est' = "enviada" /\ n < MaxReg /\ mem.seq < MaxReg
      /\ veces' = Append(veces, 0) /\ UNCHANGED <<dia, tots, abierto, apertura>>
      /\ mem' = [mem EXCEPT !.seq = Numero(mem.seq)]
    BY DEF JNLprelog_tran
<1>3. /\ Marcas(n) /\ apertura = dia /\ tots.fecha = dia /\ mem.bus = dia
      /\ mem.seq = tots.seq
    BY <1>2 DEF IInv, MarcasAlDia, Estacion
<1>4. mem.seq \in 0 .. MaxReg /\ Numero(mem.seq) = mem.seq + 1 /\ dia \in 1 .. MaxDia
    BY DEF IInv, TypeOK, Numero
<1>5. r \in Registro
    BY <1>1, <1>2, <1>3, <1>4 DEF Registro, Trans, Dias
<1>6. r.tran = "OP" /\ r.fecha = dia /\ r.seq = tots.seq + 1 /\ jnl' = Append(jnl, r)
    BY <1>3, <1>4
<1>7. mem' = [bus |-> mem.bus, seq |-> r.seq]
    BY <1>2 DEF IInv, TypeOK
<1> HIDE DEF r
<1>9. /\ n \in Nat /\ Len(jnl') = n + 1 /\ jnl'[n + 1] = r /\ veces'[n + 1] = 0
      /\ \A i \in 1 .. n : jnl'[i] = jnl[i] /\ veces'[i] = veces[i]
    BY <1>2, <1>5, <1>6, Inserta DEF IInv, Indices
<1>15. r.bus = dia
    BY <1>6, <1>9 DEF SinAnterior, Indices
<1>8. Orden'
    BY <1>2, <1>3, <1>5, <1>6, <1>15, InsertaOrden
<1>10. n > 0 /\ tots = [fecha |-> jnl[n].fecha, seq |-> jnl[n].seq]
    BY <1>3, <1>4, <1>9 DEF Marcas
<1>11. Pendiente'
    <2>1. n \in 1 .. n /\ n + 1 > 1 /\ (n + 1) - 1 = n /\ n # 0
        BY <1>9, <1>10
    <2>2. tots' = [fecha |-> jnl'[n].fecha, seq |-> jnl'[n].seq]
        BY <1>2, <1>9, <1>10, <2>1
    <2>3. jnl'[n + 1].fecha = jnl'[n].fecha
        BY <1>3, <1>6, <1>9, <1>10, <2>1
    <2> QED
        BY <1>9, <2>1, <2>2, <2>3 DEF Pendiente, Marcas
<1>12. ~ Marcas(Len(jnl))'
    <2>1. tots'.seq # r.seq
        BY <1>2, <1>3, <1>4, <1>6
    <2> QED
        BY <1>9, <2>1 DEF Marcas
<1>13. Cuentas'
    <2>1. \A i \in 1 .. n : Totalizado(i) /\ veces[i] <= 1
        BY <1>3 DEF IInv, Cuentas, NingunaDosVeces, Indices
    <2>2. ASSUME NEW i \in 1 .. n + 1 PROVE i = n + 1 \/ i \in 1 .. n
        BY <1>9
    <2> QED
        BY <1>9, <1>12, <2>1, <2>2 DEF Cuentas, NingunaDosVeces, Totalizado, Indices
<1>14. Estacion'
    BY <1>2, <1>3, <1>4, <1>7, <1>9 DEF Estacion, IInv
<1> QED
    BY <1>2, <1>8, <1>9, <1>11, <1>13, <1>14 DEF IInv, MarcasAlDia, Indices

\* The answer writes the status of the last record and brings the marks to it;
\* an acceptance totalises it.
LEMMA RespuestaPaso ==
    ASSUME IInv, TypeOK', est = "enviada", est' = "opera",
           UNCHANGED <<dia, mem, apertura>>,
           NEW b \in BOOLEAN, jnl' = [jnl EXCEPT ![Len(jnl)].acepta = b],
           tots' = [fecha |-> jnl[Len(jnl)].fecha, seq |-> jnl[Len(jnl)].seq],
           veces' = (IF b THEN Totaliza(Len(jnl)) ELSE veces)
    PROVE  IInv' /\ \A i \in Indices : veces'[i] > veces[i] => i = Len(jnl)
<1> DEFINE n == Len(jnl)
<1>1. Pendiente /\ n \in Nat /\ n > 1 /\ n \in Indices /\ veces[n] = 0
    BY DEF IInv, MarcasAlDia, TypeOK, Pendiente, Indices
<1>2. /\ Len(jnl') = n /\ \A i \in Indices : i # n => jnl'[i] = jnl[i]
      /\ jnl'[n] = [jnl[n] EXCEPT !.acepta = b]
    BY <1>1, Responde DEF IInv
<1>3. /\ jnl'[n].fecha = jnl[n].fecha /\ jnl'[n].seq = jnl[n].seq
      /\ jnl'[n].bus = jnl[n].bus /\ jnl'[n].lista = jnl[n].lista
      /\ jnl'[n].acepta = b
    BY <1>1, <1>2, RegistroValido DEF IInv, Registro
<1>4. /\ \A i \in Indices : i # n => veces'[i] = veces[i] /\ veces[i] \in Nat
      /\ veces'[n] = IF b /\ jnl[n].lista THEN 1 ELSE 0
    <2>1. \A i \in Indices : veces[i] \in Nat
        BY ElementOfSeq DEF IInv, TypeOK, Indices
    <2>2. CASE b
        <3>1. veces' = Totaliza(n)
            BY <2>2
        <3> HIDE DEF n
        <3> QED
            BY <1>1, <2>1, <2>2, <3>1, Suma DEF IInv
    <2>3. CASE ~ b
        BY <1>1, <2>1, <2>3
    <2> QED
        BY <2>2, <2>3
<1>5. Marcas(Len(jnl))'
    BY <1>1, <1>2, <1>3 DEF Marcas
<1>6. Orden'
    <2>1. \A i \in Indices : /\ jnl'[i].fecha = jnl[i].fecha /\ jnl'[i].seq = jnl[i].seq
                             /\ jnl'[i].bus = jnl[i].bus
        BY <1>2, <1>3
    <2> QED
        BY <1>2, <2>1 DEF IInv, Orden, Antes, Indices
<1>7. Cuentas'
    <2>1. \A i \in Indices : i # n => i < n
        BY <1>1 DEF Indices
    <2> QED
        BY <1>1, <1>2, <1>3, <1>4, <2>1 DEF IInv, Cuentas, NingunaDosVeces, Totalizado, Indices
<1>8. Estacion'
    <2>1. tots.fecha = jnl[n].fecha
        BY <1>1 DEF Pendiente, Marcas
    <2> QED
        BY <2>1 DEF IInv, Estacion
<1> QED
    BY <1>1, <1>4, <1>5, <1>6, <1>7, <1>8 DEF IInv, MarcasAlDia

LEMMA AsientaPaso ==
    ASSUME IInv, TypeOK', AbreDia \/ CierraDia
    PROVE  IInv' /\ \A i \in Indices : veces'[i] = veces[i]
<1>1. Marcas(Len(jnl)) /\ (tots.fecha = dia => mem.seq = tots.seq) /\ dia' = dia
    BY DEF AbreDia, CierraDia, IInv, MarcasAlDia, Estacion
<1>2. PICK t \in {"OPENDAY", "CLOSEDAY"} : Asienta(t, dia)
    BY DEF AbreDia, CierraDia, IInv, Estacion
<1>3. /\ Orden' /\ Marcas(Len(jnl))' /\ Cuentas'
      /\ tots'.fecha = dia /\ mem' = [bus |-> dia, seq |-> tots'.seq]
      /\ \A i \in Indices : veces'[i] = veces[i]
    BY <1>1, <1>2, AsientaAvanza
<1>4. dia \in 1 .. MaxDia
    BY DEF IInv, TypeOK
<1>5. CASE AbreDia
    BY <1>1, <1>3, <1>4, <1>5 DEF AbreDia, IInv, MarcasAlDia, Estacion
<1>6. CASE CierraDia
    BY <1>1, <1>3, <1>4, <1>6 DEF CierraDia, IInv, MarcasAlDia, Estacion
<1> QED
    BY <1>5, <1>6

LEMMA EntradaPaso ==
    ASSUME IInv, TypeOK', JNLinitialize
    PROVE  IInv' /\ \A i \in Indices : veces'[i] > veces[i] => i = Len(jnl)
<1>1. /\ est = "fuera" /\ jnl_check_sync /\ UNCHANGED <<dia, jnl, apertura>>
      /\ mem' = Arranque(tots', abierto')
      /\ est' = IF abierto' /\ apertura = dia THEN "opera" ELSE "abre"
    BY DEF JNLinitialize
<1>2. /\ Marcas(Len(jnl))' /\ Cuentas' /\ tots'.fecha = tots.fecha
      /\ \A i \in Indices : veces'[i] > veces[i] => i = Len(jnl)
    BY <1>1, Sincroniza
<1>3. Orden'
    BY <1>1 DEF IInv, Orden, Indices
<1>4. /\ dia \in 1 .. MaxDia /\ tots.fecha \in Dias /\ apertura \in Dias
      /\ apertura <= tots.fecha /\ tots.fecha <= dia
    BY DEF IInv, TypeOK, Estacion
<1>5. Estacion'
    BY <1>1, <1>2, <1>4 DEF Estacion, Arranque, Dias
<1> QED
    BY <1>1, <1>2, <1>3, <1>5 DEF IInv, MarcasAlDia

LEMMA SalidaPaso ==
    ASSUME IInv, TypeOK', APPLterm \/ Cae \/ NuevoDia \/ UNCHANGED vars
    PROVE  IInv' /\ \A i \in Indices : veces'[i] = veces[i]
<1>1. UNCHANGED registros /\ dia \in 1 .. MaxDia /\ dia' \in {dia, dia + 1}
    BY DEF APPLterm, Cae, NuevoDia, vars, IInv, TypeOK
<1>2. Orden'
    BY <1>1 DEF registros, IInv, Orden, Indices
<1>3. Cuentas'
    BY <1>1 DEF registros, IInv, Cuentas, NingunaDosVeces, Totalizado, Marcas, Indices
<1>4. MarcasAlDia'
    <2>1. (Marcas(Len(jnl))' <=> Marcas(Len(jnl))) /\ (Pendiente' <=> Pendiente)
        BY <1>1 DEF registros, Pendiente, Marcas
    <2>2. est' = est \/ est' = "fuera"
        BY DEF APPLterm, Cae, NuevoDia, vars
    <2> QED
        BY <2>1, <2>2 DEF IInv, MarcasAlDia, TypeOK
<1>5. Estacion'
    <2>1. tots.fecha \in Dias /\ apertura \in Dias
        BY DEF IInv, TypeOK
    <2> QED
        BY <1>1, <2>1 DEF APPLterm, Cae, NuevoDia, vars, registros, IInv, Estacion, Dias
<1> QED
    BY <1>1, <1>2, <1>3, <1>4, <1>5 DEF IInv, registros

-----------------------------------------------------------------------------
(* The theorems.                                                           *)

LEMMA Inicial == Init => IInv
<1> SUFFICES ASSUME Init PROVE IInv
    OBVIOUS
<1>1. TypeOK
    BY TipoInicial DEF Tipo
<1>2. /\ Len(jnl) = 0 /\ tots = [fecha |-> 0, seq |-> 0] /\ dia = 1 /\ apertura = 0
      /\ est = "fuera"
    BY EmptySeq, Zenon DEF Init
<1>3. Indices = {}
    BY <1>2 DEF Indices
<1>4. MarcasAlDia
    BY <1>2 DEF MarcasAlDia, Marcas
<1>5. Estacion
    BY <1>2 DEF Estacion
<1> QED
    BY <1>1, <1>3, <1>4, <1>5 DEF IInv, Orden, Cuentas, NingunaDosVeces

\* Every step keeps the invariant, and totalises nothing but the last record.
LEMMA Paso ==
    ASSUME IInv, [Next]_vars
    PROVE  (SinAnterior' => IInv') /\ \A i \in Indices : veces'[i] > veces[i] => i = Len(jnl)
<1>1. TypeOK'
    <2>1. Len(jnl) \in Nat /\ (est = "enviada" => Len(jnl) > 0)
        BY DEF IInv, TypeOK, MarcasAlDia, Pendiente
    <2> QED
        BY <2>1, TipoInductivo DEF Tipo, IInv
<1>2. ASSUME \A i \in Indices : veces'[i] = veces[i]
      PROVE  \A i \in Indices : veces'[i] > veces[i] => i = Len(jnl)
    <2>1. \A i \in Indices : veces[i] \in Nat
        BY ElementOfSeq DEF IInv, TypeOK, Indices
    <2> QED
        BY <1>2, <2>1
<1>3. CASE JNLinitialize
    BY <1>1, <1>3, EntradaPaso
<1>4. CASE AbreDia \/ CierraDia
    BY <1>1, <1>2, <1>4, AsientaPaso
<1>5. CASE JNLprelog_tran
    <2>1. \A i \in Indices : veces'[i] = veces[i]
        BY <1>5, AppendProperties DEF IInv, TypeOK, JNLprelog_tran, Indices
    <2>2. ASSUME SinAnterior' PROVE IInv'
        BY <1>1, <1>5, <2>2, PrelogPaso
    <2> QED
        BY <1>2, <2>1, <2>2
<1>6. CASE JNLupdate_commit
    BY <1>1, <1>6, RespuestaPaso DEF JNLupdate_commit, TOTScommit
<1>7. CASE JNLupdate_backout
    <2>1. Len(jnl) \in Indices
        <3>1. Pendiente /\ Len(jnl) \in Nat
            BY <1>7 DEF IInv, TypeOK, MarcasAlDia, JNLupdate_backout
        <3> QED
            BY <3>1 DEF Pendiente, Indices
    <2>2. jnl[Len(jnl)].bus = jnl[Len(jnl)].fecha
        BY <2>1 DEF IInv, Orden
    <2> QED
        BY <1>1, <1>7, <2>2, RespuestaPaso DEF JNLupdate_backout, TOTSbackout
<1>8. CASE APPLterm \/ Cae \/ NuevoDia \/ UNCHANGED vars
    BY <1>1, <1>2, <1>8, SalidaPaso
<1> QED
    BY <1>3, <1>4, <1>5, <1>6, <1>7, <1>8 DEF Next

\* No step takes an earlier date back: records are added and their dates stay.
LEMMA SinAnteriorAtras ==
    ASSUME Tipo, [Next]_vars, SinAnterior'
    PROVE  SinAnterior
<1>1. ASSUME UNCHANGED jnl PROVE SinAnterior
    BY <1>1 DEF SinAnterior, Indices
<1>2. ASSUME NEW r, jnl' = Append(jnl, r) PROVE SinAnterior
    <2>1. jnl \in Seq(Registro) /\ Len(jnl) \in Nat
        BY DEF Tipo, TypeOK
    <2>2. /\ Len(jnl') = Len(jnl) + 1
          /\ \A i \in 1 .. Len(jnl) : jnl'[i] = jnl[i]
        BY <1>2, <2>1
    <2> QED
        BY <2>1, <2>2 DEF SinAnterior, Indices
<1>3. ASSUME NEW b \in BOOLEAN, est = "enviada",
             jnl' = [jnl EXCEPT ![Len(jnl)].acepta = b]
      PROVE  SinAnterior
    <2>1. Len(jnl) > 0 /\ TypeOK
        BY <1>3 DEF Tipo
    <2>2. Len(jnl) \in Indices
        BY <2>1 DEF Indices, TypeOK
    <2>3. jnl[Len(jnl)] \in Registro
        BY <2>1, <2>2, RegistroValido
    <2>4. /\ jnl'[Len(jnl)].tran = jnl[Len(jnl)].tran
          /\ jnl'[Len(jnl)].bus = jnl[Len(jnl)].bus
          /\ jnl'[Len(jnl)].fecha = jnl[Len(jnl)].fecha
        BY <1>3, <2>1, <2>3, Responde DEF Registro
    <2>5. Len(jnl') = Len(jnl) /\ \A i \in Indices : i # Len(jnl) => jnl'[i] = jnl[i]
        BY <1>3, <2>1, Responde
    <2> QED
        BY <2>4, <2>5 DEF SinAnterior, Indices
<1>4. CASE JNLinitialize
    BY <1>1, <1>4 DEF JNLinitialize
<1>5. CASE AbreDia \/ CierraDia
    BY <1>2, <1>5 DEF AbreDia, CierraDia, Asienta
<1>6. CASE JNLprelog_tran
    BY <1>2, <1>6 DEF JNLprelog_tran
<1>7. CASE JNLupdate_commit \/ JNLupdate_backout
    BY <1>3, <1>7 DEF JNLupdate_commit, JNLupdate_backout
<1>8. CASE APPLterm \/ Cae \/ NuevoDia \/ UNCHANGED vars
    BY <1>1, <1>8 DEF APPLterm, Cae, NuevoDia, vars, registros
<1> QED
    BY <1>4, <1>5, <1>6, <1>7, <1>8 DEF Next

Condicional == Tipo /\ (SinAnterior => IInv)

LEMMA Invariante == Spec => []Condicional
<1>1. Init => Condicional
    BY Inicial, TipoInicial DEF Condicional
<1>2. Condicional /\ [Next]_vars => Condicional'
    BY TipoInductivo, SinAnteriorAtras, Paso DEF Condicional
<1> QED
    BY <1>1, <1>2, PTL DEF Spec

\* One record at most is after the marks of the totals, and a station that
\* signed on has none.
THEOREM MarcasSiguenSiempre == Spec => []MarcasSiguen
<1>1. Condicional => MarcasSiguen
    BY DEF Condicional, IInv, MarcasSiguen
<1> QED
    BY Invariante, <1>1, PTL

\* A transaction enters the totals once at most, however often the station
\* crashes and starts again.
THEOREM UnaVezSiempre == Spec => []UnaVez
<1>1. Condicional => UnaVez
    BY DEF Condicional, IInv, Cuentas, UnaVez
<1> QED
    BY Invariante, <1>1, PTL

\* What was accepted is in the totals of a station that signed on.
THEOREM CaidaTotalizadaSiempre == Spec => []CaidaTotalizada
<1>1. Condicional => CaidaTotalizada
    BY DEF Condicional, IInv, MarcasAlDia, Cuentas, Totalizado, CaidaTotalizada,
           TodasTotalizadas
<1> QED
    BY Invariante, <1>1, PTL

\* The primary index tells the records of an operator apart.
THEOREM ClaveUnicaSiempre == Spec => []ClaveUnica
<1>1. Condicional => ClaveUnica
    <2> SUFFICES ASSUME IInv, NEW i \in Indices, NEW j \in Indices, i < j,
                        jnl[i].bus = jnl[j].bus, jnl[i].seq = jnl[j].seq
                 PROVE  FALSE
        BY DEF Condicional, ClaveUnica, Indices
    <2>1. /\ Antes(jnl[i], jnl[j])
          /\ jnl[i].bus = jnl[i].fecha /\ jnl[j].bus = jnl[j].fecha
        BY DEF IInv, Orden
    <2>2. jnl[j].seq \in 1 .. MaxReg /\ jnl[j].fecha \in Dias
        BY RegistroValido DEF IInv
    <2>3. jnl[i].fecha = jnl[j].fecha
        BY <2>1
    <2> QED
        BY <2>1, <2>2, <2>3 DEF Antes, Dias
<1> QED
    BY Invariante, <1>1, PTL

\* A teller at work posts on the date the day was opened with.
THEOREM FechaContableSiempre == Spec => []FechaContable
<1>1. Condicional => FechaContable
    BY DEF Condicional, IInv, Estacion, FechaContable
<1> QED
    BY Invariante, <1>1, PTL

\* Whatever a step totalises is the last record of the journal.
THEOREM SoloLaUltimaSiempre == Spec => SoloLaUltima
<1>1. Condicional /\ [Next]_vars
          => [SinAnterior => \A i \in Indices : veces'[i] > veces[i] => i = Len(jnl)]_vars
    BY Paso DEF Condicional
<1> QED
    BY Invariante, <1>1, PTL DEF Spec, SoloLaUltima

=============================================================================
