---------------------------- MODULE FechaTotales ----------------------------
(* The marks that tie the totals record of an operator to its journal: the  *)
(* date and the sequence of the last transaction totalised.  A transaction  *)
(* has two dates, the accounting date jnl_bus_date and the calendar date    *)
(* jnl_date; they differ when an earlier day is billed.  TOTScommit leaves  *)
(* jnl_date in tots_bus_date, TOTSbackout leaves jnl_bus_date; at the next  *)
(* sign-on JNLinitialize looks for what is still to be totalised by         *)
(* jnl_date and jnl_check_sync decides by jnl_bus_date.                     *)
EXTENDS Integers, Sequences

CONSTANTS
    MaxDia,       \* bound: calendar dates 1 .. MaxDia
    MaxReg,       \* bound: journal records of the operator
    MaxCaidas     \* bound: crashes of the station

ASSUME FechaMaxAssumption ==
    MaxDia \in Nat \ {0} /\ MaxReg \in Nat /\ MaxCaidas \in Nat

VARIABLES
    dia,       \* common:system_date
    jnl,       \* journal of the operator, in the order of its insertions
    tots,      \* totals record: tots_bus_date, tots_sequence
    mem,       \* bus_date and sequence of the station
    abierto,   \* open_day of op_state_flags, kept in the profile
    apertura,  \* date of the last opening of the day
    est,       \* where the station is
    veces,     \* history: how many times each record was totalised
    caidas

registros == <<jnl, tots, abierto, apertura, veces>>
vars == <<dia, registros, mem, est, caidas>>

Dias == 0 .. MaxDia
Indices == 1 .. Len(jnl)

Trans == {"OPENDAY", "CLOSEDAY", "OP"}

\* status below HOST_REJECTED, and whether the transaction has totals.
Registro ==
    [tran : Trans, bus : Dias, fecha : Dias, seq : 1 .. MaxReg, acepta : BOOLEAN, lista : BOOLEAN]

Init ==
    /\ dia = 1 /\ jnl = <<>> /\ veces = <<>>
    /\ tots = [fecha |-> 0, seq |-> 0] /\ mem = [bus |-> 0, seq |-> 0]
    /\ abierto = FALSE /\ apertura = 0 /\ est = "fuera" /\ caidas = 0

-----------------------------------------------------------------------------
(* Totals of a record, in the unit of work that updates the journal.       *)

TOTScommit(r) == [fecha |-> r.fecha, seq |-> r.seq]

TOTSbackout(r) == [fecha |-> r.bus, seq |-> r.seq]

\* TOTSopen_day and TOTSclose_day also move the flag of the profile.
Bandera(tran) ==
    CASE tran = "OPENDAY" -> TRUE [] tran = "CLOSEDAY" -> FALSE [] OTHER -> abierto

Totaliza(i) == IF jnl[i].lista THEN [veces EXCEPT ![i] = @ + 1] ELSE veces

-----------------------------------------------------------------------------
(* Sign-on (JNLinitialize).                                                *)

PorExaminar ==
    {i \in Indices : jnl[i].fecha = tots.fecha /\ jnl[i].seq >= tots.seq}

\* The last record of the selection; the order of the context may be that of
\* the sequences or that of the primary index, accounting date first.
Ultimo(i) ==
    /\ i \in PorExaminar
    /\ \/ \A j \in PorExaminar : jnl[j].seq <= jnl[i].seq
       \/ \A j \in PorExaminar :
              jnl[j].bus < jnl[i].bus \/ (jnl[j].bus = jnl[i].bus /\ jnl[j].seq <= jnl[i].seq)

\* Plausible faults of the comparison, and of what is then decided.
TambienIgual(r) == r.bus >= tots.fecha /\ r.seq >= tots.seq
SoloOtroDia(r) == r.bus > tots.fecha

\* jnl_check_sync: the last record follows the last totals update.
Desincronizado(r) ==
    r.bus > tots.fecha \/ (r.bus = tots.fecha /\ r.seq > tots.seq)

JNLcustom_resync(r) == r.lista /\ r.acepta

jnl_init_resync(i) ==
    IF JNLcustom_resync(jnl[i])
    THEN /\ tots' = TOTScommit(jnl[i]) /\ veces' = Totaliza(i)
         /\ abierto' = Bandera(jnl[i].tran)
    ELSE tots' = TOTSbackout(jnl[i]) /\ UNCHANGED <<veces, abierto>>

jnl_check_sync ==
    IF PorExaminar = {} THEN UNCHANGED <<tots, veces, abierto>>
    ELSE \E i \in Indices :
            /\ Ultimo(i)
            /\ IF Desincronizado(jnl[i]) THEN jnl_init_resync(i)
               ELSE UNCHANGED <<tots, veces, abierto>>

\* A plausible fault: every start of the application numbers from one.
SiempreDesdeUno(t, abre) == [bus |-> t.fecha, seq |-> 0]

\* "en cada reapertura no blanquee el sequence" (JNLinitialize 285).
Arranque(t, abre) ==
    IF abre \/ t.fecha = dia THEN [bus |-> t.fecha, seq |-> t.seq]
    ELSE [bus |-> 0, seq |-> 0]

JNLinitialize ==
    /\ est = "fuera"
    /\ jnl_check_sync
    /\ mem' = Arranque(tots', abierto')
    /\ est' = IF abierto' /\ apertura = dia THEN "opera" ELSE "abre"
    /\ UNCHANGED <<dia, jnl, apertura, caidas>>

-----------------------------------------------------------------------------
(* Opening and close of the day, and transactions.                         *)

\* The record of an opening or a close, in one unit of work with its totals
\* (the crashes between the two are those of DiaDeCaja).
Asienta(tran, fecha) ==
    LET r == [tran |-> tran, bus |-> fecha, fecha |-> dia, seq |-> mem.seq + 1,
              acepta |-> TRUE, lista |-> TRUE]
    IN /\ mem.seq < MaxReg /\ Len(jnl) < MaxReg
       /\ jnl' = Append(jnl, r) /\ veces' = Append(veces, 1)
       /\ tots' = TOTScommit(r) /\ abierto' = Bandera(tran)
       /\ mem' = [bus |-> fecha, seq |-> r.seq]

AbreDia ==
    /\ est = "abre" /\ Asienta("OPENDAY", dia)
    /\ apertura' = dia /\ est' = "opera"
    /\ UNCHANGED <<dia, caidas>>

CierraDia ==
    /\ est = "opera" /\ Asienta("CLOSEDAY", mem.bus)
    /\ est' = "fuera"
    /\ UNCHANGED <<dia, apertura, caidas>>

Numero(s) == s + 1

\* "tomo la fecha del dia anterior" (FechaAnt), or the date of a virtual branch.
Anteriores == 1 .. apertura - 1

\* jnl_header and the insertion; the status of a record that still has no
\* answer is that of its kind of transaction.
JNLprelog_tran ==
    /\ est = "opera" /\ mem.seq < MaxReg /\ Len(jnl) < MaxReg
    /\ \E bus \in {mem.bus} \cup Anteriores, acepta, lista \in BOOLEAN :
           jnl' = Append(jnl, [tran |-> "OP", bus |-> bus, fecha |-> dia,
                               seq |-> Numero(mem.seq), acepta |-> acepta, lista |-> lista])
    /\ veces' = Append(veces, 0)
    /\ mem' = [mem EXCEPT !.seq = Numero(@)]
    /\ est' = "enviada"
    /\ UNCHANGED <<dia, tots, abierto, apertura, caidas>>

JNLupdate_commit ==
    /\ est = "enviada" /\ est' = "opera"
    /\ jnl' = [jnl EXCEPT ![Len(jnl)].acepta = TRUE]
    /\ tots' = TOTScommit(jnl[Len(jnl)])
    /\ veces' = Totaliza(Len(jnl))
    /\ UNCHANGED <<dia, mem, abierto, apertura, caidas>>

JNLupdate_backout ==
    /\ est = "enviada" /\ est' = "opera"
    /\ jnl' = [jnl EXCEPT ![Len(jnl)].acepta = FALSE]
    /\ tots' = TOTSbackout(jnl[Len(jnl)])
    /\ UNCHANGED <<dia, mem, abierto, apertura, veces, caidas>>

-----------------------------------------------------------------------------
(* End of the session, crashes, and the date: a day the operator did not   *)
(* close is closed by the treasurer, who does not touch the profile.       *)

APPLterm ==
    /\ est \in {"opera", "abre"} /\ est' = "fuera"
    /\ UNCHANGED <<dia, registros, mem, caidas>>

Cae ==
    /\ est # "fuera" /\ caidas < MaxCaidas /\ caidas' = caidas + 1
    /\ est' = "fuera"
    /\ UNCHANGED <<dia, registros, mem>>

NuevoDia ==
    /\ est = "fuera" /\ dia < MaxDia /\ dia' = dia + 1
    /\ UNCHANGED <<registros, mem, est, caidas>>

Next ==
    \/ JNLinitialize \/ AbreDia \/ CierraDia
    \/ JNLprelog_tran \/ JNLupdate_commit \/ JNLupdate_backout
    \/ APPLterm \/ Cae \/ NuevoDia

Spec == Init /\ [][Next]_vars

-----------------------------------------------------------------------------
TypeOK ==
    /\ dia \in 1 .. MaxDia /\ apertura \in Dias /\ abierto \in BOOLEAN
    /\ jnl \in Seq(Registro) /\ Len(jnl) <= MaxReg
    /\ veces \in Seq(Nat) /\ Len(veces) = Len(jnl)
    /\ tots \in [fecha : Dias, seq : 0 .. MaxReg]
    /\ mem \in [bus : Dias, seq : 0 .. MaxReg]
    /\ est \in {"fuera", "abre", "opera", "enviada"} /\ caidas \in 0 .. MaxCaidas

\* Every transaction is dated on the day it is made.  With one of an earlier day
\* (FechaAnt) none of the properties below holds: the marks no longer follow the
\* order of the journal, and jnl_check_sync skips what comes after them, takes it
\* twice, or takes another record.
SinAnterior == \A i \in Indices : jnl[i].tran = "OP" => jnl[i].bus = jnl[i].fecha

NingunaDosVeces == \A i \in Indices : veces[i] <= 1

\* However often the station crashes and starts again, a transaction enters
\* the totals once at most (jnl_check_sync 31-39).
UnaVez == SinAnterior => NingunaDosVeces

TodasTotalizadas == \A i \in Indices : jnl[i].acepta /\ jnl[i].lista => veces[i] = 1

\* Once the station is back at work nothing that was accepted, or was sent and
\* counts as accepted, is missing from the totals (jnl_init_resync 20-31).
CaidaTotalizada == SinAnterior /\ est \in {"abre", "opera"} => TodasTotalizadas

\* "Solo quiero que vuelva a totalizar la ultima trx" (JNLinitialize 168):
\* whatever is totalised is the last record of the journal.
SoloLaUltima ==
    [][SinAnterior => \A i \in Indices : veces'[i] > veces[i] => i = Len(jnl)]_vars

\* "Set up primary index fields" (jnl_header 40): accounting date and sequence
\* tell the records of an operator apart, over crashes, reopenings and days.
ClaveUnica ==
    SinAnterior =>
        \A i, j \in Indices : jnl[i].bus = jnl[j].bus /\ jnl[i].seq = jnl[j].seq => i = j

Marcas(k) ==
    IF k = 0 THEN tots = [fecha |-> 0, seq |-> 0]
    ELSE tots = [fecha |-> jnl[k].fecha, seq |-> jnl[k].seq]

\* The record before the last is that of the totals, and the last is of the
\* same date and not totalised.
Pendiente ==
    LET n == Len(jnl) IN
    n > 1 /\ Marcas(n - 1) /\ jnl[n].fecha = jnl[n - 1].fecha /\ veces[n] = 0

MarcasAlDia ==
    /\ est \in {"abre", "opera"} => Marcas(Len(jnl))
    /\ est = "enviada" => Pendiente
    /\ est = "fuera" => Marcas(Len(jnl)) \/ Pendiente

\* One record at most is after the marks of the totals, and only between its
\* insertion and the update of both, or after a crash there; a sign-on brings
\* the marks up to it (jnl_check_sync, jnl_init_resync 20-51).
MarcasSiguen == SinAnterior => MarcasAlDia

\* A teller at work posts on the date the day was opened with, also after the
\* station starts again (JNLinitialize 286-290, TOTScommit 130-133).
FechaContable == SinAnterior /\ est \in {"opera", "enviada"} => mem.bus = apertura

=============================================================================
