----------------------------- MODULE DiaDeCaja -----------------------------
(***************************************************************************)
(* The teller's day: it is opened and closed with two marks, tots_status   *)
(* in the totals record and rend_marca_cierre in the record of the cash    *)
(* rendered, which the code writes one after the other and the treasurer's *)
(* forced close writes in the opposite order.  Cash goes from one day to   *)
(* the next through rend_importe_vec.  Each action ends at the write of a  *)
(* record: a crash of the workstation can come between any two.            *)
(***************************************************************************)
EXTENDS Integers

CONSTANTS
    MaxDia,         \* bound: dates
    MaxOps,         \* bound: transactions of a customer
    MaxCaidas       \* bound: crashes of a workstation

ASSUME DiaMaxAssumption ==
    MaxDia \in Nat \ {0} /\ MaxOps \in Nat /\ MaxCaidas \in Nat

VARIABLES
    dia,        \* common:system_date
    tots,       \* totals record: tots_status, tots_bus_date, cash, initial cash
    rend,       \* rend_caj record of the teller; a blank field is "no", or date 0,
                \* and the blank type a close of the teller writes is "N"
    pend,       \* journal record whose unit of work is still to be done
    node,       \* op_node_id: the teller is signed on
    est, tran,  \* where the teller's station is, and the transaction in course
    tes, copia, \* where the treasurer's forced close is, and the totals it read
    caja,       \* history: cash in the teller's drawer
    casos,      \* history: what happened besides openings and closes of a date
    ops, caidas

registros == <<tots, rend, pend, node>>
tesorero == <<tes, copia>>
vars == <<dia, registros, est, tran, tesorero, caja, casos, ops, caidas>>

Dias == 0 .. MaxDia
Montos == 0 .. MaxOps
Trans == {"OPENDAY", "REOPENCA", "CARGA", "CLOSEDAY", "OP"}
\* A second opening of a date, granted by the supervisor; a refused opening that
\* was dismissed without ESC; a forced close by the treasurer.
Casos == {"reapertura", "sin_apertura", "forzado"}
SinPend == [tran |-> "OP", fecha |-> 0, importe |-> 0]

\* The operator has just been added: TOTSadd_rec made the totals record.
Init ==
    /\ dia = 1
    /\ tots = [estado |-> "A", fecha |-> 0, efvo |-> 0, inic |-> 0]
    /\ rend = [fecha |-> 0, marca |-> "no", tipo |-> "no", importe |-> 0]
    /\ pend = SinPend /\ node = FALSE /\ est = "fuera" /\ tran = "OP"
    /\ tes = "libre" /\ copia = 0 /\ caja = 0 /\ casos = {}
    /\ ops = 0 /\ caidas = 0

-----------------------------------------------------------------------------
(* Totals routines, run by TOTScommit in the unit of work of the journal.  *)

\* A plausible fault: the day's totals are not cleared.
NoLimpia(t, descrip) == [t EXCEPT !.estado = "C", !.inic = 0]

\* drv:descrip is in memory: REOPENCA keeps the totals, anything else clears.
TOTSopen_day(t, descrip) ==
    IF descrip = "REOPENCA" THEN [t EXCEPT !.estado = "C"]
    ELSE [t EXCEPT !.estado = "C", !.efvo = 0, !.inic = 0]

TOTSclose_day(t) == [t EXCEPT !.estado = "C"]

TOTS8800(t, importe) == [t EXCEPT !.inic = importe]

TOTScommit(t, reg, descrip) ==
    LET totalizado ==
            CASE reg.tran \in {"OPENDAY", "REOPENCA"} -> TOTSopen_day(t, descrip)
              [] reg.tran = "CARGA" -> TOTS8800(t, reg.importe)
              [] reg.tran = "CLOSEDAY" -> TOTSclose_day(t)
              [] reg.tran = "OP" -> [t EXCEPT !.efvo = @ + reg.importe]
    IN [totalizado EXCEPT !.fecha = reg.fecha]

-----------------------------------------------------------------------------
(* Sign-on and start of the teller application.                            *)

Identifica ==
    /\ est = "fuera" /\ est' = "ident" /\ node' = TRUE
    /\ UNCHANGED <<dia, tots, rend, pend, tran, tesorero, caja, casos, ops, caidas>>

\* The totals record is locked from TOTSinitialize to APPLterm.
EnCaja == est \notin {"fuera", "ident"}

\* jnl_check_sync looks for a record of the date of the totals and runs its
\* totals routine, whose name is in the record; drv:descrip is not.
Resincroniza ==
    IF pend # SinPend /\ pend.fecha = tots.fecha
    THEN TOTScommit(tots, pend, "no") ELSE tots

HacerApertura(t) ==
    \/ t.estado = "C"
    \/ t.fecha # dia
    \/ rend.marca = "X"
    \/ rend.marca = "no" /\ rend.fecha = 0
    \/ rend.fecha # t.fecha

APPLinit ==
    /\ est = "ident"
    /\ tots' = Resincroniza /\ pend' = SinPend
    /\ est' = IF HacerApertura(tots') THEN "abre" ELSE "opera"
    /\ UNCHANGED <<dia, rend, node, tran, tesorero, caja, casos, ops, caidas>>

-----------------------------------------------------------------------------
(* Opening of the day (PRETopen_day, JNLtran, TRANcall_efvo_ini).          *)

\* A plausible fault: an opening only looks at the marks of its own date.
SoloTotales == tots.estado \in {"O", "A"} /\ rend.fecha # 0

SinCerrar ==
    \/ tots.estado \in {"O", "A"} /\ rend.fecha # 0
    \/ rend.fecha \in 1 .. dia - 1 /\ rend.marca # "X"

YaCerrada == rend.fecha = dia /\ tots.estado = "C"

\* ESC leaves the application; another key goes on without the opening.
NoAbre ==
    /\ est = "abre"
    /\ \/ est' = "ident" /\ UNCHANGED casos
       \/ est' = "opera" /\ casos' = casos \cup {"sin_apertura"}
    /\ UNCHANGED <<dia, registros, tran, tesorero, caja, ops, caidas>>

PRETopen_day ==
    /\ est = "abre" /\ ~SinCerrar
    /\ tran' = IF YaCerrada THEN "REOPENCA" ELSE "OPENDAY"
    /\ casos' = IF YaCerrada THEN casos \cup {"reapertura"} ELSE casos
    /\ est' = "jnl"
    /\ UNCHANGED <<dia, registros, tesorero, caja, ops, caidas>>

\* After a forced close the teller declares the cash that is in the drawer.
CargaInicial == IF rend.tipo = "F" THEN caja ELSE rend.importe

TRANcall_efvo_ini ==
    /\ est = "carga" /\ tran' = "CARGA" /\ est' = "jnl"
    /\ UNCHANGED <<dia, registros, tesorero, caja, casos, ops, caidas>>

\* The treasurer's forced close keeps the record of the cash rendered locked.
RendLibre == tes \notin {"totales", "marca"}

CDSinit_rend_cajero ==
    /\ est = "rend"
    /\ IF RendLibre
       THEN /\ rend' = [fecha |-> dia, marca |-> "no", tipo |-> "no", importe |-> 0]
            /\ est' = "abierta"
       ELSE rend' = rend /\ est' = "opera"
    /\ UNCHANGED <<dia, tots, pend, node, tran, tesorero, caja, casos, ops, caidas>>

CDSinit_rend_tots ==
    /\ est = "abierta" /\ est' = "opera"
    /\ tots' = [tots EXCEPT !.estado = "O"]
    /\ UNCHANGED <<dia, rend, pend, node, tran, tesorero, caja, casos, ops, caidas>>

-----------------------------------------------------------------------------
(* JNLtran: the record is inserted, then it and the totals are updated in  *)
(* one unit of work.                                                       *)

Importe(t) == CASE t = "CARGA" -> CargaInicial [] t = "OP" -> 1 [] OTHER -> 0

JNLprelog_tran ==
    /\ est = "jnl" /\ est' = "confirma"
    /\ pend' = [tran |-> tran, fecha |-> dia, importe |-> Importe(tran)]
    /\ caja' = IF tran = "OP" THEN caja + 1 ELSE caja
    /\ UNCHANGED <<dia, tots, rend, node, tran, tesorero, casos, ops, caidas>>

Sigue ==
    [OPENDAY |-> "carga", REOPENCA |-> "rend", CARGA |-> "rend",
     CLOSEDAY |-> "ident", OP |-> "opera"]

JNLupdate_commit ==
    /\ est = "confirma"
    /\ tots' = TOTScommit(tots, pend, tran) /\ pend' = SinPend
    /\ est' = Sigue[tran]
    /\ UNCHANGED <<dia, rend, node, tran, tesorero, caja, casos, ops, caidas>>

-----------------------------------------------------------------------------
(* The day: transactions, close of the day, end of the session.            *)

PRETopen_req == ~(tots.estado = "C" /\ rend.marca = "X")

Opera ==
    /\ est = "opera" /\ PRETopen_req /\ ops < MaxOps
    /\ ops' = ops + 1 /\ tran' = "OP" /\ est' = "jnl"
    /\ UNCHANGED <<dia, registros, tesorero, caja, casos, caidas>>

\* A plausible fault: the initial cash is not rendered.
SinInicial ==
    /\ est = "opera" /\ PRETopen_req /\ RendLibre
    /\ rend' = [rend EXCEPT !.marca = "X", !.tipo = "N", !.importe = tots.efvo]
    /\ tran' = "CLOSEDAY" /\ est' = "jnl"
    /\ UNCHANGED <<dia, tots, pend, node, tesorero, caja, casos, ops, caidas>>

SENDclose_day ==
    /\ est = "opera" /\ PRETopen_req /\ RendLibre
    /\ rend' = [rend EXCEPT !.marca = "X", !.tipo = "N", !.importe = tots.inic + tots.efvo]
    /\ tran' = "CLOSEDAY" /\ est' = "jnl"
    /\ UNCHANGED <<dia, tots, pend, node, tesorero, caja, casos, ops, caidas>>

APPLterm ==
    /\ est = "opera" /\ est' = "ident"
    /\ UNCHANGED <<dia, registros, tran, tesorero, caja, casos, ops, caidas>>

TRANlog_out ==
    /\ est = "ident" /\ est' = "fuera" /\ node' = FALSE
    /\ UNCHANGED <<dia, tots, rend, pend, tran, tesorero, caja, casos, ops, caidas>>

-----------------------------------------------------------------------------
(* Forced close by the treasurer (MISCmarca_ciefor_caj), from another      *)
(* station, one action per record read or written.                         *)

VerificaOperador ==
    /\ tes = "libre" /\ ~node /\ tes' = "rend"
    /\ UNCHANGED <<dia, registros, est, tran, copia, caja, casos, ops, caidas>>

LeeRendicion ==
    /\ tes = "rend"
    /\ tes' = IF rend.marca = "X" \/ rend.fecha = 0 THEN "libre" ELSE "totales"
    /\ UNCHANGED <<dia, registros, est, tran, copia, caja, casos, ops, caidas>>

\* A plausible fault: the totals record is read without a lock.
SinLock == FALSE

TotalesOcupados == EnCaja

MarcaTotales ==
    /\ tes = "totales"
    /\ IF TotalesOcupados THEN UNCHANGED <<tots, copia, casos>> /\ tes' = "libre"
       ELSE /\ tots' = [tots EXCEPT !.estado = "C"]
            /\ copia' = tots.inic + tots.efvo
            /\ casos' = casos \cup {"forzado"}
            /\ tes' = "marca"
    /\ UNCHANGED <<dia, rend, pend, node, est, tran, caja, ops, caidas>>

MarcaRendicion ==
    /\ tes = "marca" /\ tes' = "libre" /\ copia' = 0
    /\ rend' = [rend EXCEPT !.marca = "X", !.tipo = "F", !.importe = copia]
    /\ UNCHANGED <<dia, tots, pend, node, est, tran, caja, casos, ops, caidas>>

-----------------------------------------------------------------------------
(* Crashes and the date.                                                   *)

CaeCajero ==
    /\ est # "fuera" /\ caidas < MaxCaidas /\ caidas' = caidas + 1
    /\ est' = "fuera"
    /\ UNCHANGED <<dia, registros, tran, tesorero, caja, casos, ops>>

CaeTesorero ==
    /\ tes # "libre" /\ caidas < MaxCaidas /\ caidas' = caidas + 1
    /\ tes' = "libre" /\ copia' = 0
    /\ UNCHANGED <<dia, registros, est, tran, caja, casos, ops>>

NuevoDia ==
    /\ dia < MaxDia /\ est = "fuera" /\ tes = "libre"
    /\ dia' = dia + 1
    /\ UNCHANGED <<registros, est, tran, tesorero, caja, casos, ops, caidas>>

Abre == PRETopen_day \/ NoAbre \/ TRANcall_efvo_ini \/ CDSinit_rend_cajero \/ CDSinit_rend_tots
Cajero ==
    \/ Identifica \/ APPLinit \/ Abre \/ JNLprelog_tran \/ JNLupdate_commit
    \/ Opera \/ SENDclose_day \/ APPLterm \/ TRANlog_out
Tesorero == VerificaOperador \/ LeeRendicion \/ MarcaTotales \/ MarcaRendicion

Next == Cajero \/ Tesorero \/ CaeCajero \/ CaeTesorero \/ NuevoDia

Spec == Init /\ [][Next]_vars

-----------------------------------------------------------------------------
TypeOK ==
    /\ dia \in 1 .. MaxDia /\ ops \in Montos /\ caja \in Montos /\ caidas \in 0 .. MaxCaidas
    /\ casos \subseteq Casos
    /\ tots \in [estado : {"A", "O", "C"}, fecha : Dias, efvo : Montos, inic : Montos]
    /\ rend \in [fecha : Dias, marca : {"no", "X"}, tipo : {"no", "N", "F"}, importe : Montos]
    /\ pend \in [tran : Trans, fecha : Dias, importe : Montos] /\ node \in BOOLEAN
    /\ est \in {"fuera", "ident", "abre", "jnl", "confirma", "carga", "rend", "abierta", "opera"}
    /\ tran \in Trans /\ tes \in {"libre", "rend", "totales", "marca"} /\ copia \in Montos

\* While the teller works in an open day the initial cash and the cash of the
\* day are what is in the drawer, whatever crashed in the opening, in the closes
\* and in the forced closes before it (TOTSopen_day, TRANcall_efvo_ini,
\* jnl_init_resync).  A crash inside a second opening of a date is left out: the
\* resync of the next start clears the totals (TOTSopen_day:59 reads drv:descrip).
SaldoConservado ==
    est = "opera" /\ tots.estado = "O" /\ casos \subseteq {"forzado"} =>
        tots.inic + tots.efvo = caja

\* With both marks of the close on and nobody writing them, the amount the
\* next day starts with is what is in the drawer (MISCrend_close_mark); the
\* records of the opening come after the marks.  A forced close can render cash
\* the teller still works with: MISCmarca_ciefor_caj:42 reads op_node_id once.
RendidoFiel ==
    (/\ rend.marca = "X" /\ tots.estado = "C" /\ est = "fuera" /\ tes = "libre"
     /\ pend = SinPend /\ casos = {}) => rend.importe = caja

\* The cash of a day is cleared only after it was rendered: the totals that an
\* opening clears are in rend_importe_vec (PRETopen_day 139, TOTSopen_day 58).
LimpiaRendido ==
    [][tots'.inic + tots'.efvo < tots.inic + tots.efvo /\ casos' = {}
           => rend.marca = "X" /\ rend.importe >= tots.inic + tots.efvo]_vars

\* The treasurer never marks the cash of a day the teller has open: the lock
\* of the totals record and that of the record rendered keep them apart.
ForzadoFuera == tes = "marca" => tots.estado = "C" /\ rend.marca = "no"

-----------------------------------------------------------------------------
(* What the records hold between any two writes.                           *)

Saldo == tots.inic + tots.efvo
En(lugares, t) == est \in lugares /\ tran = t
Escribiendo == {"jnl", "confirma"}

\* The locks of the totals and of the record rendered.
Candados ==
    /\ ~RendLibre => rend.marca = "no" /\ rend.fecha # 0
    /\ tes = "marca" => tots.estado = "C" /\ "forzado" \in casos /\ est # "abierta"
    /\ rend.tipo = "F" => "forzado" \in casos

\* Nothing is dated after today; a journal record waits for its unit of work only
\* in "confirma" or while nobody has started the application again.
Fechas ==
    /\ tots.fecha <= dia /\ rend.fecha <= dia
    /\ pend # SinPend => pend.fecha \in 1 .. dia
    /\ est = "confirma" => pend.tran = tran /\ pend.fecha = dia
    /\ EnCaja /\ est # "confirma" => pend = SinPend

\* No record has more than what is in the drawer.
NoSobra ==
    /\ caja <= ops /\ (En({"jnl"}, "OP") => caja < ops)
    /\ Saldo <= caja /\ rend.importe <= caja /\ copia <= caja
    /\ pend.tran = "OP" => Saldo + pend.importe <= caja
    /\ pend.tran = "CARGA" => Saldo = 0 /\ pend.importe <= caja
    /\ est = "carga" \/ En({"jnl"}, "CARGA") => Saldo = 0

\* No second opening and no work without one.
Sano == casos \subseteq {"forzado"}

\* The record an opening starts from: blank, or of a day that was closed.
Abrible ==
    \/ rend.fecha = 0
    \/ rend.fecha < dia /\ rend.marca = "X" /\ (rend.tipo = "F" \/ rend.importe = caja)

\* The record rendered: blank before the first opening; with its mark it has the
\* cash of the drawer, or the teller will be asked for it.
RendicionSana ==
    /\ rend.fecha = 0 => rend.marca = "no" /\ rend.importe = 0 /\ caja = 0
    /\ rend.marca = "X" => rend.tipo = "F" \/ rend.importe = caja

\* The totals: those of an open day are of the day of the record rendered and miss
\* at most the transaction that is between its two units of work.
TotalesSanos ==
    /\ tots.estado = "A" => rend.fecha = 0 /\ tots.fecha = 0
    /\ tots.estado = "O" =>
          /\ rend.fecha # 0 /\ rend.fecha = tots.fecha
          /\ pend.tran \in {"OP", "CLOSEDAY"}
          /\ Saldo + pend.importe = caja
          /\ pend # SinPend => pend.fecha = tots.fecha
    /\ pend.tran = "OPENDAY" => Abrible
    /\ pend.tran = "CLOSEDAY" => pend.importe = 0 /\ rend.marca = "X"
    /\ pend.tran # "REOPENCA"

\* Where the teller is in an opening, in the day or in its close.
PasoSano ==
    /\ est = "opera" \/ En(Escribiendo, "OP") =>
          tots.estado = "O" /\ tots.fecha = dia /\ rend.marca = "no"
    /\ En(Escribiendo, "CLOSEDAY") =>
          tots.estado = "O" /\ tots.fecha = dia /\ rend.marca = "X"
    /\ En(Escribiendo, "OPENDAY") \/ est \in {"carga", "rend"} \/ En(Escribiendo, "CARGA") =>
          Abrible
    /\ est \in {"carga", "rend", "abierta"} \/ En(Escribiendo, "CARGA") =>
          tots.estado = "C" /\ tots.fecha = dia
    /\ En(Escribiendo, "OPENDAY") => tots.estado # "O"
    /\ En({"confirma"}, "CARGA") => pend.importe = caja
    /\ est \in {"rend", "abierta"} => Saldo = caja
    /\ est = "abierta" => rend.fecha = dia /\ rend.marca = "no"
    /\ ~En(Escribiendo, "REOPENCA")
    /\ tes = "marca" => est \in {"fuera", "ident", "abre"}

\* The types, the two locks that keep the treasurer out of an open day, and what
\* the records say of the cash: the inductive invariant of the component.
CajaInv ==
    /\ TypeOK /\ ForzadoFuera /\ Candados /\ Fechas /\ NoSobra
    /\ Sano => RendicionSana /\ TotalesSanos /\ PasoSano

=============================================================================
