------------------------------ MODULE Reentry ------------------------------
(***************************************************************************)
(* Reentry: transactions journaled without line (UNPOSTED) are sent later, *)
(* by the teller that made them (JNLreentry_sel) or by a supervisor for    *)
(* the whole branch (JNLreentry_sel_all).  The entry of cash of a teller   *)
(* ("entrada") is sent only after the exit ("salida") of the other teller, *)
(* whose state is kept in the table of treasury movements.  Each action is *)
(* the code between two updates of a table or two messages.                *)
(***************************************************************************)
EXTENDS Estados, Integers, FiniteSets

CONSTANTS
    Cajeros,        \* tellers of the branch
    Sup,            \* the supervisor's station
    Procesos,       \* stations that run a reentry: tellers, and Sup or not
    MaxSeq,         \* bound: journal records of the day
    MaxCaidas,      \* bound: crashes of a station
    MaxCortes,      \* bound: times the line goes down again
    Interrumpe,     \* stations whose user can stop a reentry
    Faltan          \* TRUE: the movement an entry came from can be missing

ASSUME ProcesosAssumption ==
    Cajeros # {} /\ Sup \notin Cajeros /\ Procesos \subseteq Cajeros \cup {Sup}
ASSUME InterrumpeAssumption == Interrumpe \subseteq Procesos
ASSUME ReentryMaxAssumption ==
    MaxSeq \in Nat \ {0} /\ MaxCaidas \in Nat /\ MaxCortes \in Nat
ASSUME FaltanAssumption == Faltan \in BOOLEAN

Regs == 1 .. MaxSeq

VARIABLES
    jnl,      \* journal, in the order of its key
    tmov,     \* teso_mov_table, by the exit that made the movement; a blank mark is "no"
    tots,     \* what each record adds to the totals of its teller
    pc, cur, tran_status, mensaje, ent_sal_1, pendientes, reentry_reset,
    line, host, caidas, cortes,
    ajenos    \* history: records whose state the supervisor's reentry wrote

tablas == <<jnl, tmov, tots>>
estacion == <<pc, cur, tran_status, mensaje, ent_sal_1, pendientes, reentry_reset>>
vars == <<tablas, estacion, line, host, caidas, cortes, ajenos>>

Tipo == {"tran", "salida", "entrada"}
RegJnl == [st : {SinRegistro, UNPOSTED, HOST_ACCEPTED, HOST_REJECTED, RCV_RESET},
           tipo : Tipo, de : Cajeros, sal : 0 .. MaxSeq]
Mov == [status : {SinRegistro, UNPOSTED, HOST_ACCEPTED, HOST_REJECTED, RCV_RESET},
        marca : {"no", "I", "A"}]

Init ==
    /\ jnl = [s \in Regs |-> [st |-> SinRegistro, tipo |-> "tran",
                              de |-> CHOOSE c \in Cajeros : TRUE, sal |-> 0]]
    /\ tmov = [s \in Regs |-> [status |-> SinRegistro, marca |-> "no"]]
    /\ tots = [s \in Regs |-> 0]
    /\ pc = [p \in Procesos |-> "libre"] /\ cur = [p \in Procesos |-> 0]
    /\ tran_status = [p \in Procesos |-> SinRegistro]
    /\ mensaje = [p \in Procesos |-> FALSE] /\ ent_sal_1 = [p \in Procesos |-> 0]
    /\ pendientes = [p \in Procesos |-> 0] /\ reentry_reset = [p \in Procesos |-> FALSE]
    /\ line = FALSE /\ host = [s \in Regs |-> 0] /\ caidas = 0 /\ cortes = 0
    /\ ajenos = {}

-----------------------------------------------------------------------------
(* The day: transactions made without line, exits and entries of cash.     *)

Rechazada(st) == st >= HOST_REJECTED

\* Sequences of a teller grow; the journal's key may put two tellers in any order.
Libre(c, s) == \A t \in Regs : t >= s => jnl[t].st = SinRegistro \/ jnl[t].de # c

\* An entry is made from a movement of another teller, once; without the exit's
\* answer it is not sent, line or no line (SVALentrada).
PuedeEntrar(c, m) ==
    /\ jnl[m].tipo = "salida" /\ jnl[m].de # c
    /\ tmov[m].status \in {UNPOSTED, HOST_ACCEPTED} /\ tmov[m].marca = "no"
    /\ ~line \/ tmov[m].status = UNPOSTED

Alta(c, s, tipo, sal, st) ==
    /\ c \in Procesos => pc[c] = "libre"
    /\ jnl[s].st = SinRegistro /\ Libre(c, s)
    /\ jnl' = [jnl EXCEPT ![s] = [st |-> st, tipo |-> tipo, de |-> c, sal |-> sal]]
    /\ tots' = [tots EXCEPT ![s] = 1]
    /\ UNCHANGED <<estacion, line, caidas, cortes, ajenos>>

AltaTran(c, s) == ~line /\ Alta(c, s, "tran", 0, UNPOSTED) /\ UNCHANGED <<tmov, host>>

AltaSalida(c, s) ==
    LET st == IF line THEN HOST_ACCEPTED ELSE UNPOSTED
    IN /\ Alta(c, s, "salida", 0, st)
       /\ tmov' = [tmov EXCEPT ![s] = [status |-> st, marca |-> "no"]]
       /\ host' = [host EXCEPT ![s] = IF line THEN 1 ELSE 0]

AltaEntrada(c, s) ==
    /\ \E m \in Regs : /\ PuedeEntrar(c, m)
                       /\ Alta(c, s, "entrada", m, UNPOSTED)
                       /\ tmov' = [tmov EXCEPT ![m].marca = "I"]
    /\ UNCHANGED host

\* External: the movement an entry came from is not in the table any more.
AltaSinMov(c, s) ==
    /\ Faltan /\ ~line
    /\ Alta(c, s, "entrada", 0, UNPOSTED) /\ UNCHANGED <<tmov, host>>

\* External: the line.
CambiaLinea ==
    /\ line' = ~line
    /\ line => cortes < MaxCortes
    /\ cortes' = IF line THEN cortes + 1 ELSE cortes
    /\ UNCHANGED <<tablas, estacion, host, caidas, ajenos>>

-----------------------------------------------------------------------------
(* RENmisc_reentry.                                                        *)

\* JNLreentry_sel of a teller, JNLreentry_sel_all of the supervisor.
Seleccion(p) == {s \in Regs : jnl[s].st = UNPOSTED /\ (p = Sup \/ jnl[s].de = p)}

Primero(S) == CHOOSE s \in S : \A t \in S : s <= t

\* Mutant: the record is read without its lock.
SinLock(p, s) == FALSE

\* Another station holds the record, from its read to its update.
Bloqueado(p, s) == \E q \in Procesos \ {p} : pc[q] \in {"decide", "graba"} /\ cur[q] = s

\* errexit.
Fin(p) ==
    /\ pc' = [pc EXCEPT ![p] = "libre"] /\ cur' = [cur EXCEPT ![p] = 0]
    /\ mensaje' = [mensaje EXCEPT ![p] = FALSE]
    /\ tran_status' = [tran_status EXCEPT ![p] = SinRegistro]
    /\ ent_sal_1' = [ent_sal_1 EXCEPT ![p] = 0]
    /\ pendientes' = [pendientes EXCEPT ![p] = 0]
    /\ reentry_reset' = [reentry_reset EXCEPT ![p] = FALSE]

Toma(p, s) ==
    /\ pc' = [pc EXCEPT ![p] = "decide"] /\ cur' = [cur EXCEPT ![p] = s]
    /\ UNCHANGED <<tran_status, mensaje, ent_sal_1, pendientes, reentry_reset>>

\* TRANreentry (PRETreentry asks for the line) and RENmisc_cnt_pend.
TRANreentry(p) ==
    /\ pc[p] = "libre" /\ line /\ Seleccion(p) # {}
    /\ pc' = [pc EXCEPT ![p] = "primera"]
    /\ pendientes' = [pendientes EXCEPT ![p] = Cardinality(Seleccion(p))]
    /\ UNCHANGED <<tablas, cur, tran_status, mensaje, ent_sal_1, reentry_reset,
                   line, host, caidas, cortes, ajenos>>

\* The first record.
Primera(p) ==
    /\ pc[p] = "primera"
    /\ IF Seleccion(p) = {} \/ Bloqueado(p, Primero(Seleccion(p)))
       THEN Fin(p)
       ELSE Toma(p, Primero(Seleccion(p)))
    /\ UNCHANGED <<tablas, line, host, caidas, cortes, ajenos>>

\* leer_proximo: the selection is made again, from its first record, until it is
\* empty or is not larger than the number of skips.
Completa(p) ==
    /\ pc[p] = "lee"
    /\ LET S == Seleccion(p)
       IN \/ S = {}
          \/ /\ S # {} /\ ~Bloqueado(p, Primero(S))
             /\ ent_sal_1[p] # 0 /\ Cardinality(S) <= ent_sal_1[p]
    /\ Fin(p)
    /\ UNCHANGED <<tablas, line, host, caidas, cortes, ajenos>>

LeerProximo(p) ==
    /\ pc[p] = "lee" /\ Seleccion(p) # {}
    /\ LET S == Seleccion(p)
       IN IF Bloqueado(p, Primero(S)) THEN Fin(p)
          ELSE /\ ent_sal_1[p] # 0 => Cardinality(S) > ent_sal_1[p]
               /\ Toma(p, Primero(S))
    /\ UNCHANGED <<tablas, line, host, caidas, cortes, ajenos>>

EsEntrada(s) == jnl[s].tipo = "entrada"

\* send_reentry gives up: the teller asked to stop, or the movement is missing.
Abandona(p) ==
    /\ pc[p] = "decide"
    /\ reentry_reset[p] \/ (EsEntrada(cur[p]) /\ jnl[cur[p]].sal = 0)
    /\ Fin(p)
    /\ UNCHANGED <<tablas, line, host, caidas, cortes, ajenos>>

\* CDSent_status_teso: state of the exit the entry came from.
Salida(s) == tmov[jnl[s].sal].status

\* Mutants: an entry does not wait for its exit; a skip is not counted; a skip is
\* taken off the pending ones.
NoEspera(s) == FALSE
NoCuenta(n) == n
UnaMenos(n) == n - 1

SinSalida(s) == EsEntrada(s) /\ Salida(s) = UNPOSTED
Salteada(n) == n + 1
TrasSaltear(n) == n

\* The exit is not sent yet: on to the next record, if there is one.
Saltea(p) ==
    /\ pc[p] = "decide" /\ ~reentry_reset[p]
    /\ EsEntrada(cur[p]) => jnl[cur[p]].sal # 0
    /\ SinSalida(cur[p])
    /\ ent_sal_1' = [ent_sal_1 EXCEPT ![p] = Salteada(@)]
    /\ pendientes' = [pendientes EXCEPT ![p] = TrasSaltear(@)]
    /\ LET S == {t \in Seleccion(p) : t > cur[p]}
       IN IF S # {} /\ ~Bloqueado(p, Primero(S))
          THEN cur' = [cur EXCEPT ![p] = Primero(S)] /\ UNCHANGED pc
          ELSE pc' = [pc EXCEPT ![p] = "lee"] /\ cur' = [cur EXCEPT ![p] = 0]
    /\ UNCHANGED <<tablas, tran_status, mensaje, reentry_reset, line, host,
                   caidas, cortes, ajenos>>

PorGrabar(p, st, rech) ==
    /\ pc' = [pc EXCEPT ![p] = "graba"]
    /\ tran_status' = [tran_status EXCEPT ![p] = st]
    /\ mensaje' = [mensaje EXCEPT ![p] = rech]
    /\ UNCHANGED <<tablas, cur, ent_sal_1, pendientes, reentry_reset, line,
                   caidas, cortes, ajenos>>

\* "SALIDA RECHAZADA": the entry is rejected without a message.
RechazaEntrada(p) ==
    /\ pc[p] = "decide" /\ ~reentry_reset[p]
    /\ EsEntrada(cur[p]) /\ jnl[cur[p]].sal # 0 /\ Rechazada(Salida(cur[p]))
    /\ PorGrabar(p, HOST_REJECTED, TRUE) /\ UNCHANGED host

SeEnvia(p) ==
    /\ pc[p] = "decide" /\ ~reentry_reset[p]
    /\ EsEntrada(cur[p]) => /\ jnl[cur[p]].sal # 0
                            /\ ~SinSalida(cur[p]) /\ ~Rechazada(Salida(cur[p]))

\* COMM_host_tran: an answer, or a fall, with the transaction applied or not.
COMM_host_tran(p) ==
    /\ SeEnvia(p) /\ line
    /\ \E r \in {<<HOST_ACCEPTED, 1>>, <<HOST_REJECTED, 0>>, <<RCV_RESET, 0>>,
                 <<RCV_RESET, 1>>} :
          /\ PorGrabar(p, r[1], FALSE)
          /\ host' = [host EXCEPT ![cur[p]] = @ + r[2]]

\* No line any more: the state stays UNPOSTED ("ERRno_host").
SinLinea(p) ==
    /\ SeEnvia(p) /\ ~line
    /\ Fin(p)
    /\ UNCHANGED <<tablas, line, host, caidas, cortes, ajenos>>

\* JNLreentry_upd: the journal record, which also frees it.
JNLreentry_upd(p) ==
    /\ pc[p] = "graba"
    /\ jnl' = [jnl EXCEPT ![cur[p]].st = tran_status[p]]
    /\ pc' = [pc EXCEPT ![p] = IF p # Sup /\ Rechazada(tran_status[p]) THEN "reversa"
                               ELSE "tesoro"]
    /\ ajenos' = IF p = Sup THEN ajenos \cup {cur[p]} ELSE ajenos
    /\ UNCHANGED <<tmov, tots, cur, tran_status, mensaje, ent_sal_1, pendientes,
                   reentry_reset, line, host, caidas, cortes>>

Reversada(s) == tots[s] - 1

\* The rest of JNLreentry_upd, for the teller's own records: TOTScommit of the
\* rejected transaction, in a unit of work of its own.
JNLreentry_upd_tots(p) ==
    /\ pc[p] = "reversa"
    /\ tots' = [tots EXCEPT ![cur[p]] = Reversada(cur[p])]
    /\ pc' = [pc EXCEPT ![p] = "tesoro"]
    /\ UNCHANGED <<jnl, tmov, cur, tran_status, mensaje, ent_sal_1, pendientes,
                   reentry_reset, line, host, caidas, cortes, ajenos>>

\* CDSsal_status_teso: the movement takes the state of its exit.
CDSsal_status_teso(m, st) ==
    [status |-> st, marca |-> IF Rechazada(st) THEN "A" ELSE m.marca]

\* Mutant: the movement of a rejected entry stays taken.
SigueIngresado(m) == m

\* CDSstatus_teso_mov of a blank: the movement can be entered again.
CDSstatus_teso_mov(m) == [m EXCEPT !.marca = "no"]

\* Treasury and counters, and on to leer_proximo.
Tesoro(p) ==
    LET s == cur[p]
        st == tran_status[p]
    IN /\ pc[p] = "tesoro"
       /\ tmov' = CASE jnl[s].tipo = "salida" ->
                         [tmov EXCEPT ![s] = CDSsal_status_teso(@, st)]
                    [] EsEntrada(s) /\ Rechazada(st) /\ ~mensaje[p] ->
                         [tmov EXCEPT ![jnl[s].sal] = CDSstatus_teso_mov(@)]
                    [] OTHER -> tmov
       /\ pendientes' = [pendientes EXCEPT ![p] = @ - 1]
       /\ pc' = [pc EXCEPT ![p] = "lee"] /\ cur' = [cur EXCEPT ![p] = 0]
       /\ tran_status' = [tran_status EXCEPT ![p] = SinRegistro]
       /\ mensaje' = [mensaje EXCEPT ![p] = FALSE]
       /\ UNCHANGED <<jnl, tots, ent_sal_1, reentry_reset, line, host, caidas,
                      cortes, ajenos>>

\* RENtran_reset: the teller asks the reentry to stop.
RENtran_reset(p) ==
    /\ p \in Interrumpe /\ pc[p] # "libre" /\ ~reentry_reset[p]
    /\ reentry_reset' = [reentry_reset EXCEPT ![p] = TRUE]
    /\ UNCHANGED <<tablas, pc, cur, tran_status, mensaje, ent_sal_1, pendientes,
                   line, host, caidas, cortes, ajenos>>

\* The station crashes; what it did to the tables stays.
Cae(p) ==
    /\ pc[p] # "libre" /\ caidas < MaxCaidas /\ caidas' = caidas + 1
    /\ Fin(p) /\ UNCHANGED <<tablas, line, host, cortes, ajenos>>

Paso(p) ==
    \/ Primera(p) \/ Completa(p) \/ LeerProximo(p) \/ Abandona(p) \/ Saltea(p)
    \/ RechazaEntrada(p) \/ COMM_host_tran(p) \/ SinLinea(p) \/ JNLreentry_upd(p)
    \/ JNLreentry_upd_tots(p) \/ Tesoro(p)

Next ==
    \/ \E c \in Cajeros, s \in Regs :
          AltaTran(c, s) \/ AltaSalida(c, s) \/ AltaEntrada(c, s) \/ AltaSinMov(c, s)
    \/ CambiaLinea
    \/ \E p \in Procesos :
          TRANreentry(p) \/ Paso(p) \/ RENtran_reset(p) \/ Cae(p)

Spec == Init /\ [][Next]_vars

\* The program of each station goes on by itself until its reentry ends.
FairSpec == Spec /\ \A p \in Procesos : WF_vars(Paso(p))
-----------------------------------------------------------------------------
TypeOK ==
    /\ jnl \in [Regs -> RegJnl] /\ tmov \in [Regs -> Mov] /\ tots \in [Regs -> 0 .. 1]
    /\ pc \in [Procesos -> {"libre", "primera", "lee", "decide", "graba", "reversa",
                            "tesoro"}]
    /\ cur \in [Procesos -> 0 .. MaxSeq] /\ mensaje \in [Procesos -> BOOLEAN]
    /\ tran_status \in [Procesos -> {SinRegistro, HOST_ACCEPTED, HOST_REJECTED, RCV_RESET}]
    /\ ent_sal_1 \in [Procesos -> Nat] /\ pendientes \in [Procesos -> -MaxSeq .. MaxSeq]
    /\ reentry_reset \in [Procesos -> BOOLEAN]
    /\ line \in BOOLEAN /\ host \in [Regs -> Nat]
    /\ caidas \in 0 .. MaxCaidas /\ cortes \in 0 .. MaxCortes
    /\ ajenos \subseteq Regs

\* The teller's own reentry and the supervisor's never send one record twice: only
\* a crash between the answer and the update of the journal can repeat one.
UnaVez == \A s \in Regs : host[s] <= 1 + caidas

\* An entry of cash is applied by the host only if the exit it came from was accepted.
EntradaTrasSalida ==
    \A s \in Regs : EsEntrada(s) /\ jnl[s].sal # 0 /\ host[s] > 0 =>
                        jnl[jnl[s].sal].st = HOST_ACCEPTED

EnCurso(s) == \E p \in Procesos : cur[p] = s /\ pc[p] \in {"reversa", "tesoro"}

\* The totals of a teller count the records of its journal but the rejected ones, as
\* long as no station crashed inside a reentry; those the supervisor's reentry got
\* rejected are the exception, since it leaves the totals of the teller alone.
TotalesConcuerdan ==
    caidas = 0 =>
        \A s \in Regs \ ajenos : jnl[s].st # SinRegistro /\ ~EnCurso(s) =>
            tots[s] = IF Rechazada(jnl[s].st) THEN 0 ELSE 1

EntradasDe(m) == {e \in Regs : EsEntrada(e) /\ jnl[e].sal = m}

\* The treasury movement agrees with the journal of both tellers: it has the state of
\* its exit, and it is taken exactly when one entry of it was not rejected, as long
\* as no station crashed between the update of the journal and that of the movement.
MovimientoConcuerda ==
    caidas = 0 => \A m \in Regs :
        /\ jnl[m].tipo = "salida" /\ jnl[m].st # SinRegistro
        /\ ~EnCurso(m) /\ \A e \in EntradasDe(m) : ~EnCurso(e)
        => LET vivas == {e \in EntradasDe(m) : ~Rechazada(jnl[e].st)}
           IN /\ tmov[m].status = jnl[m].st
              /\ Cardinality(vivas) <= 1
              /\ IF Rechazada(jnl[m].st) THEN tmov[m].marca = "A"
                 ELSE tmov[m].marca = IF vivas = {} THEN "no" ELSE "I"

\* Journal, totals and treasury tell the same story of every record, whichever
\* station sent it again and whatever the host answered.
ReenvioInv == TypeOK /\ TotalesConcuerdan /\ MovimientoConcuerda

\* A reentry of a teller that ends with its counter of pending records at 0, which
\* clears the request of a reentry (RENmisc_clear_req), leaves none of its records.
PedidoSeLimpia ==
    [][\A p \in Procesos \ {Sup} :
          pc[p] # "libre" /\ pc'[p] = "libre" /\ pendientes[p] = 0 => Seleccion(p) = {}]_vars

\* A reentry ends, although every pass begins again with the entries it skipped.
ReentryTermina == \A p \in Procesos : pc[p] # "libre" ~> pc[p] = "libre"

=============================================================================
