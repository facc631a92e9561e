--------------------------- MODULE CaidasEnVuelo ---------------------------
(***************************************************************************)
(* One operator of a branch, the transactions it sends to the host, and    *)
(* the recovery of those whose answer never came ("caidas en vuelo").      *)
(*                                                                         *)
(* JNLtran journals a transaction (prelog), sends it, and closes journal   *)
(* and totals in one unit of work.  When no answer comes the transaction   *)
(* is backed out, and a row of jnl_caidas asks for a cancellation (a 400   *)
(* message) to be sent later, by the operator itself before its next       *)
(* transaction or by the RT batch of the branch.  Rows are marked 98 or 99 *)
(* while one of them works.  Each action is the code between two points    *)
(* where another process can run: a commit to the data base or a wait.     *)
(***************************************************************************)
EXTENDS Estados, FiniteSets

CONSTANTS
    MaxSeq,        \* bound: journal sequence numbers of the day
    MaxCaidas,     \* bound: crashes of the teller and of the RT batch
    QuienCae,      \* the processes that can crash
    Familias,      \* bound: families of the transactions the teller begins
    FallosLinea,   \* states a line event can leave during a wait
    ModoRT,        \* "no": no RT batch, "serie": between transactions, "libre"
    PosibleOff,    \* values of the flag posible_off a fallen transaction can have
    RespTardias    \* TRUE: an answer can arrive during a later wait

ASSUME MaxSeqAssumption == MaxSeq \in Nat \ {0}
ASSUME MaxCaidasAssumption == MaxCaidas \in Nat
ASSUME FamiliasAssumption == Familias \subseteq {"local", "normal", "operador"}
ASSUME FallosAssumption ==
    FallosLinea \subseteq {HOST_RCV_DOWN, SESSION_LOST, HOST_COMMSRVR_DOWN}
ASSUME CaeAssumption == QuienCae \subseteq {"op", "rt"}
ASSUME OffAssumption == PosibleOff \subseteq BOOLEAN
ASSUME ModoAssumption == ModoRT \in {"no", "serie", "libre"}
ASSUME TardiasAssumption == RespTardias \in BOOLEAN

Seq1 == 1 .. MaxSeq
Quien == {"op", "rt"}

VARIABLES
    \* the data base of the branch
    jnl,        \* journal, by sequence number
    cai,        \* jnl_caidas, by sequence number of the fallen transaction
    tots,       \* totals of the operator: last sequence, times each one counted
    \* the teller's process
    pc, cur, sequence, tran_status, sndrt, cancel, fila, orig, rev, cod,
    \* the RT batch
    rpc, rfila, rorig, rstatus, rcod,
    \* the link, the host and the messages between them
    line, host, net, ans,
    crashes

tablas  == <<jnl, cai, tots>>
cajero  == <<pc, cur, sequence, tran_status, sndrt, cancel, fila, orig, rev, cod>>
rtbatch == <<rpc, rfila, rorig, rstatus, rcod>>
red     == <<line, host, net, ans>>
vars    == <<tablas, cajero, rtbatch, red, crashes>>

RegJnl == [st : Estado, viaja : BOOLEAN, solo : BOOLEAN, rev : BOOLEAN,
           corr : 0 .. MaxSeq]
RegCai == [st : Estado, solo : BOOLEAN]
NoJnl == [st |-> SinRegistro, viaja |-> FALSE, solo |-> FALSE, rev |-> FALSE,
          corr |-> 0]
NoCai == [st |-> SinRegistro, solo |-> FALSE]

EstadoHost == {"nada", "aplicada", "rechazada", "anulada", "retenida"}
Pedido == [tipo : {"200", "400"}, seq : Seq1, de : Quien]
Codigo == {"00", "05", "09", "95", "98"}
Respuesta == [tipo : {"200", "400"}, seq : Seq1, a : Quien, cod : Codigo]

Ultimo == IF \A s \in Seq1 : jnl[s].st = SinRegistro THEN 0
          ELSE CHOOSE s \in Seq1 : /\ jnl[s].st # SinRegistro
                                   /\ \A t \in Seq1 : t > s => jnl[t].st = SinRegistro

Pendientes == {s \in Seq1 : EnVuelo(cai[s].st)}
Tomadas99  == {s \in Seq1 : cai[s].st = TomadaBatch}

Mensaje(tipo, s, quien) == [tipo |-> tipo, seq |-> s, de |-> quien]

-----------------------------------------------------------------------------
Init ==
    /\ jnl = [s \in Seq1 |-> NoJnl]
    /\ cai = [s \in Seq1 |-> NoCai]
    /\ tots = [seq |-> 0, suma |-> [s \in Seq1 |-> 0]]
    /\ pc = "libre" /\ cur = 0 /\ sequence = 0 /\ tran_status = SinRegistro
    /\ sndrt = FALSE /\ cancel = FALSE /\ fila = 0 /\ orig = SinRegistro
    /\ rev = 0 /\ cod = "00"
    /\ rpc = "duerme" /\ rfila = 0 /\ rorig = SinRegistro
    /\ rstatus = SinRegistro /\ rcod = "00"
    /\ line = TRUE /\ host = [s \in Seq1 |-> "nada"] /\ net = {} /\ ans = {}
    /\ crashes = 0

\* Fields nobody reads again before they are written are cleared when their use
\* ends, so that states that differ only in them are one.
LimpiaReverso == orig' = SinRegistro /\ rev' = 0 /\ cod' = "00"
LimpiaLote == rorig' = SinRegistro /\ rstatus' = SinRegistro /\ rcod' = "00"

-----------------------------------------------------------------------------
(* The teller: a transaction from its prelog to its close.                 *)

\* Sequence numbers the recovery of today's falls could still need.
Reserva == Cardinality({s \in Seq1 : cai[s].st # SinRegistro
                                     /\ ~Definitivo(cai[s].st)})

\* The family of a transaction: what it does with the host and who may recover it.
Familia(viaja, solo) ==
    IF ~viaja THEN "local" ELSE IF solo THEN "operador" ELSE "normal"

\* JNLtran, JNLprelog_tran, jnl_header: the first copy of the journal record.
\* viaja: the transaction has a send routine; solo: only the operator recovers it.
JNLprelog_tran(viaja, solo) ==
    /\ pc = "libre" /\ Familia(viaja, solo) \in Familias
    /\ ModoRT = "serie" => rpc = "duerme"
    /\ sequence + 1 + Reserva <= MaxSeq
    /\ sequence' = sequence + 1
    /\ cur' = sequence'
    /\ jnl' = [jnl EXCEPT ![sequence'] =
                  [st |-> MEMO, viaja |-> viaja, solo |-> solo, rev |-> FALSE,
                   corr |-> 0]]
    /\ sndrt' = viaja
    /\ pc' = "stat_init"
    /\ UNCHANGED <<cai, tots, tran_status, cancel, fila, orig, rev, cod,
                   rtbatch, red, crashes>>

\* COMM_stat_init, for the families that wait for the line before giving up.
EstadoInicial(con_envio) ==
    IF ~con_envio THEN MEMO ELSE IF line THEN SEND_RESET ELSE SEND_ERROR

COMM_stat_init ==
    /\ pc = "stat_init"
    /\ tran_status' = EstadoInicial(sndrt)
    /\ pc' = IF sndrt THEN "chk" ELSE "host_tran"
    /\ UNCHANGED <<tablas, cur, sequence, sndrt, cancel, fila, orig, rev, cod,
                   rtbatch, red, crashes>>

\* CDSchk_trxs_caidas: no row of the operator is with the RT batch.
CDSchk_trxs_caidas ==
    /\ pc = "chk" /\ Tomadas99 = {}
    /\ IF Pendientes # {} /\ line
       THEN pc' = "rec" /\ fila' = MaxSeq + 1
       ELSE pc' = "host_tran" /\ fila' = fila
    /\ UNCHANGED <<tablas, cur, sequence, tran_status, sndrt, cancel, orig, rev,
                   cod, rtbatch, red, crashes>>

\* The row locks of the data base: the record a process is working on.
FilaDeOp(s) == pc \in {"rev", "revenv", "revesp", "revfin", "revrow"} /\ fila = s
FilaDeRT(s) == rpc \in {"match", "env", "espera", "act", "fila"} /\ rfila = s

RechazaTrx ==
    /\ pc = "chk"
    /\ tran_status' = SEND_ERROR /\ sndrt' = FALSE
    /\ pc' = "host_tran"
    /\ UNCHANGED <<tablas, cur, sequence, cancel, fila, orig, rev, cod,
                   rtbatch, red, crashes>>

\* Mutant: the time of the wait for a 99 does not run, only the batch ends it.
RecuperacionesSinPlazo == pc = "chk" /\ Tomadas99 # {} /\ UNCHANGED vars

\* MISCesp_desb_99 gave up waiting for the RT batch: the transaction is refused.
RecuperacionesPendientes == Tomadas99 # {} /\ RechazaTrx

\* MISCesp_desb_99: a row taken more than FREE_LOCKED_REG_TIME ago, which its RT
\* batch no longer works on, is freed.
LiberaAbandonada(s) ==
    /\ pc = "chk" /\ s \in Tomadas99 /\ ~FilaDeRT(s)
    /\ cai' = [cai EXCEPT ![s].st = LiberadaPorEspera]
    /\ UNCHANGED <<jnl, tots, cajero, rtbatch, red, crashes>>

\* COMM_send for the current transaction, when there is something to send.
COMM_send ==
    /\ pc = "host_tran"
    /\ IF tran_status \in {MEMO, UNPOSTED, SEND_ERROR} \/ ~sndrt
       THEN pc' = "exit_loop" /\ UNCHANGED <<tran_status, net>>
       ELSE \/ pc' = "exit_loop" /\ tran_status' = SEND_ERROR /\ net' = net
            \/ /\ pc' = "espera" /\ tran_status' = RCV_RESET
               /\ net' = net \union {Mensaje("200", cur, "op")}
    /\ UNCHANGED <<tablas, cur, sequence, sndrt, cancel, fila, orig, rev, cod,
                   rtbatch, line, host, ans, crashes>>

-----------------------------------------------------------------------------
(* The wait of COMM_rcv, for the current transaction and for a reversal.   *)

Espera == pc \in {"espera", "revesp"}
Pedida == IF pc = "espera" THEN [tipo |-> "200", seq |-> cur]
                           ELSE [tipo |-> "400", seq |-> fila]

\* Mutant: a wait begins again while the line is down.
ReintentaSinLinea == pc' = IF ~line THEN pc ELSE IF pc = "espera" THEN "exit_loop" ELSE "revfin"

FinEspera == pc' = IF pc = "espera" THEN "exit_loop" ELSE "revfin"

\* Who will take an answer that arrives now.  The operator's wait takes any answer
\* of its session: nothing in RCVEhdr_giros compares it with what was sent.
\* RespTardias = FALSE assumes that the line holds none back for a later wait.
Atendida(r) ==
    \/ r.a = "op" /\ RespTardias
    \/ r.a = "op" /\ Espera /\ r.tipo = Pedida.tipo /\ r.seq = Pedida.seq
    \/ r.a = "rt" /\ rpc = "espera" /\ r.seq = rfila

\* The answers left when a wait of quien ends.
Quedan(quien) == IF RespTardias /\ quien = "op" THEN ans ELSE {r \in ans : r.a # quien}

Veredicto(c) == IF c = "00" THEN HOST_ACCEPTED ELSE HOST_REJECTED

\* COMM_rcv_event with data: RCVEhdr_giros takes the answer code.
COMM_rcv_event(m) ==
    /\ Espera /\ m.a = "op"
    /\ tran_status' = Veredicto(m.cod) /\ cod' = m.cod
    /\ ans' = ans \ {m}
    /\ FinEspera
    /\ UNCHANGED <<tablas, cur, sequence, sndrt, cancel, fila, orig, rev, rtbatch,
                   line, host, net, crashes>>

\* COMM_rcv: TIMED_OUT or RESET_OUT, the status stays RCV_RESET.
SinRespuesta ==
    /\ Espera /\ FinEspera /\ ans' = Quedan("op")
    /\ UNCHANGED <<tablas, cur, sequence, tran_status, sndrt, cancel, fila, orig,
                   rev, cod, rtbatch, line, host, net, crashes>>

\* COMM_rcv_event with CS_ERROR.
ErrorComm ==
    /\ Espera /\ FinEspera /\ tran_status' = SEND_ERROR /\ ans' = Quedan("op")
    /\ UNCHANGED <<tablas, cur, sequence, sndrt, cancel, fila, orig, rev, cod,
                   rtbatch, line, host, net, crashes>>

\* COMM_hoststat_update when the session goes down; COMM_rcv_event also ends a wait.
LineaCae ==
    /\ line /\ line' = FALSE
    /\ IF Espera THEN FinEspera /\ tran_status' \in FallosLinea /\ ans' = Quedan("op")
                 ELSE UNCHANGED <<pc, tran_status, ans>>
    /\ UNCHANGED <<tablas, cur, sequence, sndrt, cancel, fila, orig, rev, cod,
                   rtbatch, host, net, crashes>>

\* COMM_hoststat_update on CS_UP.
LineaSube ==
    /\ ~line /\ line' = TRUE
    /\ UNCHANGED <<tablas, cajero, rtbatch, host, net, ans, crashes>>

-----------------------------------------------------------------------------
(* The end of a transaction.                                               *)

\* Mutant: the bound of a fall is too high, a lost answer makes no row.
EsCaidaTarde(st) == st > RCV_RESET

EsCaida(st) == st > HOST_REJECTED

\* CDSop_marca_cien, CDSgen_jnl_caidas: the row that asks for the recovery.
\* The operator's table, read back, also restores the cancel flag.
CDSop_marca_cien ==
    /\ pc = "exit_loop"
    /\ cai' = IF EsCaida(tran_status) /\ ~cancel
              THEN [cai EXCEPT ![cur] = [st |-> tran_status, solo |-> jnl[cur].solo]]
              ELSE cai
    /\ cancel' = FALSE
    /\ pc' = "seguir" /\ LimpiaReverso
    /\ UNCHANGED <<jnl, tots, cur, sequence, tran_status, sndrt, fila, rtbatch, red,
                   crashes>>

\* JNLupdate_commit below 100, JNLupdate_backout from 100 on: the journal and the
\* totals, with their last sequence, change in one unit of work.
CierraTrx(ultima) ==
    /\ pc = "seguir"
    /\ jnl' = [jnl EXCEPT ![cur].st = tran_status]
    /\ tots' = [seq |-> ultima,
                suma |-> IF tran_status < HOST_REJECTED
                         THEN [tots.suma EXCEPT ![cur] = @ + 1] ELSE tots.suma]
    /\ tran_status' = SinRegistro /\ sndrt' = FALSE /\ cur' = 0
    /\ pc' = "libre"
    /\ UNCHANGED <<cai, sequence, cancel, fila, orig, rev, cod, rtbatch, red, crashes>>

\* Mutant: the totals note the transaction's sequence, not the last one given.
CierraConCur == CierraTrx(cur)

Cierra == CierraTrx(sequence)

-----------------------------------------------------------------------------
(* CDSjnl_mayor_cien: the operator recovers its rows, last one first.      *)

PorRecuperar == {s \in Pendientes : s < fila}

\* Next row: it is marked 98, and the status its journal record has is kept.
TomaFila(s) ==
    /\ pc = "rec" /\ s \in PorRecuperar /\ \A t \in PorRecuperar : t <= s
    /\ cai' = IF cai[s].solo THEN cai
              ELSE [cai EXCEPT ![s].st = TomadaOperador]
    /\ fila' = s /\ orig' = jnl[s].st
    /\ pc' = "rev"
    /\ UNCHANGED <<jnl, tots, cur, sequence, tran_status, sndrt, cancel, rev, cod,
                   rtbatch, red, crashes>>

FinRecuperacion ==
    /\ pc = "rec" /\ PorRecuperar = {}
    /\ pc' = "host_tran" /\ fila' = 0
    /\ UNCHANGED <<tablas, cur, sequence, tran_status, sndrt, cancel, orig, rev,
                   cod, rtbatch, red, crashes>>

\* MISCjnl_reverso_auto: the reversal is journaled as rejected before it is sent.
MISCjnl_reverso_auto ==
    /\ pc = "rev" /\ sequence < MaxSeq
    /\ sequence' = sequence + 1 /\ rev' = sequence'
    /\ jnl' = [jnl EXCEPT ![rev'] = [st |-> HOST_REJECTED, viaja |-> TRUE,
                                     solo |-> FALSE, rev |-> TRUE, corr |-> fila]]
    /\ cancel' = TRUE
    /\ pc' = "revenv"
    /\ UNCHANGED <<cai, tots, cur, tran_status, sndrt, fila, orig, cod, rtbatch,
                   red, crashes>>

\* analiza_tran without line and without posible_off: back with -2, which
\* CDSjnl_mayor_cien takes for an outcome and writes in the row.
AnalizaSinLinea ==
    /\ pc = "revenv" /\ ~line /\ FALSE \in PosibleOff
    /\ tran_status' = SEND_ERROR
    /\ cai' = [cai EXCEPT ![fila].st = SEND_ERROR]
    /\ pc' = "rec" /\ LimpiaReverso
    /\ UNCHANGED <<jnl, tots, cur, sequence, sndrt, cancel, fila, rtbatch, red,
                   crashes>>

\* analiza_tran: COMM_stat_init and COMM_send of the 400.
EnviaReverso ==
    /\ pc = "revenv"
    /\ \/ /\ ~line /\ TRUE \in PosibleOff
          /\ pc' = "revfin" /\ tran_status' = SEND_ERROR /\ net' = net
       \/ /\ line
          /\ pc' = "revfin" /\ tran_status' = SEND_ERROR /\ net' = net
       \/ /\ line
          /\ pc' = "revesp" /\ tran_status' = RCV_RESET
          /\ net' = net \union {Mensaje("400", fila, "op")}
    /\ UNCHANGED <<tablas, cur, sequence, sndrt, cancel, fila, orig, rev, cod,
                   rtbatch, line, host, ans, crashes>>

\* Mutant: every refusal of a 400 is taken for a cancellation done before.
ReversoSiempreHecho(st, c) == IF st = HOST_REJECTED THEN HOST_ACCEPTED ELSE st

\* What the answer to a 400 makes of the journal: "98" is a cancellation done before.
EstadoReverso(st, c) == IF st = HOST_REJECTED /\ c = "98" THEN HOST_ACCEPTED ELSE st

\* MISCupdate_reverso, MISCjnl_corregida when the outcome is known.
MISCjnl_corregida ==
    /\ pc = "revfin" /\ tran_status <= HOST_REJECTED
    /\ jnl' = [jnl EXCEPT ![rev].st = EstadoReverso(tran_status, cod),
                          ![fila].st = EstadoReverso(tran_status, cod),
                          ![fila].corr = rev]
    /\ cancel' = FALSE
    /\ pc' = "revrow"
    /\ UNCHANGED <<cai, tots, cur, sequence, tran_status, sndrt, fila, orig, rev,
                   cod, rtbatch, red, crashes>>

\* CDSjnl_mayor_cien: the row takes the outcome and the next one follows.
CierraFila ==
    /\ pc = "revrow"
    /\ cai' = [cai EXCEPT ![fila].st = tran_status]
    /\ pc' = "rec" /\ LimpiaReverso
    /\ UNCHANGED <<jnl, tots, cur, sequence, tran_status, sndrt, cancel, fila,
                   rtbatch, red, crashes>>

\* The reversal fell too: the row gets a status back, the recovery stops and the
\* current transaction is refused without being sent.
FinReversoCaido(st) ==
    /\ pc = "revfin" /\ tran_status > HOST_REJECTED
    /\ cai' = [cai EXCEPT ![fila].st = st]
    /\ tran_status' = HOST_REJECTED /\ sndrt' = FALSE /\ cancel' = FALSE
    /\ pc' = "host_tran" /\ fila' = 0 /\ LimpiaReverso
    /\ UNCHANGED <<jnl, tots, cur, sequence, rtbatch, red, crashes>>

\* Mutants: the row takes the status of the fallen reversal, or is closed.
CaidaConEstadoReverso == FinReversoCaido(tran_status)
CaidaCierraFila == FinReversoCaido(HOST_REJECTED)

\* CDSjnl_mayor_cien: the status of the journal.
CaidaEnReverso == FinReversoCaido(orig)

-----------------------------------------------------------------------------
(* Crash of the teller's process and its next login.                       *)

Cae ==
    /\ "op" \in QuienCae /\ crashes < MaxCaidas /\ pc # "fuera"
    /\ crashes' = crashes + 1
    /\ pc' = "fuera" /\ cur' = 0 /\ sequence' = 0 /\ tran_status' = SinRegistro
    /\ sndrt' = FALSE /\ cancel' = FALSE /\ fila' = 0 /\ LimpiaReverso
    /\ ans' = {r \in ans : r.a # "op"}
    /\ UNCHANGED <<tablas, rtbatch, line, host, net>>

\* CDSupd_jnl_caidas: the rows taken get back the status of the journal.
Suelta(S) ==
    cai' = [s \in Seq1 |-> IF s \in S /\ jnl[s].st # SinRegistro
                           THEN [cai[s] EXCEPT !.st = jnl[s].st]
                           ELSE cai[s]]

\* Mutant: the login frees the rows of the batch and not its operator's.
LiberaLogin99 == Suelta(Tomadas99)

\* CDSupd_jnl_caidas("OPERADOR"): every 98 of the operator.
LiberaLogin == Suelta({s \in Seq1 : cai[s].st = TomadaOperador})

\* TRANlogin: the rows of the operator are freed, then JNLinitialize goes from the
\* last sequence of the totals.
TRANlogin ==
    /\ pc = "fuera"
    /\ ModoRT = "serie" => rpc = "duerme"
    /\ LiberaLogin
    /\ fila' = tots.seq
    /\ pc' = "init"
    /\ UNCHANGED <<jnl, tots, cur, sequence, tran_status, sndrt, cancel, orig, rev,
                   cod, rtbatch, red, crashes>>

\* Records jnl_cust_chk_snddwn has something to do with.
ReExamina(s) == jnl[s].viaja /\ jnl[s].st # SinRegistro /\ ~Definitivo(jnl[s].st)
PorExaminar == {s \in Seq1 : fila <= s /\ ReExamina(s)}

\* The status a re-examined record takes: that of its row, if it says one.
EstadoCaida(s) ==
    IF cai[s].st \in {SinRegistro, TomadaBatch} THEN SESSION_LOST ELSE cai[s].st

\* jnl_cust_chk_snddwn: a record without a row gets one (CDSop_marca_cien).
jnl_cust_chk_snddwn(s) ==
    /\ pc = "init" /\ s \in PorExaminar /\ \A t \in PorExaminar : s <= t
    /\ cai' = IF cai[s].st = SinRegistro
              THEN [cai EXCEPT ![s] = [st |-> SESSION_LOST, solo |-> jnl[s].solo]]
              ELSE cai
    /\ tran_status' = EstadoCaida(s)
    /\ fila' = s
    /\ pc' = "initjnl"
    /\ UNCHANGED <<jnl, tots, cur, sequence, sndrt, cancel, orig, rev, cod, rtbatch,
                   red, crashes>>

\* ... and then its journal record takes the status, in a commit of its own.
ActualizaJournal ==
    /\ pc = "initjnl"
    /\ jnl' = [jnl EXCEPT ![fila].st = tran_status]
    /\ fila' = fila + 1
    /\ pc' = "init"
    /\ UNCHANGED <<cai, tots, cur, sequence, tran_status, sndrt, cancel, orig, rev,
                   cod, rtbatch, red, crashes>>

\* What the last record of the journal adds to the totals at a login.
Resincroniza(suma) ==
    /\ pc = "init" /\ PorExaminar = {}
    /\ tots' = [seq |-> Ultimo,
                suma |-> IF suma THEN [tots.suma EXCEPT ![Ultimo] = @ + 1]
                         ELSE tots.suma]
    /\ sequence' = Ultimo
    /\ tran_status' = SinRegistro /\ fila' = 0
    /\ pc' = "libre"
    /\ UNCHANGED <<jnl, cai, cur, sndrt, cancel, orig, rev, cod, rtbatch, red, crashes>>

\* Mutants: a reversal is totalled; the last record is totalled again at each login.
ResincronizaReversos ==
    Resincroniza(Ultimo > tots.seq /\ jnl[Ultimo].st < HOST_REJECTED)
ResincronizaOtraVez ==
    Resincroniza(/\ Ultimo >= tots.seq /\ Ultimo # 0
                 /\ ~jnl[Ultimo].rev /\ jnl[Ultimo].st < HOST_REJECTED)

\* jnl_check_sync, jnl_init_resync, JNLcustom_resync: only the last record can be
\* totalled again; a reversal has no totals routine.
jnl_init_resync ==
    Resincroniza(Ultimo > tots.seq /\ ~jnl[Ultimo].rev /\ jnl[Ultimo].st < HOST_REJECTED)

-----------------------------------------------------------------------------
(* The RT batch: OFBbatch_CaidasVuelo, CDSrec_caidas_batch.                *)

\* Mutants: a 98 is freed without looking at the time; the 99 are left.
SueltaEnUso ==
    \E viejas \in SUBSET {s \in Seq1 : cai[s].st = TomadaOperador} :
        Suelta(Tomadas99 \union viejas)
SueltaSolo98 ==
    \E viejas \in SUBSET {s \in Seq1 : cai[s].st = TomadaOperador /\ ~FilaDeOp(s)} :
        Suelta(viejas)

\* CDSupd_jnl_caidas("RT_BATCH"): every 99, and the 98 taken too long ago whose
\* operator no longer works on them.
CDSupd_jnl_caidas ==
    \E viejas \in SUBSET {s \in Seq1 : cai[s].st = TomadaOperador /\ ~FilaDeOp(s)} :
        Suelta(Tomadas99 \union viejas)

RtEmpieza ==
    /\ rpc = "duerme"
    /\ ModoRT # "no" /\ (ModoRT = "serie" => pc \in {"libre", "fuera"})
    /\ CDSupd_jnl_caidas
    /\ rfila' = MaxSeq + 1
    /\ rpc' = "busca"
    /\ UNCHANGED <<jnl, tots, cajero, rorig, rstatus, rcod, red, crashes>>

RtPendientes == {s \in Pendientes : ~cai[s].solo /\ s < rfila}

\* The next row is marked 99; its own status is kept to look the journal up.
RtToma(s) ==
    /\ rpc = "busca" /\ s \in RtPendientes /\ \A t \in RtPendientes : t <= s
    /\ cai' = [cai EXCEPT ![s].st = TomadaBatch]
    /\ rfila' = s /\ rorig' = cai[s].st
    /\ rpc' = "match"
    /\ UNCHANGED <<jnl, tots, cajero, rstatus, rcod, red, crashes>>

RtAgota ==
    /\ rpc = "busca" /\ RtPendientes = {}
    /\ rpc' = "fin" /\ rfila' = 0
    /\ UNCHANGED <<tablas, cajero, rorig, rstatus, rcod, red, crashes>>

\* Mutant: the journal record is looked up by its sequence only.
RtEncuentraSinEstado ==
    /\ rpc = "match"
    /\ rpc' = "env"
    /\ UNCHANGED <<tablas, cajero, rfila, rorig, rstatus, rcod, red, crashes>>

\* The journal record is looked up with the status the row had ...
RtEncuentra ==
    /\ rpc = "match" /\ jnl[rfila].st = rorig
    /\ rpc' = "env"
    /\ UNCHANGED <<tablas, cajero, rfila, rorig, rstatus, rcod, red, crashes>>

\* ... and without such a record the row is deleted.
RtBorra ==
    /\ rpc = "match" /\ jnl[rfila].st # rorig
    /\ cai' = [cai EXCEPT ![rfila] = NoCai]
    /\ rpc' = "busca" /\ LimpiaLote
    /\ UNCHANGED <<jnl, tots, cajero, rfila, red, crashes>>

\* MISCtrat_recup_batch: COMM_stat_init waits for the line (MISCesp_linea_batch)
\* or gives up; then COMM_send.
RtEnvia ==
    /\ rpc = "env"
    /\ \/ ~line /\ rpc' = "fin" /\ UNCHANGED <<rstatus, net>>
       \/ line /\ rpc' = "act" /\ rstatus' = SEND_ERROR /\ net' = net
       \/ /\ line /\ rpc' = "espera" /\ rstatus' = RCV_RESET
          /\ net' = net \union {Mensaje("400", rfila, "rt")}
    /\ UNCHANGED <<tablas, cajero, rfila, rorig, rcod, line, host, ans, crashes>>

RtRecibe(m) ==
    /\ rpc = "espera" /\ m.a = "rt"
    /\ rstatus' = Veredicto(m.cod) /\ rcod' = m.cod
    /\ ans' = ans \ {m}
    /\ rpc' = "act"
    /\ UNCHANGED <<tablas, cajero, rfila, rorig, line, host, net, crashes>>

RtSinRespuesta ==
    /\ rpc = "espera" /\ rpc' = "act" /\ ans' = Quedan("rt")
    /\ UNCHANGED <<tablas, cajero, rfila, rorig, rstatus, rcod, line, host, net,
                   crashes>>

\* The journal record JNLinitialize holds locked while it examines it.
JnlBloqueado(s) == pc = "initjnl" /\ fila = s

\* MISCact_tx_caida finds the record held by another process: it returns before it
\* looks at the status, and the row will take what tlr:jnl_status had.  A 400 that
\* could not be sent does not come so far (COMM_host_tran ends with TRAN_CAIDA_VUELO).
SinJournal(st) ==
    /\ JnlBloqueado(rfila) /\ rstatus # SEND_ERROR
    /\ jnl' = jnl /\ rstatus' = st

\* The journal record takes the outcome.
ConJournal ==
    /\ rstatus <= HOST_REJECTED
    /\ rstatus' = EstadoReverso(rstatus, rcod)
    /\ jnl' = [jnl EXCEPT ![rfila].st = rstatus', ![rfila].corr = rfila]

TrasRespuesta ==
    /\ rpc = "act" /\ rpc' = "fila"
    /\ UNCHANGED <<cai, tots, cajero, rfila, rorig, rcod, red, crashes>>

RtActualiza ==
    /\ TrasRespuesta
    /\ \/ ~JnlBloqueado(rfila) /\ ConJournal
       \/ SinJournal(rorig)

\* The row takes the status of the journal, and the next one follows.
RtCierraFila ==
    /\ rpc = "fila"
    /\ cai' = [cai EXCEPT ![rfila].st = rstatus]
    /\ rpc' = "busca" /\ LimpiaLote
    /\ UNCHANGED <<jnl, tots, cajero, rfila, red, crashes>>

\* The cancellation fell too: the batch stops and the row stays 99.
RtCaida ==
    /\ rpc = "act" /\ rstatus > HOST_REJECTED
    /\ JnlBloqueado(rfila) => rstatus = SEND_ERROR
    /\ rpc' = "fin" /\ rfila' = 0 /\ LimpiaLote
    /\ UNCHANGED <<tablas, cajero, red, crashes>>

RtTermina ==
    /\ rpc = "fin"
    /\ CDSupd_jnl_caidas
    /\ rpc' = "duerme" /\ rfila' = 0 /\ LimpiaLote
    /\ UNCHANGED <<jnl, tots, cajero, red, crashes>>

RtCae ==
    /\ "rt" \in QuienCae /\ crashes < MaxCaidas /\ rpc # "duerme"
    /\ crashes' = crashes + 1
    /\ rpc' = "duerme" /\ rfila' = 0 /\ LimpiaLote
    /\ ans' = Quedan("rt")
    /\ UNCHANGED <<tablas, cajero, line, host, net>>

-----------------------------------------------------------------------------
(* The host and the line.  External: only what the routines above rely on. *)

\* An answer nobody waits for is dropped when it arrives (COMM_unso).
Responde(m, estado, c) ==
    LET r == [tipo |-> m.tipo, seq |-> m.seq, a |-> m.de, cod |-> c] IN
    /\ host' = [host EXCEPT ![m.seq] = estado]
    /\ net' = net \ {m}
    /\ ans' = IF Atendida(r) THEN ans \union {r} ELSE ans
    /\ UNCHANGED <<tablas, cajero, rtbatch, line, crashes>>

\* A 200 is applied or refused; once its cancellation was seen it is refused.
HostAplica(m) ==
    /\ m \in net /\ m.tipo = "200"
    /\ \/ host[m.seq] = "nada" /\ \/ Responde(m, "aplicada", "00")
                                  \/ Responde(m, "rechazada", "05")
       \/ host[m.seq] # "nada" /\ Responde(m, host[m.seq], "05")

\* A 400 undoes what was applied ("00"), or says that it was undone ("98"), that
\* there is nothing to undo ("09") or that it cannot be undone any more ("95").
HostAnula(m) ==
    /\ m \in net /\ m.tipo = "400"
    /\ LET h == host[m.seq] IN
       \/ h = "aplicada"  /\ Responde(m, "anulada", "00")
       \/ h \in {"aplicada", "retenida"} /\ Responde(m, "retenida", "95")
       \/ h = "anulada"   /\ Responde(m, "anulada", "98")
       \/ h \in {"nada", "rechazada"} /\ Responde(m, "rechazada", "09")

PierdePedido(m) ==
    /\ m \in net /\ net' = net \ {m}
    /\ UNCHANGED <<tablas, cajero, rtbatch, line, host, ans, crashes>>

\* An answer is lost on the line, or arrives between two waits.
COMM_unso(m) ==
    /\ m \in ans /\ ans' = ans \ {m}
    /\ UNCHANGED <<tablas, cajero, rtbatch, line, host, net, crashes>>

-----------------------------------------------------------------------------
Cajero ==
    \/ \E viaja, solo \in BOOLEAN : (solo => viaja) /\ JNLprelog_tran(viaja, solo)
    \/ COMM_stat_init \/ CDSchk_trxs_caidas \/ RecuperacionesPendientes
    \/ \E s \in Seq1 : LiberaAbandonada(s)
    \/ COMM_send \/ (\E m \in ans : COMM_rcv_event(m)) \/ SinRespuesta \/ ErrorComm
    \/ CDSop_marca_cien \/ Cierra

Recuperacion ==
    \/ \E s \in Seq1 : TomaFila(s)
    \/ FinRecuperacion \/ MISCjnl_reverso_auto \/ AnalizaSinLinea \/ EnviaReverso
    \/ MISCjnl_corregida \/ CierraFila \/ CaidaEnReverso

Login ==
    \/ TRANlogin
    \/ \E s \in Seq1 : jnl_cust_chk_snddwn(s)
    \/ ActualizaJournal \/ jnl_init_resync

RTBatch ==
    \/ RtEmpieza \/ (\E s \in Seq1 : RtToma(s)) \/ RtAgota
    \/ RtEncuentra \/ RtBorra \/ RtEnvia \/ (\E m \in ans : RtRecibe(m))
    \/ RtSinRespuesta \/ RtActualiza \/ RtCierraFila \/ RtCaida \/ RtTermina

Externo ==
    \/ LineaCae \/ LineaSube
    \/ \E m \in net : HostAplica(m) \/ HostAnula(m) \/ PierdePedido(m)
    \/ \E m \in ans : COMM_unso(m)

Next == Cajero \/ Recuperacion \/ Login \/ RTBatch \/ Externo \/ Cae \/ RtCae

Spec == Init /\ [][Next]_vars

-----------------------------------------------------------------------------
(* Properties.                                                             *)

Cajas == {"libre", "stat_init", "chk", "host_tran", "espera", "exit_loop", "seguir",
          "rec", "rev", "revenv", "revesp", "revfin", "revrow", "fuera", "init",
          "initjnl"}
Lotes == {"duerme", "busca", "match", "env", "espera", "act", "fila", "fin"}

TipoTablas ==
    /\ jnl \in [Seq1 -> RegJnl]
    /\ cai \in [Seq1 -> RegCai]
    /\ tots \in [seq : 0 .. MaxSeq, suma : [Seq1 -> Nat]]

TipoCajero ==
    /\ pc \in Cajas /\ cur \in 0 .. MaxSeq /\ sequence \in 0 .. MaxSeq
    /\ tran_status \in Estado /\ sndrt \in BOOLEAN /\ cancel \in BOOLEAN
    /\ fila \in 0 .. MaxSeq + 1 /\ orig \in Estado /\ rev \in 0 .. MaxSeq
    /\ cod \in Codigo

TipoLote ==
    /\ rpc \in Lotes /\ rfila \in 0 .. MaxSeq + 1 /\ rorig \in Estado
    /\ rstatus \in Estado /\ rcod \in Codigo

TipoRed ==
    /\ line \in BOOLEAN /\ host \in [Seq1 -> EstadoHost]
    /\ net \subseteq Pedido /\ ans \subseteq Respuesta

\* Types of every variable.
TypeOK == TipoTablas /\ TipoCajero /\ TipoLote /\ TipoRed /\ crashes \in 0 .. MaxCaidas

EnLogin == pc \in {"fuera", "init", "initjnl"}

\* The operator is still running transaction s.
EnCurso(s) == cur = s /\ ~EnLogin /\ pc # "libre"

\* The next recovery of the operator or of the RT batch will find the row.
Recuperable(s) == EnVuelo(cai[s].st) \/ cai[s].st \in {TomadaOperador, TomadaBatch}

\* The next JNLinitialize will give the record a row.
SeReexamina(s) == EnLogin /\ ReExamina(s) /\ s >= (IF pc = "fuera" THEN tots.seq ELSE fila)

\* A transaction the host applied and the totals do not count is never forgotten:
\* it is being run, or a row asks for its cancellation, or the login that follows
\* the crash will make one.  (JNLtran, CDSop_marca_cien, jnl_cust_chk_snddwn and
\* the recoveries together.)
NoLostInFlight ==
    \A s \in Seq1 : host[s] = "aplicada" /\ tots.suma[s] = 0 =>
        EnCurso(s) \/ Recuperable(s) \/ SeReexamina(s)

\* What the totals count the host has applied and not undone, whatever was lost,
\* retried or re-totalled by jnl_init_resync.
ContadaAplicada ==
    \A s \in Seq1 : tots.suma[s] > 0 /\ jnl[s].viaja => host[s] = "aplicada"

\* The journal calls a transaction cancelled (MISCjnl_corregida, MISCact_tx_caida)
\* only if the host has undone it.
CanceladaEsAnulada ==
    \A s \in Seq1 : jnl[s].st = HOST_ACCEPTED /\ ~jnl[s].rev /\ jnl[s].corr # 0 =>
        host[s] = "anulada"

\* No transaction is totalled twice, by its close and by a later JNLinitialize.
CuentaUnaVez == \A s \in Seq1 : tots.suma[s] <= 1

\* A row marked 98 (CDSjnl_mayor_cien) is the one the operator is recovering, or its
\* process died and the next login will free it: neither the recovery nor the batch
\* look at a 98, so that one left behind for good would be a fall nobody cancels.
Tomada98EnUso ==
    \A s \in Seq1 : cai[s].st = TomadaOperador => FilaDeOp(s) \/ pc = "fuera"

\* A row is closed only when its journal record has the outcome, although
\* MISCact_tx_caida may find that record locked by a login: nobody looks again at a
\* closed row.
CerradaConDesenlace ==
    \A s \in Seq1 : Definitivo(cai[s].st) => Definitivo(jnl[s].st)

\* Between transactions and batches a row the batch recovers has the status of its
\* journal record: CDSrec_caidas_batch looks the record up with it.
FilaConcuerda ==
    pc = "libre" /\ rpc = "duerme" =>
        \A s \in Seq1 : EnVuelo(cai[s].st) /\ ~cai[s].solo => cai[s].st = jnl[s].st

\* The operator and the RT batch never send the cancellation of the same row.
UnSoloRecuperador == \A s \in Seq1 : ~(FilaDeOp(s) /\ FilaDeRT(s))

\* An outcome written in the journal stays: no late recovery and no login changes it.
DesenlaceEstable ==
    [][\A s \in Seq1 : Definitivo(jnl[s].st) /\ ~jnl[s].rev => jnl'[s].st = jnl[s].st]_vars
=============================================================================
