----------------------------- MODULE CaidasInv ------------------------------
(***************************************************************************)
(* The inductive invariant of CaidasEnVuelo: what the recovery relies on    *)
(* between any two steps of the teller, the RT batch, the host and the      *)
(* line, whatever crashes.                                                 *)
(***************************************************************************)
EXTENDS CaidasEnVuelo

HayJnl(s) == jnl[s].st # SinRegistro
HayFila(s) == cai[s].st # SinRegistro

EsUltimo(n) == /\ n = 0 \/ HayJnl(n)
               /\ \A t \in Seq1 : t > n => ~HayJnl(t)

Transaccion == ~EnLogin /\ pc # "libre"
EnReverso == pc \in {"rev", "revenv", "revesp", "revfin", "revrow"}
ConReverso == pc \in {"revenv", "revesp", "revfin"}
Lote == rpc \in {"match", "env", "espera", "act", "fila"}

\* The journal grows at its end only; the totals never run ahead of it.
JournalAlDia ==
    \E n \in 0 .. MaxSeq :
        /\ EsUltimo(n) /\ tots.seq <= n
        /\ ~EnLogin => sequence = n
        /\ pc = "libre" => tots.seq = n

\* A row has a journal record.
FilaConJournal == \A s \in Seq1 : HayFila(s) => HayJnl(s)

\* The current transaction is one the totals do not know and, until
\* CDSop_marca_cien, one without a row.
TrxEnCurso ==
    Transaccion => /\ cur \in Seq1 /\ tots.seq < cur /\ cur <= sequence
                   /\ HayJnl(cur)
                   /\ pc # "seguir" => ~HayFila(cur)

\* What is going to be written in a journal record is a state.
EstadoPuesto ==
    /\ pc \notin {"libre", "stat_init", "fuera", "init"} => tran_status # SinRegistro
    /\ rpc \in {"espera", "act"} => rstatus # SinRegistro

\* The records two processes work on exist, and are marked as theirs: a row of the
\* operator is 98 or one the batch does not take, a row of the batch is 99.
FilasTomadas ==
    /\ EnReverso => /\ fila \in Seq1 /\ HayFila(fila)
                    /\ cai[fila].solo \/ cai[fila].st = TomadaOperador
    /\ ConReverso => rev \in Seq1 /\ HayJnl(rev)
    /\ pc = "initjnl" => fila \in Seq1 /\ HayJnl(fila)
    /\ Lote => rfila \in Seq1 /\ ~cai[rfila].solo /\ cai[rfila].st = TomadaBatch

\* A transaction is counted once, and only up to the sequence of the totals.
CuentaAlDia ==
    \A s \in Seq1 : tots.suma[s] <= 1 /\ (s > tots.seq => tots.suma[s] = 0)

\* The invariant that carries the theorems of CaidasProofs.
IInv == /\ TypeOK /\ JournalAlDia /\ FilaConJournal /\ TrxEnCurso
        /\ EstadoPuesto /\ FilasTomadas /\ CuentaAlDia

-----------------------------------------------------------------------------
(* What ties the journal to the host when every answer is of the request it *)
(* answers (RespTardias = FALSE), whoever recovers and whatever crashes.    *)

\* The outcome a cancellation leaves in the journal is the one the host answered.
Resuelta(st, h) ==
    \/ st = HOST_ACCEPTED /\ h = "anulada"
    \/ st = HOST_REJECTED /\ h \in {"retenida", "rechazada"}

CorregidaSegunHost ==
    \A s \in Seq1 : jnl[s].corr # 0 /\ ~jnl[s].rev => Resuelta(jnl[s].st, host[s])

\* The current transaction has no outcome yet.  It has a row only once it fell, and
\* a batch that took that row does not find its journal record.
TrxSinDesenlace ==
    Transaccion =>
        /\ jnl[cur].st = MEMO /\ ~jnl[cur].rev /\ jnl[cur].corr = 0
        /\ pc = "seguir" /\ HayFila(cur) => EsCaida(tran_status)
        /\ Lote /\ rfila = cur => rpc = "match" /\ EnVuelo(rorig)

\* A reversal always has an outcome, and never a row.
Reversos ==
    /\ \A s \in Seq1 : jnl[s].rev => Definitivo(jnl[s].st) /\ ~HayFila(s)
    /\ ConReverso => jnl[rev].rev

\* A transaction with a row has no outcome but that of its cancellation, and its row
\* has none before it.
FilaDebida ==
    \A s \in Seq1 : /\ HayFila(s) /\ Definitivo(jnl[s].st) => jnl[s].corr # 0
                    /\ Definitivo(cai[s].st) => Definitivo(jnl[s].st)

\* What the teller is going to write: an outcome is the one of the host.
DesenlaceOp ==
    /\ EnReverso /\ Definitivo(orig) => Definitivo(jnl[fila].st)
    /\ pc = "revesp" => tran_status > HOST_REJECTED
    /\ pc = "revfin" /\ tran_status <= HOST_REJECTED =>
          Resuelta(EstadoReverso(tran_status, cod), host[fila])
    /\ pc = "revrow" => Definitivo(jnl[fila].st)
    /\ pc = "initjnl" => ~Definitivo(tran_status) /\ ~Definitivo(jnl[fila].st)

\* The same for the batch.
DesenlaceRt ==
    /\ Lote => ~Definitivo(rorig)
    /\ rpc = "espera" => rstatus > HOST_REJECTED
    /\ rpc = "act" /\ rstatus <= HOST_REJECTED =>
          Resuelta(EstadoReverso(rstatus, rcod), host[rfila])
    /\ rpc = "fila" /\ Definitivo(rstatus) => Definitivo(jnl[rfila].st)

\* The wait an answer is for.
DeQuien(m) ==
    \/ m.a = "op" /\ Espera /\ m.tipo = Pedida.tipo /\ m.seq = Pedida.seq
    \/ m.a = "rt" /\ rpc = "espera" /\ m.tipo = "400" /\ m.seq = rfila

\* An answer on the line is the only one of the wait it is for, its request is not on
\* the line any more, and it says of a cancellation what the host did.
Correo ==
    /\ \A m \in net : m.de = "rt" => m.tipo = "400"
    /\ \A m \in ans :
          /\ DeQuien(m)
          /\ Mensaje(m.tipo, m.seq, m.a) \notin net
          /\ m.tipo = "400" =>
                Resuelta(EstadoReverso(Veredicto(m.cod), m.cod), host[m.seq])
          /\ \A n \in ans : n.a = m.a => n = m

\* The second invariant of CaidasProofs.
RInv == /\ CorregidaSegunHost /\ TrxSinDesenlace /\ Reversos /\ FilaDebida
        /\ DesenlaceOp /\ DesenlaceRt /\ Correo

-----------------------------------------------------------------------------
(* What loses no fall, when the batch runs between transactions, its process *)
(* does not die, and every fallen transaction can be cancelled off line.    *)

EnSerie ==
    /\ RespTardias = FALSE /\ ModoRT # "libre"
    /\ FALSE \notin PosibleOff /\ "rt" \notin QuienCae

ConEnvio(s) == jnl[s].viaja /\ ~jnl[s].rev

\* Nothing of a transaction has left the branch, nor can still arrive.
Limpia(s) == host[s] = "nada" /\ \A m \in net : m.seq # s

\* The host keeps a transaction applied, or may still apply it.
EnPeligro(s) ==
    \/ host[s] = "aplicada"
    \/ host[s] = "nada" /\ Mensaje("200", s, "op") \in net

\* A journal record whose transaction died before its close.
SinCerrar(s) == jnl[s].st = MEMO /\ s > tots.seq

\* A journal record that says of a fallen transaction that it fell, or how it ended.
Debida(s) == EnVuelo(jnl[s].st) \/ jnl[s].corr # 0

\* The batch sleeps while a transaction or a login runs.
LoteAparte == rpc # "duerme" => ModoRT = "serie" /\ pc \in {"libre", "fuera"}

\* What the status of the current transaction says at each step, when it has nothing
\* to send,
PasoLocal ==
    /\ ~sndrt
    /\ \/ pc = "stat_init"
       \/ pc \in {"host_tran", "exit_loop", "seguir"} /\ tran_status = MEMO

\* and when it has: before it is sent the host knows nothing of it, and at its end it
\* fell, or the status is the outcome of the host.
PorEnviar == {SEND_RESET, SEND_ERROR, HOST_ACCEPTED, HOST_REJECTED}
ConDesenlace(s) ==
    \/ tran_status = HOST_ACCEPTED /\ host[s] = "aplicada"
    \/ tran_status = HOST_REJECTED /\ ~EnPeligro(s)
PasoEnvio ==
    \/ pc \in {"stat_init", "revesp", "revfin"} /\ Limpia(cur) /\ sndrt
    \/ /\ pc \in {"chk", "rec", "rev", "revenv", "revrow"}
       /\ Limpia(cur) /\ sndrt /\ tran_status \in PorEnviar
    \/ /\ pc = "host_tran" /\ Limpia(cur) /\ tran_status \in PorEnviar
       /\ sndrt \/ tran_status \in {SEND_ERROR, HOST_REJECTED}
    \/ pc = "espera" /\ EnVuelo(tran_status)
    \/ pc = "exit_loop" /\ (EnVuelo(tran_status) \/ ConDesenlace(cur))
    \/ pc = "seguir" /\ EnVuelo(tran_status) /\ cai[cur].st = tran_status
    \/ pc = "seguir" /\ ConDesenlace(cur)

PasoTrx ==
    /\ cancel => ConReverso
    /\ Transaccion => IF jnl[cur].viaja THEN PasoEnvio ELSE PasoLocal

\* The phases of a row: to be recovered, with the status of its journal record or
\* without one yet; taken by the teller or by the batch; closed.
FilaLista(s) ==
    EnVuelo(cai[s].st) /\ (jnl[s].st = cai[s].st \/ (cai[s].solo /\ jnl[s].corr # 0))
FilaSinCerrar(s) ==
    EnVuelo(cai[s].st) /\ SinCerrar(s) /\ (EnLogin \/ (pc = "seguir" /\ cur = s))
FilaDelOperador(s) ==
    cai[s].st = TomadaOperador /\ Debida(s) /\ ((EnReverso /\ fila = s) \/ pc = "fuera")
FilaDelLote(s) ==
    /\ cai[s].st = TomadaBatch /\ rpc # "duerme"
    /\ Debida(s) \/ (rpc = "match" /\ rfila = s /\ SinCerrar(s))

FilaSana ==
    \A s \in Seq1 : HayFila(s) =>
        /\ ConEnvio(s)
        /\ \/ FilaLista(s) \/ FilaSinCerrar(s) \/ FilaDelOperador(s) \/ FilaDelLote(s)
           \/ Definitivo(cai[s].st)

\* What the teller and the batch keep of the row they work on.
FilasEnMano ==
    /\ EnReverso => Debida(fila)
    /\ EnReverso /\ pc # "revrow" => orig = jnl[fila].st
    /\ pc = "revrow" => jnl[fila].corr # 0 /\ Definitivo(tran_status)
    /\ Lote => EnVuelo(rorig)
    /\ rpc = "match" => jnl[rfila].st = rorig \/ (SinCerrar(rfila) /\ pc = "fuera")
    /\ rpc \in {"env", "espera", "act"} => jnl[rfila].st = rorig
    /\ rpc = "fila" => jnl[rfila].corr # 0 /\ rstatus = jnl[rfila].st

\* A record to be recovered and without a row is of the current transaction, or of one
\* that died before its close: a login will find it.
PasoLogin ==
    /\ \A s \in Seq1 : ReExamina(s) /\ ~HayFila(s) =>
          SinCerrar(s) /\ (EnLogin \/ (Transaccion /\ cur = s))
    /\ pc \in {"init", "initjnl"} =>
          \A s \in Seq1 : jnl[s].st = MEMO /\ jnl[s].viaja => s >= fila
    /\ pc = "initjnl" => EnVuelo(tran_status) /\ cai[fila].st = tran_status

\* Only what has a send routine is known out of the branch; a cancellation is asked
\* only of what fell; an answer to a request says what the host did with it.
CorreoSerie ==
    /\ \A s \in Seq1 : (HayJnl(s) /\ ConEnvio(s)) \/ Limpia(s)
    /\ \A m \in net : IF m.tipo = "400" THEN jnl[m.seq].st # MEMO
                                        ELSE m.de = "op" /\ host[m.seq] # "aplicada"
    /\ \A m \in ans : m.tipo = "200" =>
          IF m.cod = "00" THEN host[m.seq] = "aplicada" ELSE ~EnPeligro(m.seq)

\* NoLostInFlight, also for what the host may still apply.
NadaPerdido ==
    \A s \in Seq1 : EnPeligro(s) /\ tots.suma[s] = 0 =>
        EnCurso(s) \/ Recuperable(s) \/ SeReexamina(s)

\* The invariant that carries the theorems of CaidasProofs.
SInv == /\ LoteAparte /\ PasoTrx /\ FilaSana /\ FilasEnMano /\ PasoLogin
        /\ CorreoSerie /\ NadaPerdido

\* With one crash: no login finds a record that another login had begun to examine,
SinCerrarAun ==
    \A s \in Seq1 : HayJnl(s) /\ ~jnl[s].rev /\ s > tots.seq =>
        jnl[s].st = MEMO \/ (EnVuelo(jnl[s].st) /\ pc \in {"init", "initjnl"})

\* and what is counted has no row and no cancellation on its way.
CuentaFirme ==
    /\ EnLogin => crashes >= 1
    /\ \A s \in Seq1 : HayFila(s) => tots.suma[s] = 0
    /\ \A m \in net : m.tipo = "400" => tots.suma[m.seq] = 0

CInv == SinCerrarAun /\ CuentaFirme /\ ContadaAplicada

\* What a step frees it closes one at a time: one row is with the teller, and one
\* with the batch, at most, has the outcome in its journal record and not yet in it.
TomadaUna ==
    \A s, t \in Seq1 :
        cai[s].st = TomadaOperador /\ cai[t].st = TomadaOperador => s = t
LoteSinCierre ==
    \A s \in Seq1 : cai[s].st = TomadaBatch /\ jnl[s].corr # 0 =>
        rpc = "fila" /\ rfila = s

DInv == TomadaUna /\ LoteSinCierre
=============================================================================
