-------------------------- MODULE CaidasLiveness ---------------------------
(***************************************************************************)
(* What must eventually happen in CaidasEnVuelo, and the fairness it needs. *)
(***************************************************************************)
EXTENDS CaidasEnVuelo

\* Steps of the teller's process once the user has pressed the key.
PasoCajero ==
    \/ COMM_stat_init \/ CDSchk_trxs_caidas \/ RecuperacionesPendientes
    \/ COMM_send \/ SinRespuesta \/ CDSop_marca_cien \/ Cierra \/ Recuperacion

\* Steps of a login once the user has entered.
PasoLogin ==
    \/ \E s \in Seq1 : jnl_cust_chk_snddwn(s)
    \/ ActualizaJournal \/ jnl_init_resync

\* Steps of the batch inside one round.  Between two rounds it sleeps.
PasoBatch ==
    \/ (\E s \in Seq1 : RtToma(s)) \/ RtAgota \/ RtEncuentra \/ RtBorra \/ RtEnvia
    \/ RtSinRespuesta \/ RtActualiza \/ RtCierraFila \/ RtCaida \/ RtTermina

\* A round that finds every abandoned 98 old enough to be freed.
RondaTardia ==
    RtEmpieza /\ \A s \in Seq1 : cai[s].st = TomadaOperador /\ ~FilaDeOp(s)
                                 => cai'[s].st = jnl[s].st

\* The teller's process goes on with what it began: the wait of COMM_rcv has a time-out,
\* so none of its steps needs the line, the host or the batch.
FairnessCajero == WF_vars(PasoCajero \/ PasoLogin)

\* The RT batch goes on with its round and is run again and again (OFBbatch_CaidasVuelo
\* is launched by the batch manager), and over a line that is up, sends, requests and
\* answers that are tried for ever get through some time.
FairnessLote ==
    /\ WF_vars(PasoBatch) /\ WF_vars(RtEmpieza) /\ SF_vars(RondaTardia)
    /\ SF_vars(RtEnvia /\ rpc' = "espera")
    /\ SF_vars(\E m \in net : m.tipo = "400" /\ HostAnula(m) /\ ans' # ans)
    /\ SF_vars(\E m \in ans : RtRecibe(m))

SpecCajero == Spec /\ FairnessCajero
SpecLote == SpecCajero /\ FairnessLote

\* A transaction or a login the user began ends, or the process dies, although the
\* line goes down, the operator first recovers its falls, or the rows it waits for
\* (MISCesp_desb_99) are held by an RT batch that stopped and never goes on.
TransaccionTermina == pc \notin {"libre", "fuera"} ~> pc \in {"libre", "fuera"}

\* With the line up from some time on, every fall the batch may recover is closed with
\* an outcome; a row the batch deleted counts only while the next JNLinitialize is
\* still going to make it again.
CaidaResuelta ==
    <>[]line => \A s \in Seq1 :
        Recuperable(s) /\ ~cai[s].solo ~> Definitivo(cai[s].st) \/ SeReexamina(s)
=============================================================================
