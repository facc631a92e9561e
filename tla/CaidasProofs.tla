---------------------------- MODULE CaidasProofs ----------------------------
(***************************************************************************)
(* Inductive invariants of CaidasEnVuelo and what follows from them.  For    *)
(* every bound, every mode of the RT batch, every failure and every crash:   *)
(* IInv, the sequences, the marks and the count; and RInv, the outcomes.     *)
(* For each, first which steps write what, then its conjuncts one by one,    *)
(* then the theorems.                                                        *)
(*                                                                           *)
(* The second half is about the batch between transactions.  No fall is      *)
(* lost: SInv of CaidasInv is inductive together with IInv and RInv, for     *)
(* every bound and any number of crashes of the teller, under the conditions *)
(* of EnSerie.  With one crash at most CInv is inductive too, and what the   *)
(* totals count the host has applied; and then every step of CaidasEnVuelo   *)
(* is one of Desenlace, or none: the refinement of CaidasDesenlace.          *)
(***************************************************************************)
EXTENDS CaidasInv, CaidasDesenlace, FiniteSetTheorems, TLAPS

USE MaxSeqAssumption, MaxCaidasAssumption, FallosAssumption

\* The parts of RtActualiza and of TRANlogin are seen wherever those are.
USE DEF TrasRespuesta, ConJournal, SinJournal, LiberaLogin

\* The states the code writes are states of the table.
LEMMA EstadosSonEstados ==
    {SinRegistro, MEMO, HOST_ACCEPTED, TomadaOperador, TomadaBatch, HOST_REJECTED,
     SEND_ERROR, SEND_RESET, RCV_RESET, LiberadaPorEspera, HOST_RCV_DOWN,
     SESSION_LOST, HOST_COMMSRVR_DOWN} \subseteq Estado
BY DEF SinRegistro, MEMO, HOST_ACCEPTED, TomadaOperador, TomadaBatch, HOST_REJECTED,
       SEND_ERROR, SEND_RESET, RCV_RESET, LiberadaPorEspera, HOST_RCV_DOWN,
       SESSION_LOST, HOST_COMMSRVR_DOWN, Estado, RECH_REV_AUTO

\* The reserve of sequence numbers is a number.
LEMMA ReservaNatural == Reserva \in Nat
<1>1. IsFiniteSet(Seq1)
    BY FS_Interval DEF Seq1
<1> QED
    BY <1>1, FS_Subset, FS_CardinalityType DEF Reserva

\* The last journal record is unique: what IInv knows of one is known of Ultimo.
LEMMA UltimoUnico ==
    ASSUME NEW n \in 0 .. MaxSeq, EsUltimo(n)
    PROVE  Ultimo = n
BY DEF Ultimo, EsUltimo, HayJnl, Seq1

\* Writing a new journal record keeps the journal's type.
LEMMA NuevoRegistro ==
    ASSUME NEW j \in [Seq1 -> RegJnl], NEW s \in Seq1, NEW e \in Estado,
           NEW v \in BOOLEAN, NEW o \in BOOLEAN, NEW r \in BOOLEAN, NEW c \in 0 .. MaxSeq
    PROVE  [j EXCEPT ![s] = [st |-> e, viaja |-> v, solo |-> o, rev |-> r, corr |-> c]]
               \in [Seq1 -> RegJnl]
BY DEF RegJnl

\* So does writing the state of a record,
LEMMA EscribeJnl ==
    ASSUME NEW j \in [Seq1 -> RegJnl], NEW s \in Seq1, NEW e \in Estado
    PROVE  [j EXCEPT ![s].st = e] \in [Seq1 -> RegJnl]
BY DEF RegJnl

\* and the state with the number of its correction.
LEMMA EscribeCorr ==
    ASSUME NEW j \in [Seq1 -> RegJnl], NEW s \in Seq1, NEW e \in Estado,
           NEW c \in 0 .. MaxSeq
    PROVE  [j EXCEPT ![s].st = e, ![s].corr = c] \in [Seq1 -> RegJnl]
BY DEF RegJnl

\* Writing the state of a row keeps the type of jnl_caidas.
LEMMA EscribeFila ==
    ASSUME NEW c \in [Seq1 -> RegCai], NEW s \in Seq1, NEW e \in Estado
    PROVE  [c EXCEPT ![s].st = e] \in [Seq1 -> RegCai]
BY DEF RegCai

\* Counting keeps the type of the totals.
LEMMA SumaUno ==
    ASSUME NEW f \in [Seq1 -> Nat], NEW u \in Seq1
    PROVE  [f EXCEPT ![u] = @ + 1] \in [Seq1 -> Nat]
OBVIOUS

\* The steps that write the journal.
LEMMA QuienEscribeJnl ==
    Next => \/ UNCHANGED jnl
            \/ \E viaja, solo \in BOOLEAN : (solo => viaja) /\ JNLprelog_tran(viaja, solo)
            \/ Cierra
            \/ MISCjnl_reverso_auto
            \/ MISCjnl_corregida
            \/ ActualizaJournal
            \/ RtActualiza
<1>1. CASE Cajero
    BY <1>1
       DEF Cajero, JNLprelog_tran, COMM_stat_init, EstadoInicial, CDSchk_trxs_caidas,
           RecuperacionesPendientes, RechazaTrx, LiberaAbandonada, Tomadas99, COMM_send,
           COMM_rcv_event, Veredicto, FinEspera, Espera, SinRespuesta, Quedan, ErrorComm,
           CDSop_marca_cien, EsCaida, LimpiaReverso, Cierra, CierraTrx, tablas, cajero,
           rtbatch, red
<1>2. CASE Recuperacion
    BY <1>2
       DEF Recuperacion, TomaFila, PorRecuperar, Pendientes, EnVuelo, FinRecuperacion,
           MISCjnl_reverso_auto, AnalizaSinLinea, LimpiaReverso, EnviaReverso,
           MISCjnl_corregida, EstadoReverso, CierraFila, CaidaEnReverso, FinReversoCaido,
           tablas, cajero, rtbatch, red
<1>3. CASE Login
    BY <1>3
       DEF Login, TRANlogin, Suelta, jnl_cust_chk_snddwn, EstadoCaida, PorExaminar,
           ReExamina, ActualizaJournal, jnl_init_resync, Resincroniza, tablas, cajero,
           rtbatch, red
<1>4. CASE RTBatch
    BY <1>4
       DEF RTBatch, RtEmpieza, CDSupd_jnl_caidas, Suelta, Tomadas99, RtToma,
           RtPendientes, Pendientes, EnVuelo, RtAgota, RtEncuentra, RtBorra, LimpiaLote,
           NoCai, RtEnvia, RtRecibe, Veredicto, RtSinRespuesta, Quedan, RtActualiza,
           EstadoReverso, RtCierraFila, RtCaida, RtTermina, tablas, cajero, rtbatch, red
<1>5. CASE Externo
    BY <1>5
       DEF Externo, LineaCae, FinEspera, Espera, Quedan, LineaSube, HostAplica,
           Responde, HostAnula, PierdePedido, COMM_unso, tablas, cajero, rtbatch, red
<1>6. CASE Cae \/ RtCae
    BY <1>6
       DEF Cae, LimpiaReverso, RtCae, LimpiaLote, Quedan, tablas, cajero, rtbatch, red
<1> QED
    BY <1>1, <1>2, <1>3, <1>4, <1>5, <1>6 DEF Next

\* The steps that write jnl_caidas.
LEMMA QuienEscribeCai ==
    Next => \/ UNCHANGED cai
            \/ \E s \in Seq1 : LiberaAbandonada(s)
            \/ CDSop_marca_cien
            \/ \E s \in Seq1 : TomaFila(s)
            \/ AnalizaSinLinea
            \/ CierraFila
            \/ CaidaEnReverso
            \/ TRANlogin
            \/ \E s \in Seq1 : jnl_cust_chk_snddwn(s)
            \/ RtEmpieza
            \/ \E s \in Seq1 : RtToma(s)
            \/ RtBorra
            \/ RtCierraFila
            \/ RtTermina
<1>1. CASE Cajero
    BY <1>1
       DEF Cajero, JNLprelog_tran, COMM_stat_init, EstadoInicial, CDSchk_trxs_caidas,
           RecuperacionesPendientes, RechazaTrx, LiberaAbandonada, Tomadas99, COMM_send,
           COMM_rcv_event, Veredicto, FinEspera, Espera, SinRespuesta, Quedan, ErrorComm,
           CDSop_marca_cien, EsCaida, LimpiaReverso, Cierra, CierraTrx, tablas, cajero,
           rtbatch, red
<1>2. CASE Recuperacion
    BY <1>2
       DEF Recuperacion, TomaFila, PorRecuperar, Pendientes, EnVuelo, FinRecuperacion,
           MISCjnl_reverso_auto, AnalizaSinLinea, LimpiaReverso, EnviaReverso,
           MISCjnl_corregida, EstadoReverso, CierraFila, CaidaEnReverso, FinReversoCaido,
           tablas, cajero, rtbatch, red
<1>3. CASE Login
    BY <1>3
       DEF Login, TRANlogin, Suelta, jnl_cust_chk_snddwn, EstadoCaida, PorExaminar,
           ReExamina, ActualizaJournal, jnl_init_resync, Resincroniza, tablas, cajero,
           rtbatch, red
<1>4. CASE RTBatch
    BY <1>4
       DEF RTBatch, RtEmpieza, CDSupd_jnl_caidas, Suelta, Tomadas99, RtToma,
           RtPendientes, Pendientes, EnVuelo, RtAgota, RtEncuentra, RtBorra, LimpiaLote,
           NoCai, RtEnvia, RtRecibe, Veredicto, RtSinRespuesta, Quedan, RtActualiza,
           EstadoReverso, RtCierraFila, RtCaida, RtTermina, tablas, cajero, rtbatch, red
<1>5. CASE Externo
    BY <1>5
       DEF Externo, LineaCae, FinEspera, Espera, Quedan, LineaSube, HostAplica,
           Responde, HostAnula, PierdePedido, COMM_unso, tablas, cajero, rtbatch, red
<1>6. CASE Cae \/ RtCae
    BY <1>6
       DEF Cae, LimpiaReverso, RtCae, LimpiaLote, Quedan, tablas, cajero, rtbatch, red
<1> QED
    BY <1>1, <1>2, <1>3, <1>4, <1>5, <1>6 DEF Next

\* The steps that write the totals: the close and the login.
LEMMA QuienEscribeTots ==
    Next => \/ UNCHANGED tots
            \/ Cierra
            \/ jnl_init_resync
<1>1. CASE Cajero
    BY <1>1
       DEF Cajero, JNLprelog_tran, COMM_stat_init, EstadoInicial, CDSchk_trxs_caidas,
           RecuperacionesPendientes, RechazaTrx, LiberaAbandonada, Tomadas99, COMM_send,
           COMM_rcv_event, Veredicto, FinEspera, Espera, SinRespuesta, Quedan, ErrorComm,
           CDSop_marca_cien, EsCaida, LimpiaReverso, Cierra, CierraTrx, tablas, cajero,
           rtbatch, red
<1>2. CASE Recuperacion
    BY <1>2
       DEF Recuperacion, TomaFila, PorRecuperar, Pendientes, EnVuelo, FinRecuperacion,
           MISCjnl_reverso_auto, AnalizaSinLinea, LimpiaReverso, EnviaReverso,
           MISCjnl_corregida, EstadoReverso, CierraFila, CaidaEnReverso, FinReversoCaido,
           tablas, cajero, rtbatch, red
<1>3. CASE Login
    BY <1>3
       DEF Login, TRANlogin, Suelta, jnl_cust_chk_snddwn, EstadoCaida, PorExaminar,
           ReExamina, ActualizaJournal, jnl_init_resync, Resincroniza, tablas, cajero,
           rtbatch, red
<1>4. CASE RTBatch
    BY <1>4
       DEF RTBatch, RtEmpieza, CDSupd_jnl_caidas, Suelta, Tomadas99, RtToma,
           RtPendientes, Pendientes, EnVuelo, RtAgota, RtEncuentra, RtBorra, LimpiaLote,
           NoCai, RtEnvia, RtRecibe, Veredicto, RtSinRespuesta, Quedan, RtActualiza,
           EstadoReverso, RtCierraFila, RtCaida, RtTermina, tablas, cajero, rtbatch, red
<1>5. CASE Externo
    BY <1>5
       DEF Externo, LineaCae, FinEspera, Espera, Quedan, LineaSube, HostAplica,
           Responde, HostAnula, PierdePedido, COMM_unso, tablas, cajero, rtbatch, red
<1>6. CASE Cae \/ RtCae
    BY <1>6
       DEF Cae, LimpiaReverso, RtCae, LimpiaLote, Quedan, tablas, cajero, rtbatch, red
<1> QED
    BY <1>1, <1>2, <1>3, <1>4, <1>5, <1>6 DEF Next

\* Only the RT batch moves its own process.
LEMMA QuienEscribeLote ==
    Next => UNCHANGED rtbatch \/ RTBatch \/ RtCae
<1>1. CASE Cajero
    BY <1>1
       DEF Cajero, JNLprelog_tran, COMM_stat_init, EstadoInicial, CDSchk_trxs_caidas,
           RecuperacionesPendientes, RechazaTrx, LiberaAbandonada, Tomadas99, COMM_send,
           COMM_rcv_event, Veredicto, FinEspera, Espera, SinRespuesta, Quedan, ErrorComm,
           CDSop_marca_cien, EsCaida, LimpiaReverso, Cierra, CierraTrx, tablas, cajero,
           rtbatch, red
<1>2. CASE Recuperacion
    BY <1>2
       DEF Recuperacion, TomaFila, PorRecuperar, Pendientes, EnVuelo, FinRecuperacion,
           MISCjnl_reverso_auto, AnalizaSinLinea, LimpiaReverso, EnviaReverso,
           MISCjnl_corregida, EstadoReverso, CierraFila, CaidaEnReverso, FinReversoCaido,
           tablas, cajero, rtbatch, red
<1>3. CASE Login
    BY <1>3
       DEF Login, TRANlogin, Suelta, jnl_cust_chk_snddwn, EstadoCaida, PorExaminar,
           ReExamina, ActualizaJournal, jnl_init_resync, Resincroniza, tablas, cajero,
           rtbatch, red
<1>4. CASE RTBatch
    BY <1>4 DEF RTBatch
<1>5. CASE Externo
  <2>1. CASE LineaCae \/ LineaSube
    BY <2>1 DEF LineaCae, LineaSube, rtbatch
  <2>2. ASSUME NEW m \in net, HostAplica(m) \/ HostAnula(m) \/ PierdePedido(m)
        PROVE  UNCHANGED rtbatch
    BY <2>2 DEF HostAplica, Responde, HostAnula, PierdePedido, rtbatch
  <2>3. ASSUME NEW m \in ans, COMM_unso(m) PROVE UNCHANGED rtbatch
    BY <2>3 DEF COMM_unso, rtbatch
  <2> QED
    BY <1>5, <2>1, <2>2, <2>3 DEF Externo
<1>6. CASE Cae \/ RtCae
    BY <1>6
       DEF Cae, LimpiaReverso, RtCae, LimpiaLote, Quedan, tablas, cajero, rtbatch, red
<1> QED
    BY <1>1, <1>2, <1>3, <1>4, <1>5, <1>6 DEF Next

\* Only the teller, the line and a crash move the teller's process.
LEMMA QuienEscribeCajero ==
    Next => \/ UNCHANGED cajero
            \/ Cajero \/ Recuperacion \/ Login \/ LineaCae \/ Cae
<1>1. CASE Cajero
    BY <1>1 DEF Cajero
<1>2. CASE Recuperacion
    BY <1>2 DEF Recuperacion
<1>3. CASE Login
    BY <1>3 DEF Login
<1>4. CASE RTBatch
    BY <1>4
       DEF RTBatch, RtEmpieza, CDSupd_jnl_caidas, Suelta, Tomadas99, RtToma,
           RtPendientes, Pendientes, EnVuelo, RtAgota, RtEncuentra, RtBorra, LimpiaLote,
           NoCai, RtEnvia, RtRecibe, Veredicto, RtSinRespuesta, Quedan, RtActualiza,
           EstadoReverso, RtCierraFila, RtCaida, RtTermina, tablas, cajero, rtbatch, red
<1>5. CASE Externo
    <2>1. CASE LineaCae
        BY <2>1
    <2>2. CASE LineaSube
        BY <2>2 DEF LineaSube
    <2>3. CASE \E m \in net : HostAplica(m) \/ HostAnula(m) \/ PierdePedido(m)
        BY <2>3 DEF HostAplica, HostAnula, PierdePedido, Responde
    <2>4. CASE \E m \in ans : COMM_unso(m)
        BY <2>4 DEF COMM_unso
    <2> QED
        BY <1>5, <2>1, <2>2, <2>3, <2>4 DEF Externo
<1>6. CASE Cae \/ RtCae
    BY <1>6
       DEF Cae, LimpiaReverso, RtCae, LimpiaLote, Quedan, tablas, cajero, rtbatch, red
<1> QED
    BY <1>1, <1>2, <1>3, <1>4, <1>5, <1>6 DEF Next

\* Every step keeps the types of the three tables.
LEMMA TipoTablasSigue == IInv /\ Next => TipoTablas'
<1> SUFFICES ASSUME IInv, Next PROVE TipoTablas'
    OBVIOUS
<1> USE EstadosSonEstados DEF IInv, TypeOK, TipoTablas
<1>1. jnl' \in [Seq1 -> RegJnl]
    <2>1. CASE UNCHANGED jnl
        BY <2>1
    <2>2. CASE \E viaja, solo \in BOOLEAN : (solo => viaja) /\ JNLprelog_tran(viaja, solo)
        <3>1. /\ sequence + 1 \in Seq1 /\ sequence' = sequence + 1
              /\ 0 \in 0 .. MaxSeq /\ FALSE \in BOOLEAN
            BY <2>2, ReservaNatural DEF JNLprelog_tran, Seq1, TipoCajero
        <3>2. PICK viaja \in BOOLEAN, solo \in BOOLEAN : JNLprelog_tran(viaja, solo)
            BY <2>2
        <3>3. jnl' = [jnl EXCEPT ![sequence + 1] = [st |-> MEMO, viaja |-> viaja,
                          solo |-> solo, rev |-> FALSE, corr |-> 0]]
            BY <3>1, <3>2 DEF JNLprelog_tran
        <3> QED
            BY <3>1, <3>3, NuevoRegistro
    <2>3. CASE Cierra
        BY <2>3, EscribeJnl
           DEF Cierra, CierraTrx, TrxEnCurso, Transaccion, EnLogin, TipoCajero
    <2>4. CASE MISCjnl_reverso_auto
        <3>1. /\ sequence + 1 \in Seq1 /\ sequence' = sequence + 1 /\ rev' = sequence + 1
              /\ fila \in 0 .. MaxSeq /\ FALSE \in BOOLEAN /\ TRUE \in BOOLEAN
            BY <2>4 DEF MISCjnl_reverso_auto, Seq1, TipoCajero, FilasTomadas, EnReverso
        <3> QED
            BY <2>4, <3>1, NuevoRegistro DEF MISCjnl_reverso_auto
    <2>5. CASE MISCjnl_corregida
        <3> DEFINE e == EstadoReverso(tran_status, cod)
                   j == [jnl EXCEPT ![rev].st = e]
        <3>1. rev \in Seq1 /\ fila \in Seq1 /\ rev \in 0 .. MaxSeq /\ e \in Estado
            BY <2>5
               DEF MISCjnl_corregida, FilasTomadas, EnReverso, ConReverso,
                   EstadoReverso, TipoCajero
        <3>2. j \in [Seq1 -> RegJnl]
            BY <3>1, EscribeJnl
        <3>3. jnl' = [j EXCEPT ![fila].st = e, ![fila].corr = rev]
            BY <2>5 DEF MISCjnl_corregida
        <3> QED
            BY <3>1, <3>2, <3>3, EscribeCorr
    <2>6. CASE ActualizaJournal
        BY <2>6, EscribeJnl DEF ActualizaJournal, FilasTomadas, TipoCajero
    <2>7. CASE RtActualiza
        <3>1. rfila \in Seq1 /\ rfila \in 0 .. MaxSeq
            BY <2>7 DEF RtActualiza, FilasTomadas, Lote, Seq1
        <3>2. EstadoReverso(rstatus, rcod) \in Estado
            BY DEF EstadoReverso, TipoLote
        <3>3. CASE JnlBloqueado(rfila)
            BY <2>7, <3>3 DEF RtActualiza, TipoTablas
        <3>4. CASE ~JnlBloqueado(rfila)
            <4>1. jnl' = [jnl EXCEPT ![rfila].st = EstadoReverso(rstatus, rcod),
                                     ![rfila].corr = rfila]
                BY <2>7, <3>4 DEF RtActualiza
            <4> QED
                BY <3>1, <3>2, <4>1, EscribeCorr
        <3> QED
            BY <3>3, <3>4
    <2> QED
        BY <2>1, <2>2, <2>3, <2>4, <2>5, <2>6, <2>7, QuienEscribeJnl
<1>2. cai' \in [Seq1 -> RegCai]
    <2>1. CASE UNCHANGED cai
        BY <2>1
    <2>2. CASE \E s \in Seq1 : LiberaAbandonada(s)
        BY <2>2, EscribeFila DEF LiberaAbandonada
    <2>3. CASE CDSop_marca_cien
        BY <2>3
           DEF CDSop_marca_cien, EsCaida, RegCai, RegJnl, TrxEnCurso, Transaccion,
               EnLogin, TipoCajero
    <2>4. CASE \E s \in Seq1 : TomaFila(s)
        BY <2>4, EscribeFila DEF TomaFila
    <2>5. CASE AnalizaSinLinea
        BY <2>5, EscribeFila DEF AnalizaSinLinea, FilasTomadas, EnReverso
    <2>6. CASE CierraFila
        BY <2>6, EscribeFila DEF CierraFila, FilasTomadas, EnReverso, TipoCajero
    <2>7. CASE CaidaEnReverso
        BY <2>7, EscribeFila
           DEF CaidaEnReverso, FinReversoCaido, FilasTomadas, EnReverso, TipoCajero
    <2>8. CASE TRANlogin
        BY <2>8 DEF TRANlogin, Suelta, RegCai, RegJnl
    <2>9. CASE \E s \in Seq1 : jnl_cust_chk_snddwn(s)
        BY <2>9 DEF jnl_cust_chk_snddwn, EstadoCaida, RegCai, RegJnl
    <2>10. CASE RtEmpieza
        BY <2>10 DEF RtEmpieza, CDSupd_jnl_caidas, Suelta, RegCai, RegJnl
    <2>11. CASE \E s \in Seq1 : RtToma(s)
        BY <2>11, EscribeFila DEF RtToma
    <2>12. CASE RtBorra
        BY <2>12 DEF RtBorra, NoCai, RegCai
    <2>13. CASE RtCierraFila
        BY <2>13, EscribeFila DEF RtCierraFila, FilasTomadas, Lote, TipoLote
    <2>14. CASE RtTermina
        BY <2>14 DEF RtTermina, CDSupd_jnl_caidas, Suelta, RegCai, RegJnl
    <2> QED
        BY <2>1, <2>2, <2>3, <2>4, <2>5, <2>6, <2>7, <2>8, <2>9, <2>10, <2>11, <2>12,
           <2>13, <2>14, QuienEscribeCai
<1>3. tots' \in [seq : 0 .. MaxSeq, suma : [Seq1 -> Nat]]
    <2>1. CASE UNCHANGED tots
        BY <2>1
    <2>2. CASE Cierra
        BY <2>2 DEF Cierra, CierraTrx, TipoCajero, TrxEnCurso, Transaccion, EnLogin
    <2>3. CASE jnl_init_resync
        <3>1. Ultimo \in 0 .. MaxSeq
            BY UltimoUnico DEF JournalAlDia
        <3>2. Ultimo > tots.seq => [tots.suma EXCEPT ![Ultimo] = @ + 1] \in [Seq1 -> Nat]
            BY <3>1, SumaUno DEF Seq1
        <3> QED
            BY <2>3, <3>1, <3>2 DEF jnl_init_resync, Resincroniza
    <2> QED
        BY <2>1, <2>2, <2>3, QuienEscribeTots
<1> QED
    BY <1>1, <1>2, <1>3

\* Every step keeps the types of the teller's variables.
LEMMA TipoCajeroSigue ==
    IInv /\ Next => TipoCajero'
<1> SUFFICES ASSUME IInv, Next PROVE TipoCajero'
    OBVIOUS
<1> USE DEF IInv, TypeOK, TipoCajero
<1>1. CASE UNCHANGED cajero
    BY <1>1 DEF cajero
<1>2. CASE \E viaja, solo \in BOOLEAN : (solo => viaja) /\ JNLprelog_tran(viaja, solo)
    BY <1>2, ReservaNatural DEF JNLprelog_tran, Cajas, Seq1, rtbatch, red
<1>3. CASE COMM_stat_init
    BY <1>3, EstadosSonEstados DEF COMM_stat_init, EstadoInicial, Cajas, rtbatch, red
<1>4. CASE CDSchk_trxs_caidas
    BY <1>4 DEF CDSchk_trxs_caidas, Cajas, rtbatch, red
<1>5. CASE RecuperacionesPendientes
    BY <1>5, EstadosSonEstados
       DEF RecuperacionesPendientes, RechazaTrx, Cajas, rtbatch, red
<1>6. CASE \E s \in Seq1 : LiberaAbandonada(s)
    BY <1>6 DEF LiberaAbandonada, Tomadas99, Cajas, rtbatch, red, cajero
<1>7. CASE COMM_send
    BY <1>7, EstadosSonEstados DEF COMM_send, Cajas, rtbatch, red
<1>8. CASE \E m \in ans : COMM_rcv_event(m)
    BY <1>8, EstadosSonEstados
       DEF COMM_rcv_event, Veredicto, FinEspera, Espera, Cajas, TipoRed, Respuesta,
           rtbatch, red
<1>9. CASE SinRespuesta
    BY <1>9 DEF SinRespuesta, FinEspera, Espera, Quedan, Cajas, rtbatch, red
<1>10. CASE ErrorComm
    BY <1>10, EstadosSonEstados
       DEF ErrorComm, FinEspera, Espera, Quedan, Cajas, rtbatch, red
<1>11. CASE CDSop_marca_cien
    <2>1. sndrt' \in BOOLEAN
        BY <1>11 DEF CDSop_marca_cien, EsCaida
    <2>2. cancel' \in BOOLEAN
        BY <1>11 DEF CDSop_marca_cien, EsCaida
    <2> QED
        BY <1>11, <2>1, <2>2, EstadosSonEstados
           DEF CDSop_marca_cien, EsCaida, LimpiaReverso, Cajas, Codigo, rtbatch, red
<1>12. CASE Cierra
    <2>1. sndrt' \in BOOLEAN
        BY <1>12 DEF Cierra, CierraTrx
    <2>2. cancel' \in BOOLEAN
        BY <1>12 DEF Cierra, CierraTrx
    <2> QED
        BY <1>12, <2>1, <2>2, EstadosSonEstados
           DEF Cierra, CierraTrx, Cajas, rtbatch, red
<1>13. CASE \E s \in Seq1 : TomaFila(s)
    BY <1>13
       DEF TomaFila, PorRecuperar, Pendientes, EnVuelo, Cajas, TipoTablas, RegJnl, Seq1,
           rtbatch, red
<1>14. CASE FinRecuperacion
    BY <1>14 DEF FinRecuperacion, Cajas, rtbatch, red
<1>15. CASE MISCjnl_reverso_auto
    BY <1>15 DEF MISCjnl_reverso_auto, Cajas, rtbatch, red
<1>16. CASE AnalizaSinLinea
    BY <1>16, EstadosSonEstados
       DEF AnalizaSinLinea, LimpiaReverso, Cajas, Codigo, rtbatch, red
<1>17. CASE EnviaReverso
    BY <1>17, EstadosSonEstados DEF EnviaReverso, Cajas, rtbatch, red
<1>18. CASE MISCjnl_corregida
    BY <1>18 DEF MISCjnl_corregida, EstadoReverso, Cajas, rtbatch, red
<1>19. CASE CierraFila
    BY <1>19, EstadosSonEstados
       DEF CierraFila, LimpiaReverso, Cajas, Codigo, rtbatch, red
<1>20. CASE CaidaEnReverso
    <2>1. sndrt' \in BOOLEAN
        BY <1>20 DEF CaidaEnReverso, FinReversoCaido
    <2>2. cancel' \in BOOLEAN
        BY <1>20 DEF CaidaEnReverso, FinReversoCaido
    <2> QED
        BY <1>20, <2>1, <2>2, EstadosSonEstados
           DEF CaidaEnReverso, FinReversoCaido, LimpiaReverso, Cajas, Codigo, rtbatch,
               red
<1>21. CASE TRANlogin
    BY <1>21 DEF TRANlogin, Suelta, Cajas, TipoTablas, rtbatch, red
<1>22. CASE \E s \in Seq1 : jnl_cust_chk_snddwn(s)
    BY <1>22, EstadosSonEstados
       DEF jnl_cust_chk_snddwn, EstadoCaida, PorExaminar, ReExamina, Cajas, TipoTablas,
           RegCai, Seq1, rtbatch, red
<1>23. CASE ActualizaJournal
    BY <1>23 DEF ActualizaJournal, Cajas, FilasTomadas, Seq1, rtbatch, red
<1>24. CASE jnl_init_resync
    <2>1. Ultimo \in 0 .. MaxSeq
        BY UltimoUnico DEF JournalAlDia
    <2> QED
        BY <1>24, <2>1, EstadosSonEstados
           DEF jnl_init_resync, Resincroniza, Cajas, rtbatch, red
<1>25. CASE LineaCae
    <2>1. tran_status' \in Estado
        BY <1>25, EstadosSonEstados DEF LineaCae
    <2> QED
        BY <1>25, <2>1 DEF LineaCae, FinEspera, Cajas, tablas, rtbatch
<1>26. CASE Cae
    <2>1. sndrt' \in BOOLEAN
        BY <1>26 DEF Cae
    <2>2. cancel' \in BOOLEAN
        BY <1>26 DEF Cae
    <2> QED
        BY <1>26, <2>1, <2>2, EstadosSonEstados DEF Cae, LimpiaReverso, Cajas, Codigo
<1> QED
    BY <1>1, <1>2, <1>3, <1>4, <1>5, <1>6, <1>7, <1>8, <1>9, <1>10, <1>11, <1>12, <1>13,
       <1>14, <1>15, <1>16, <1>17, <1>18, <1>19, <1>20, <1>21, <1>22, <1>23, <1>24,
       <1>25, <1>26, QuienEscribeCajero DEF Cajero, Recuperacion, Login

\* Every step keeps the types of the batch's variables.
LEMMA TipoLoteSigue ==
    IInv /\ Next => TipoLote'
<1> SUFFICES ASSUME IInv, Next PROVE TipoLote'
    OBVIOUS
<1> USE DEF IInv, TypeOK, TipoLote
<1>1. CASE UNCHANGED rtbatch
    BY <1>1 DEF rtbatch
<1>2. CASE RtEmpieza
    BY <1>2, EstadosSonEstados
       DEF RtEmpieza, Lotes, Seq1, TipoTablas, RegCai, cajero, red
<1>3. CASE \E s \in Seq1 : RtToma(s)
    BY <1>3, EstadosSonEstados
       DEF RtToma, RtPendientes, Pendientes, EnVuelo, Lotes, Seq1, TipoTablas, RegCai,
           cajero, red
<1>4. CASE RtAgota
    BY <1>4, EstadosSonEstados DEF RtAgota, Lotes, cajero, red
<1>5. CASE RtEncuentra
    BY <1>5, EstadosSonEstados DEF RtEncuentra, Lotes, cajero, red
<1>6. CASE RtBorra
    BY <1>6, EstadosSonEstados
       DEF RtBorra, LimpiaLote, NoCai, Lotes, Codigo, cajero, red
<1>7. CASE RtEnvia
    BY <1>7, EstadosSonEstados DEF RtEnvia, Lotes, cajero, red
<1>8. CASE \E m \in ans : RtRecibe(m)
    BY <1>8, EstadosSonEstados
       DEF RtRecibe, Veredicto, Lotes, TipoRed, Respuesta, cajero, red
<1>9. CASE RtSinRespuesta
    BY <1>9, EstadosSonEstados DEF RtSinRespuesta, Lotes, cajero, red
<1>10. CASE RtActualiza
    BY <1>10, EstadosSonEstados DEF RtActualiza, EstadoReverso, Lotes, cajero, red
<1>11. CASE RtCierraFila
    BY <1>11, EstadosSonEstados DEF RtCierraFila, LimpiaLote, Lotes, Codigo, cajero, red
<1>12. CASE RtCaida
    BY <1>12, EstadosSonEstados DEF RtCaida, LimpiaLote, Lotes, Codigo, cajero, red
<1>13. CASE RtTermina
    BY <1>13, EstadosSonEstados DEF RtTermina, LimpiaLote, Lotes, Codigo, cajero, red
<1>14. CASE RtCae
    BY <1>14, EstadosSonEstados DEF RtCae, LimpiaLote, Lotes, Codigo, cajero, red
<1> QED
    BY <1>1, <1>2, <1>3, <1>4, <1>5, <1>6, <1>7, <1>8, <1>9, <1>10, <1>11, <1>12, <1>13,
       <1>14, QuienEscribeLote DEF RTBatch

\* The steps that use the line; a wait that ends only drops answers.
LEMMA QuienEscribeRed ==
    Next => \/ UNCHANGED red
            \/ COMM_send \/ EnviaReverso \/ RtEnvia \/ Externo
            \/ UNCHANGED <<line, host, net>> /\ ans' \subseteq ans
<1>1. CASE Cajero
    BY <1>1
       DEF Cajero, JNLprelog_tran, COMM_stat_init, EstadoInicial, CDSchk_trxs_caidas,
           RecuperacionesPendientes, RechazaTrx, LiberaAbandonada, Tomadas99, COMM_send,
           COMM_rcv_event, Veredicto, FinEspera, Espera, SinRespuesta, Quedan, ErrorComm,
           CDSop_marca_cien, EsCaida, LimpiaReverso, Cierra, CierraTrx, tablas, cajero,
           rtbatch, red
<1>2. CASE Recuperacion
    BY <1>2
       DEF Recuperacion, TomaFila, PorRecuperar, Pendientes, EnVuelo, FinRecuperacion,
           MISCjnl_reverso_auto, AnalizaSinLinea, LimpiaReverso, EnviaReverso,
           MISCjnl_corregida, EstadoReverso, CierraFila, CaidaEnReverso, FinReversoCaido,
           tablas, cajero, rtbatch, red
<1>3. CASE Login
    BY <1>3
       DEF Login, TRANlogin, Suelta, jnl_cust_chk_snddwn, EstadoCaida, PorExaminar,
           ReExamina, ActualizaJournal, jnl_init_resync, Resincroniza, tablas, cajero,
           rtbatch, red
<1>4. CASE RTBatch
    BY <1>4
       DEF RTBatch, RtEmpieza, CDSupd_jnl_caidas, Suelta, Tomadas99, RtToma,
           RtPendientes, Pendientes, EnVuelo, RtAgota, RtEncuentra, RtBorra, LimpiaLote,
           NoCai, RtRecibe, Veredicto, RtSinRespuesta, Quedan, RtActualiza, EstadoReverso,
           RtCierraFila, RtCaida, RtTermina, tablas, cajero, rtbatch, red
<1>5. CASE Externo
    BY <1>5 DEF Externo
<1>6. CASE Cae \/ RtCae
    BY <1>6
       DEF Cae, LimpiaReverso, RtCae, LimpiaLote, Quedan, tablas, cajero, rtbatch, red
<1> QED
    BY <1>1, <1>2, <1>3, <1>4, <1>5, <1>6 DEF Next

\* Every step keeps the types of the line, the host and the messages.
LEMMA TipoRedSigue == IInv /\ Next => TipoRed'
<1> SUFFICES ASSUME IInv, Next PROVE TipoRed'
    OBVIOUS
<1> USE DEF IInv, TypeOK, TipoRed
<1>1. CASE UNCHANGED red
    BY <1>1 DEF red
<1>2. CASE COMM_send
    <2>1. pc = "host_tran" => cur \in Seq1
        BY DEF TrxEnCurso, Transaccion, EnLogin
    <2>2. net' \subseteq Pedido
        BY <1>2, <2>1 DEF COMM_send, Pedido, Mensaje, Quien
    <2> QED
        BY <1>2, <2>2 DEF COMM_send
<1>3. CASE EnviaReverso
    <2>1. fila \in Seq1
        BY <1>3 DEF EnviaReverso, FilasTomadas, EnReverso
    <2>2. Mensaje("400", fila, "op") \in Pedido
        BY <2>1 DEF Pedido, Mensaje, Quien
    <2>3. net' = net \/ net' = net \union {Mensaje("400", fila, "op")}
        BY <1>3 DEF EnviaReverso
    <2> QED
        BY <1>3, <2>2, <2>3 DEF EnviaReverso
<1>4. CASE RtEnvia
    <2>1. rfila \in Seq1
        BY <1>4 DEF RtEnvia, FilasTomadas, Lote
    <2>2. net' \subseteq Pedido
        BY <1>4, <2>1 DEF RtEnvia, Pedido, Mensaje, Quien
    <2> QED
        BY <1>4, <2>2 DEF RtEnvia
<1>5. CASE LineaCae \/ LineaSube
    BY <1>5 DEF LineaCae, LineaSube, Quedan
<1>6. CASE \E m \in net : HostAplica(m) \/ HostAnula(m)
    <2>1. PICK m \in net : HostAplica(m) \/ HostAnula(m)
        BY <1>6
    <2>2. PICK e \in EstadoHost, c \in Codigo : Responde(m, e, c)
        BY <2>1 DEF HostAplica, HostAnula, EstadoHost, Codigo, Pedido
    <2>3. [tipo |-> m.tipo, seq |-> m.seq, a |-> m.de, cod |-> c] \in Respuesta
        BY DEF Pedido, Respuesta
    <2> QED
        BY <2>2, <2>3 DEF Responde
<1>7. CASE \E m \in net : PierdePedido(m)
    BY <1>7 DEF PierdePedido
<1>8. CASE \E m \in ans : COMM_unso(m)
    BY <1>8 DEF COMM_unso
<1>9. CASE UNCHANGED <<line, host, net>> /\ ans' \subseteq ans
    BY <1>9
<1> QED
    BY <1>1, <1>2, <1>3, <1>4, <1>5, <1>6, <1>7, <1>8, <1>9, QuienEscribeRed DEF Externo

\* The steps that count a crash.
LEMMA QuienCuentaCaidas ==
    Next => UNCHANGED crashes \/ Cae \/ RtCae
<1>1. CASE Cajero
    BY <1>1
       DEF Cajero, JNLprelog_tran, COMM_stat_init, CDSchk_trxs_caidas,
           RecuperacionesPendientes, RechazaTrx, LiberaAbandonada, COMM_send,
           COMM_rcv_event, SinRespuesta, ErrorComm, CDSop_marca_cien, EsCaida, Cierra,
           CierraTrx
<1>2. CASE Recuperacion
    BY <1>2
       DEF Recuperacion, TomaFila, FinRecuperacion, MISCjnl_reverso_auto,
           AnalizaSinLinea, EnviaReverso, MISCjnl_corregida, CierraFila, CaidaEnReverso,
           FinReversoCaido
<1>3. CASE Login
    BY <1>3
       DEF Login, TRANlogin, jnl_cust_chk_snddwn, EstadoCaida, ActualizaJournal,
           jnl_init_resync, Resincroniza
<1>4. CASE RTBatch
    BY <1>4
       DEF RTBatch, RtEmpieza, RtToma, RtAgota, RtEncuentra, RtBorra, RtEnvia,
           RtRecibe, RtSinRespuesta, RtActualiza, RtCierraFila, RtCaida, RtTermina
<1>5. CASE Externo
    BY <1>5
       DEF Externo, LineaCae, LineaSube, HostAplica, Responde, HostAnula,
           PierdePedido, COMM_unso
<1> QED
    BY <1>1, <1>2, <1>3, <1>4, <1>5 DEF Next

\* The crashes stay under their bound.
LEMMA CaidasAcotadas == IInv /\ Next => crashes' \in 0 .. MaxCaidas
BY QuienCuentaCaidas DEF IInv, TypeOK, Cae, RtCae

\* Together: every step keeps TypeOK.
LEMMA TypeOKSigue == IInv /\ [Next]_vars => TypeOK'
<1> SUFFICES ASSUME IInv, [Next]_vars PROVE TypeOK'
    OBVIOUS
<1>1. CASE Next
    BY <1>1, TipoTablasSigue, TipoCajeroSigue, TipoLoteSigue, TipoRedSigue,
       CaidasAcotadas
       DEF TypeOK
<1>2. CASE UNCHANGED vars
    BY <1>2
       DEF vars, tablas, cajero, rtbatch, red, IInv, TypeOK, TipoTablas, TipoCajero,
           TipoLote, TipoRed
<1> QED
    BY <1>1, <1>2

\* None of them is the absence of a record.
LEMMA EstadosNoVacios ==
    SinRegistro \notin {MEMO, HOST_ACCEPTED, TomadaOperador, TomadaBatch, HOST_REJECTED,
        SEND_ERROR, SEND_RESET, RCV_RESET, LiberadaPorEspera, HOST_RCV_DOWN,
        SESSION_LOST, HOST_COMMSRVR_DOWN}
BY DEF SinRegistro, MEMO, HOST_ACCEPTED, TomadaOperador, TomadaBatch, HOST_REJECTED,
       SEND_ERROR, SEND_RESET, RCV_RESET, LiberadaPorEspera, HOST_RCV_DOWN,
       SESSION_LOST, HOST_COMMSRVR_DOWN

\* A state in flight is neither empty nor a mark.
LEMMA EnVueloLibre ==
    ASSUME NEW e \in Estado, EnVuelo(e)
    PROVE  e # SinRegistro /\ e # TomadaOperador /\ e # TomadaBatch
BY DEF EnVuelo, Estado, SinRegistro, TomadaOperador, TomadaBatch, HOST_REJECTED,
       RECH_REV_AUTO

\* A step leaves the set of journal records as it was, or adds the next sequence.
LEMMA JnlPresencia ==
    ASSUME IInv, Next
    PROVE  \/ \A s \in Seq1 : HayJnl(s)' <=> HayJnl(s)
           \/ /\ sequence' = sequence + 1 /\ sequence' \in Seq1
              /\ \A s \in Seq1 : HayJnl(s)' <=> HayJnl(s) \/ s = sequence'
<1> USE EstadosNoVacios DEF IInv, TypeOK, TipoTablas, HayJnl
<1>1. CASE UNCHANGED jnl
    BY <1>1
<1>2. CASE \E viaja, solo \in BOOLEAN : (solo => viaja) /\ JNLprelog_tran(viaja, solo)
    <2>1. sequence + 1 \in Seq1
        BY <1>2, ReservaNatural DEF JNLprelog_tran, Seq1, TipoCajero
    <2> QED
        BY <1>2, <2>1 DEF JNLprelog_tran
<1>3. CASE Cierra
    BY <1>3 DEF Cierra, CierraTrx, EstadoPuesto, TrxEnCurso, Transaccion, EnLogin
<1>4. CASE MISCjnl_reverso_auto
    <2>1. sequence + 1 \in Seq1
        BY <1>4 DEF MISCjnl_reverso_auto, Seq1, TipoCajero
    <2> QED
        BY <1>4, <2>1 DEF MISCjnl_reverso_auto
<1>5. CASE MISCjnl_corregida
    <2>1. rev \in Seq1 /\ fila \in Seq1 /\ HayJnl(rev) /\ HayJnl(fila)
        BY <1>5
           DEF MISCjnl_corregida, FilasTomadas, EnReverso, ConReverso, FilaConJournal
    <2>2. EstadoReverso(tran_status, cod) # SinRegistro
        BY <1>5 DEF MISCjnl_corregida, EstadoReverso, EstadoPuesto
    <2> QED
        BY <1>5, <2>1, <2>2 DEF MISCjnl_corregida, RegJnl
<1>6. CASE ActualizaJournal
    BY <1>6 DEF ActualizaJournal, FilasTomadas, EstadoPuesto
<1>7. CASE RtActualiza
    <2>1. rfila \in Seq1 /\ HayJnl(rfila)
        BY <1>7 DEF RtActualiza, FilasTomadas, Lote, FilaConJournal, HayFila
    <2>2. EstadoReverso(rstatus, rcod) # SinRegistro
        BY <1>7 DEF RtActualiza, EstadoReverso, EstadoPuesto
    <2> QED
        BY <1>7, <2>1, <2>2 DEF RtActualiza, RegJnl
<1> QED
    BY <1>1, <1>2, <1>3, <1>4, <1>5, <1>6, <1>7, QuienEscribeJnl

\* A row appears for the transaction that fell, or at the login that re-examines it.
LEMMA QuienCreaFila ==
    ASSUME IInv, Next, NEW s \in Seq1, HayFila(s)'
    PROVE  HayFila(s) \/ (CDSop_marca_cien /\ s = cur) \/ jnl_cust_chk_snddwn(s)
<1> USE EstadosNoVacios DEF IInv, TypeOK, TipoTablas, HayFila
<1>1. CASE UNCHANGED cai
    BY <1>1
<1>2. CASE \E t \in Seq1 : LiberaAbandonada(t)
    BY <1>2 DEF LiberaAbandonada, Tomadas99
<1>3. CASE CDSop_marca_cien
    BY <1>3 DEF CDSop_marca_cien, EsCaida
<1>4. CASE \E t \in Seq1 : TomaFila(t)
    <2>1. PICK t \in Seq1 : TomaFila(t)
        BY <1>4
    <2>2. EnVuelo(cai[t].st)
        BY <2>1 DEF TomaFila, PorRecuperar, Pendientes
    <2> QED
        BY <2>1, <2>2, EnVueloLibre DEF RegCai, TomaFila
<1>5. CASE AnalizaSinLinea
    BY <1>5 DEF AnalizaSinLinea, FilasTomadas, EnReverso
<1>6. CASE CierraFila
    BY <1>6 DEF CierraFila, FilasTomadas, EnReverso
<1>7. CASE CaidaEnReverso
    BY <1>7 DEF CaidaEnReverso, FinReversoCaido, FilasTomadas, EnReverso
<1>8. CASE TRANlogin
    BY <1>8 DEF TRANlogin, Suelta
<1>9. CASE \E t \in Seq1 : jnl_cust_chk_snddwn(t)
    BY <1>9 DEF jnl_cust_chk_snddwn, EstadoCaida
<1>10. CASE RtEmpieza
    BY <1>10 DEF RtEmpieza, CDSupd_jnl_caidas, Suelta, Tomadas99
<1>11. CASE \E t \in Seq1 : RtToma(t)
    <2>1. PICK t \in Seq1 : RtToma(t)
        BY <1>11
    <2>2. EnVuelo(cai[t].st)
        BY <2>1 DEF RtToma, RtPendientes, Pendientes
    <2> QED
        BY <2>1, <2>2, EnVueloLibre DEF RegCai, RtToma
<1>12. CASE RtBorra
    BY <1>12 DEF RtBorra, NoCai
<1>13. CASE RtCierraFila
    BY <1>13 DEF RtCierraFila, FilasTomadas, Lote
<1>14. CASE RtTermina
    BY <1>14 DEF RtTermina, CDSupd_jnl_caidas, Suelta, Tomadas99
<1> QED
    BY <1>1, <1>2, <1>3, <1>4, <1>5, <1>6, <1>7, <1>8, <1>9, <1>10, <1>11, <1>12,
       <1>13, <1>14, QuienEscribeCai

\* A step inside the same transaction, or between two.
MismaTrx ==
    /\ UNCHANGED <<sequence, tots, cur>>
    /\ pc' = "libre" <=> pc = "libre"
    /\ EnLogin' <=> EnLogin
    /\ pc = "seguir" => pc' = "seguir"

\* Steps that leave the current transaction and the totals alone, and the others.
LEMMA QuienMueveSecuencia ==
    Next => \/ MismaTrx
            \/ \E viaja, solo \in BOOLEAN : (solo => viaja) /\ JNLprelog_tran(viaja, solo)
            \/ MISCjnl_reverso_auto \/ Cierra \/ jnl_init_resync \/ Cae
<1>1. CASE Cajero
    BY <1>1
       DEF Cajero, COMM_stat_init, CDSchk_trxs_caidas, RecuperacionesPendientes,
           RechazaTrx, LiberaAbandonada, COMM_send, COMM_rcv_event, FinEspera, Espera,
           SinRespuesta, ErrorComm, CDSop_marca_cien, EsCaida, MismaTrx, EnLogin, tablas,
           cajero, rtbatch, red
<1>2. CASE Recuperacion
    BY <1>2
       DEF Recuperacion, TomaFila, FinRecuperacion, AnalizaSinLinea, EnviaReverso,
           MISCjnl_corregida, CierraFila, CaidaEnReverso, FinReversoCaido, MismaTrx,
           EnLogin, tablas, cajero, rtbatch, red
<1>3. CASE Login
    BY <1>3
       DEF Login, TRANlogin, jnl_cust_chk_snddwn, EstadoCaida, ActualizaJournal,
           MismaTrx, EnLogin, tablas, cajero, rtbatch, red
<1>4. CASE RTBatch
    BY <1>4
       DEF RTBatch, RtEmpieza, RtToma, RtAgota, RtEncuentra, RtBorra, RtEnvia, RtRecibe,
           RtSinRespuesta, RtActualiza, RtCierraFila, RtCaida, RtTermina, MismaTrx, EnLogin,
           tablas, cajero, rtbatch, red
<1>5. CASE Externo
    <2>1. CASE LineaCae
        BY <2>1 DEF LineaCae, FinEspera, Espera, MismaTrx, EnLogin, tablas
    <2>2. CASE LineaSube
        BY <2>2 DEF LineaSube, MismaTrx, EnLogin, tablas, cajero
    <2>3. CASE \E m \in net : HostAplica(m) \/ HostAnula(m) \/ PierdePedido(m)
        BY <2>3
           DEF HostAplica, HostAnula, PierdePedido, Responde, MismaTrx, EnLogin, tablas,
               cajero
    <2>4. CASE \E m \in ans : COMM_unso(m)
        BY <2>4 DEF COMM_unso, MismaTrx, EnLogin, tablas, cajero
    <2> QED
        BY <1>5, <2>1, <2>2, <2>3, <2>4 DEF Externo
<1>6. CASE Cae \/ RtCae
    BY <1>6 DEF RtCae, MismaTrx, EnLogin, tablas, cajero, rtbatch, red
<1> QED
    BY <1>1, <1>2, <1>3, <1>4, <1>5, <1>6 DEF Next

\* Every step keeps the journal growing at its end only.
LEMMA JournalAlDiaSigue == IInv /\ Next => JournalAlDia'
<1> SUFFICES ASSUME IInv, Next PROVE JournalAlDia'
    OBVIOUS
<1> USE DEF IInv
<1>1. PICK n \in 0 .. MaxSeq : /\ EsUltimo(n) /\ tots.seq <= n
                               /\ ~EnLogin => sequence = n
                               /\ pc = "libre" => tots.seq = n
    BY DEF JournalAlDia
<1>2. Ultimo = n
    BY <1>1, UltimoUnico
<1>3. CASE /\ ~MISCjnl_reverso_auto
           /\ ~\E viaja, solo \in BOOLEAN : (solo => viaja) /\ JNLprelog_tran(viaja, solo)
    <2>1. /\ tots'.seq <= n
          /\ ~EnLogin' => sequence' = n
          /\ pc' = "libre" => tots'.seq = n
        <3>1. CASE MismaTrx
            BY <1>1, <3>1 DEF MismaTrx
        <3>2. CASE Cierra
            BY <1>1, <3>2 DEF Cierra, CierraTrx, EnLogin, TypeOK, TipoCajero
        <3>3. CASE jnl_init_resync
            BY <1>1, <1>2, <3>3 DEF jnl_init_resync, Resincroniza
        <3>4. CASE Cae
            BY <1>1, <3>4 DEF Cae, EnLogin, tablas
        <3> QED
            BY <1>3, <3>1, <3>2, <3>3, <3>4, QuienMueveSecuencia
    <2>2. EsUltimo(n)'
        <3>1. \A s \in Seq1 : HayJnl(s)' <=> HayJnl(s)
            <4>1. UNCHANGED sequence \/ Cierra \/ jnl_init_resync \/ Cae
                BY <1>3, QuienMueveSecuencia DEF MismaTrx
            <4>2. sequence' # sequence + 1 \/ UNCHANGED jnl
                BY <4>1
                   DEF Cierra, CierraTrx, jnl_init_resync, Resincroniza, Cae, tablas,
                       TypeOK, TipoCajero
            <4> QED
                BY <4>2, JnlPresencia DEF HayJnl
        <3> QED
            BY <1>1, <3>1 DEF EsUltimo, Seq1
    <2> QED
        BY <2>1, <2>2 DEF JournalAlDia
<1>4. CASE \/ MISCjnl_reverso_auto
           \/ \E viaja, solo \in BOOLEAN : (solo => viaja) /\ JNLprelog_tran(viaja, solo)
    <2>1. /\ sequence' = sequence + 1 /\ sequence = n /\ tots' = tots
          /\ pc' # "libre"
        BY <1>1, <1>4 DEF MISCjnl_reverso_auto, JNLprelog_tran, EnLogin
    <2>2. /\ sequence' \in Seq1
          /\ \A s \in Seq1 : HayJnl(s)' <=> HayJnl(s) \/ s = sequence'
        <3>1. /\ sequence' \in Seq1 /\ jnl'[sequence'].st # SinRegistro
              /\ n \in Nat /\ n + 1 > n
            <4>1. sequence + 1 \in Seq1 /\ sequence \in Nat
                BY <1>4, ReservaNatural
                   DEF MISCjnl_reverso_auto, JNLprelog_tran, Seq1, TypeOK, TipoCajero
            <4>2. jnl'[sequence + 1].st \in {MEMO, HOST_REJECTED}
                <5>1. CASE MISCjnl_reverso_auto
                    BY <2>1, <4>1, <5>1 DEF MISCjnl_reverso_auto, TypeOK, TipoTablas
                <5>2. CASE \E viaja, solo \in BOOLEAN :
                               (solo => viaja) /\ JNLprelog_tran(viaja, solo)
                    BY <2>1, <4>1, <5>2 DEF JNLprelog_tran, TypeOK, TipoTablas
                <5> QED
                    BY <1>4, <5>1, <5>2
            <4> QED
                BY <2>1, <4>1, <4>2, EstadosNoVacios
        <3>2. ~HayJnl(sequence')
            BY <1>1, <2>1, <3>1 DEF EsUltimo
        <3> QED
            BY <3>1, <3>2, JnlPresencia DEF HayJnl
    <2>3. EsUltimo(n + 1)' /\ n + 1 \in 0 .. MaxSeq /\ tots'.seq <= n + 1
        BY <1>1, <2>1, <2>2 DEF EsUltimo, Seq1, TypeOK, TipoTablas
    <2> QED
        BY <2>1, <2>3 DEF JournalAlDia
<1> QED
    BY <1>3, <1>4

\* A journal record never disappears.
LEMMA HayJnlSigue ==
    ASSUME IInv, Next, NEW s \in Seq1, HayJnl(s)
    PROVE  HayJnl(s)'
BY JnlPresencia

\* Every step keeps a journal record behind each row.
LEMMA FilaConJournalSigue == IInv /\ Next => FilaConJournal'
<1> SUFFICES ASSUME IInv, Next, NEW s \in Seq1, HayFila(s)' PROVE HayJnl(s)'
    BY DEF FilaConJournal
<1>1. HayFila(s) \/ (CDSop_marca_cien /\ s = cur) \/ jnl_cust_chk_snddwn(s)
    BY QuienCreaFila
<1>2. CASE HayFila(s)
    BY <1>2, HayJnlSigue DEF IInv, FilaConJournal
<1>3. CASE CDSop_marca_cien /\ s = cur
    BY <1>3, HayJnlSigue
       DEF IInv, CDSop_marca_cien, EsCaida, TrxEnCurso, Transaccion, EnLogin
<1>4. CASE jnl_cust_chk_snddwn(s)
    BY <1>4, HayJnlSigue
       DEF IInv, jnl_cust_chk_snddwn, EstadoCaida, PorExaminar, ReExamina, HayJnl
<1> QED
    BY <1>1, <1>2, <1>3, <1>4

\* Every step keeps the current transaction new to the totals and to jnl_caidas.
LEMMA TrxEnCursoSigue == IInv /\ Next => TrxEnCurso'
<1> SUFFICES ASSUME IInv, Next, Transaccion'
             PROVE  /\ cur' \in Seq1 /\ tots'.seq < cur' /\ cur' <= sequence'
                    /\ jnl'[cur'].st # SinRegistro
                    /\ pc' # "seguir" => cai'[cur'].st = SinRegistro
    BY DEF TrxEnCurso, HayJnl, HayFila
<1> USE DEF IInv
<1>1. CASE MismaTrx
    <2>1. /\ Transaccion /\ cur' = cur /\ tots' = tots /\ sequence' = sequence
          /\ pc' # "seguir" => pc # "seguir"
        BY <1>1 DEF MismaTrx, Transaccion
    <2>2. pc' # "seguir" => ~CDSop_marca_cien /\ ~jnl_cust_chk_snddwn(cur)
        BY <2>1
           DEF CDSop_marca_cien, EsCaida, jnl_cust_chk_snddwn, EstadoCaida, Transaccion,
               EnLogin
    <2> QED
        BY <2>1, <2>2, QuienCreaFila, HayJnlSigue DEF TrxEnCurso, HayJnl, HayFila
<1>2. CASE \E viaja, solo \in BOOLEAN : (solo => viaja) /\ JNLprelog_tran(viaja, solo)
    <2>1. /\ cur' = sequence + 1 /\ sequence' = sequence + 1 /\ UNCHANGED <<tots, cai>>
          /\ pc = "libre" /\ sequence + 1 \in Seq1 /\ jnl'[sequence + 1].st = MEMO
        BY <1>2, ReservaNatural DEF JNLprelog_tran, TypeOK, TipoCajero, TipoTablas, Seq1
    <2>2. tots.seq = sequence /\ ~HayJnl(sequence + 1) /\ sequence \in Nat
        BY <2>1 DEF JournalAlDia, EsUltimo, EnLogin, TypeOK, TipoCajero
    <2>3. jnl'[cur'].st # SinRegistro /\ cai'[cur'].st = SinRegistro
        BY <2>1, <2>2, EstadosNoVacios DEF HayJnl, HayFila, FilaConJournal
    <2> QED
        BY <2>1, <2>2, <2>3
<1>3. CASE MISCjnl_reverso_auto
    <2>1. /\ Transaccion /\ pc # "seguir" /\ UNCHANGED <<cur, tots, cai>>
          /\ sequence' = sequence + 1
        BY <1>3 DEF MISCjnl_reverso_auto, Transaccion, EnLogin
    <2> QED
        BY <2>1, HayJnlSigue DEF TrxEnCurso, HayJnl, HayFila, Seq1, TypeOK, TipoCajero
<1>4. CASE Cierra \/ jnl_init_resync \/ Cae
    BY <1>4
       DEF Cierra, CierraTrx, jnl_init_resync, Resincroniza, Cae, Transaccion, EnLogin
<1> QED
    BY <1>1, <1>2, <1>3, <1>4, QuienMueveSecuencia

\* Every step keeps the totals of a transaction at most one.
LEMMA CuentaAlDiaSigue == IInv /\ Next => CuentaAlDia'
<1> SUFFICES ASSUME IInv, Next PROVE CuentaAlDia'
    OBVIOUS
<1> USE DEF IInv, CuentaAlDia
<1>1. CASE UNCHANGED tots
    BY <1>1
<1>2. CASE Cierra
    <2>1. cur \in Seq1 /\ tots.seq < cur /\ cur <= sequence
        BY <1>2 DEF Cierra, CierraTrx, TrxEnCurso, Transaccion, EnLogin
    <2> QED
        BY <1>2, <2>1 DEF Cierra, CierraTrx, TypeOK, TipoTablas, TipoCajero, Seq1
<1>3. CASE jnl_init_resync
    <2>1. Ultimo \in 0 .. MaxSeq /\ tots.seq <= Ultimo
        BY UltimoUnico DEF JournalAlDia
    <2> QED
        BY <1>3, <2>1 DEF jnl_init_resync, Resincroniza, TypeOK, TipoTablas, Seq1
<1> QED
    BY <1>1, <1>2, <1>3, QuienEscribeTots

\* What the teller is going to write is a state.
LEMMA EstadoOpSigue ==
    ASSUME IInv, Next, pc' \notin {"libre", "stat_init", "fuera", "init"}
    PROVE  tran_status' # SinRegistro
<1> USE DEF IInv, EstadoPuesto
<1>1. CASE UNCHANGED cajero
    BY <1>1 DEF cajero
<1>2. CASE \E viaja, solo \in BOOLEAN : (solo => viaja) /\ JNLprelog_tran(viaja, solo)
    BY <1>2 DEF JNLprelog_tran
<1>3. CASE COMM_stat_init
    BY <1>3, EstadosNoVacios DEF COMM_stat_init, EstadoInicial
<1>4. CASE CDSchk_trxs_caidas
    BY <1>4 DEF CDSchk_trxs_caidas
<1>5. CASE RecuperacionesPendientes
    BY <1>5, EstadosNoVacios DEF RecuperacionesPendientes, RechazaTrx
<1>6. CASE \E s \in Seq1 : LiberaAbandonada(s)
    BY <1>6 DEF LiberaAbandonada, Tomadas99, cajero
<1>7. CASE COMM_send
    BY <1>7, EstadosNoVacios DEF COMM_send
<1>8. CASE \E m \in ans : COMM_rcv_event(m)
    BY <1>8, EstadosNoVacios DEF COMM_rcv_event, Veredicto, FinEspera, Espera
<1>9. CASE SinRespuesta
    BY <1>9 DEF SinRespuesta, FinEspera, Espera
<1>10. CASE ErrorComm
    BY <1>10, EstadosNoVacios DEF ErrorComm, FinEspera, Espera
<1>11. CASE CDSop_marca_cien
    BY <1>11 DEF CDSop_marca_cien, EsCaida
<1>12. CASE Cierra
    BY <1>12 DEF Cierra, CierraTrx
<1>13. CASE \E s \in Seq1 : TomaFila(s)
    BY <1>13 DEF TomaFila
<1>14. CASE FinRecuperacion
    BY <1>14 DEF FinRecuperacion
<1>15. CASE MISCjnl_reverso_auto
    BY <1>15 DEF MISCjnl_reverso_auto
<1>16. CASE AnalizaSinLinea
    BY <1>16, EstadosNoVacios DEF AnalizaSinLinea
<1>17. CASE EnviaReverso
    BY <1>17, EstadosNoVacios DEF EnviaReverso
<1>18. CASE MISCjnl_corregida
    BY <1>18 DEF MISCjnl_corregida
<1>19. CASE CierraFila
    BY <1>19 DEF CierraFila
<1>20. CASE CaidaEnReverso
    BY <1>20, EstadosNoVacios DEF CaidaEnReverso, FinReversoCaido
<1>21. CASE TRANlogin
    BY <1>21 DEF TRANlogin
<1>22. CASE \E s \in Seq1 : jnl_cust_chk_snddwn(s)
    BY <1>22, EstadosNoVacios DEF jnl_cust_chk_snddwn, EstadoCaida
<1>23. CASE ActualizaJournal
    BY <1>23 DEF ActualizaJournal
<1>24. CASE jnl_init_resync
    BY <1>24 DEF jnl_init_resync, Resincroniza
<1>25. CASE LineaCae
    BY <1>25, EstadosNoVacios DEF LineaCae, FinEspera, Espera
<1>26. CASE Cae
    BY <1>26 DEF Cae
<1> QED
    BY <1>1, <1>2, <1>3, <1>4, <1>5, <1>6, <1>7, <1>8, <1>9, <1>10, <1>11, <1>12, <1>13,
       <1>14, <1>15, <1>16, <1>17, <1>18, <1>19, <1>20, <1>21, <1>22, <1>23, <1>24,
       <1>25, <1>26, QuienEscribeCajero DEF Cajero, Recuperacion, Login

\* What the RT batch is going to write is a state.
LEMMA EstadoRtSigue ==
    ASSUME IInv, Next, rpc' \in {"espera", "act"}
    PROVE  rstatus' # SinRegistro
<1> USE DEF IInv, EstadoPuesto
<1>1. CASE UNCHANGED rtbatch
    BY <1>1 DEF rtbatch
<1>2. CASE RtEmpieza
    BY <1>2 DEF RtEmpieza
<1>3. CASE \E s \in Seq1 : RtToma(s)
    BY <1>3 DEF RtToma
<1>4. CASE RtAgota
    BY <1>4 DEF RtAgota
<1>5. CASE RtEncuentra
    BY <1>5 DEF RtEncuentra
<1>6. CASE RtBorra
    BY <1>6 DEF RtBorra, LimpiaLote
<1>7. CASE RtEnvia
    BY <1>7, EstadosNoVacios DEF RtEnvia
<1>8. CASE \E m \in ans : RtRecibe(m)
    BY <1>8, EstadosNoVacios DEF RtRecibe, Veredicto
<1>9. CASE RtSinRespuesta
    BY <1>9 DEF RtSinRespuesta
<1>10. CASE RtActualiza
    BY <1>10 DEF RtActualiza
<1>11. CASE RtCierraFila
    BY <1>11 DEF RtCierraFila, LimpiaLote
<1>12. CASE RtCaida
    BY <1>12 DEF RtCaida, LimpiaLote
<1>13. CASE RtTermina
    BY <1>13 DEF RtTermina, LimpiaLote
<1>14. CASE RtCae
    BY <1>14 DEF RtCae, LimpiaLote
<1> QED
    BY <1>1, <1>2, <1>3, <1>4, <1>5, <1>6, <1>7, <1>8, <1>9, <1>10, <1>11, <1>12, <1>13,
       <1>14, QuienEscribeLote DEF RTBatch

\* A step that takes no new row.
MismoReverso ==
    /\ EnReverso' => EnReverso /\ fila' = fila
    /\ ConReverso' => ConReverso /\ rev' = rev
    /\ pc' = "initjnl" => pc = "initjnl" /\ fila' = fila

\* Steps that take a row, a reversal or a record to re-examine, and the others.
LEMMA QuienTomaReverso ==
    Next => \/ MismoReverso
            \/ \E s \in Seq1 : TomaFila(s)
            \/ MISCjnl_reverso_auto
            \/ \E s \in Seq1 : jnl_cust_chk_snddwn(s)
<1>1. CASE Cajero
    BY <1>1
       DEF Cajero, JNLprelog_tran, COMM_stat_init, CDSchk_trxs_caidas,
           RecuperacionesPendientes, RechazaTrx, LiberaAbandonada, COMM_send,
           COMM_rcv_event, FinEspera, Espera, SinRespuesta, ErrorComm, CDSop_marca_cien,
           EsCaida, Cierra, CierraTrx, MismoReverso, EnReverso, ConReverso, cajero
<1>2. CASE Recuperacion
    BY <1>2
       DEF Recuperacion, FinRecuperacion, AnalizaSinLinea, EnviaReverso,
           MISCjnl_corregida, CierraFila, CaidaEnReverso, FinReversoCaido, MismoReverso,
           EnReverso, ConReverso, cajero
<1>3. CASE Login
    BY <1>3
       DEF Login, TRANlogin, ActualizaJournal, jnl_init_resync, Resincroniza,
           MismoReverso, EnReverso, ConReverso, cajero
<1>4. CASE RTBatch
    BY <1>4
       DEF RTBatch, RtEmpieza, RtToma, RtAgota, RtEncuentra, RtBorra, RtEnvia, RtRecibe,
           RtSinRespuesta, RtActualiza, RtCierraFila, RtCaida, RtTermina, MismoReverso,
           EnReverso, ConReverso, cajero
<1>5. CASE Externo
    <2>1. CASE LineaCae
        BY <2>1
           DEF LineaCae, FinEspera, Espera, MismoReverso, EnReverso, ConReverso, cajero
    <2>2. CASE LineaSube
        BY <2>2 DEF LineaSube, MismoReverso, EnReverso, ConReverso, cajero
    <2>3. CASE \E m \in net : HostAplica(m) \/ HostAnula(m) \/ PierdePedido(m)
        BY <2>3
           DEF HostAplica, HostAnula, PierdePedido, Responde, MismoReverso, EnReverso,
               ConReverso, cajero
    <2>4. CASE \E m \in ans : COMM_unso(m)
        BY <2>4 DEF COMM_unso, MismoReverso, EnReverso, ConReverso, cajero
    <2> QED
        BY <1>5, <2>1, <2>2, <2>3, <2>4 DEF Externo
<1>6. CASE Cae \/ RtCae
    BY <1>6 DEF Cae, RtCae, MismoReverso, EnReverso, ConReverso, cajero
<1> QED
    BY <1>1, <1>2, <1>3, <1>4, <1>5, <1>6 DEF Next

\* How a row the operator works on is known.
MarcaDeOp(s) == cai[s].solo \/ cai[s].st = TomadaOperador

\* The mark of the row the operator works on survives every step of the RT batch.
LEMMA MarcaOpSigue ==
    ASSUME IInv, Next, EnReverso, EnReverso'
    PROVE  cai'[fila].st # SinRegistro
           /\ (cai'[fila].solo \/ cai'[fila].st = TomadaOperador)
<1> USE EstadosNoVacios DEF IInv, TypeOK, TipoTablas
<1>0. /\ fila \in Seq1 /\ HayFila(fila) /\ HayJnl(fila) /\ MarcaDeOp(fila)
      /\ FilaDeOp(fila) /\ TomadaOperador # TomadaBatch /\ ~EnVuelo(TomadaOperador)
    BY DEF FilasTomadas, FilaConJournal, MarcaDeOp, FilaDeOp, EnReverso, EnVuelo,
           TomadaOperador, TomadaBatch, HOST_REJECTED
<1> USE DEF MarcaDeOp, HayFila, HayJnl
<1>1. CASE UNCHANGED cai
    BY <1>0, <1>1
<1>2. CASE \E s \in Seq1 : LiberaAbandonada(s)
    BY <1>2 DEF LiberaAbandonada, EnReverso
<1>3. CASE CDSop_marca_cien
    BY <1>3 DEF CDSop_marca_cien, EsCaida, EnReverso
<1>4. CASE \E s \in Seq1 : TomaFila(s)
    BY <1>4 DEF TomaFila, EnReverso
<1>5. CASE AnalizaSinLinea \/ CierraFila \/ CaidaEnReverso
    BY <1>5 DEF AnalizaSinLinea, CierraFila, CaidaEnReverso, FinReversoCaido, EnReverso
<1>6. CASE TRANlogin \/ \E s \in Seq1 : jnl_cust_chk_snddwn(s)
    BY <1>6 DEF TRANlogin, jnl_cust_chk_snddwn, EstadoCaida, EnReverso
<1>7. CASE RtEmpieza \/ RtTermina
    <2>1. PICK S \in SUBSET Seq1 : /\ cai[fila].st = TomadaOperador => fila \notin S
                                   /\ Suelta(S)
        BY <1>0, <1>7 DEF RtEmpieza, RtTermina, CDSupd_jnl_caidas, Tomadas99
    <2> QED
        BY <1>0, <2>1 DEF Suelta
<1>8. CASE \E s \in Seq1 : RtToma(s)
    <2>1. PICK s \in Seq1 : RtToma(s)
        BY <1>8
    <2>2. EnVuelo(cai[s].st) /\ ~cai[s].solo
        BY <2>1 DEF RtToma, RtPendientes, Pendientes
    <2>3. s # fila
        BY <1>0, <2>2
    <2> QED
        BY <1>0, <2>1, <2>3 DEF RtToma
<1>9. CASE RtBorra \/ RtCierraFila
    <2>1. rfila # fila
        BY <1>0, <1>9 DEF RtBorra, RtCierraFila, FilasTomadas, Lote
    <2> QED
        BY <1>0, <1>9, <2>1 DEF RtBorra, RtCierraFila
<1> QED
    BY <1>1, <1>2, <1>3, <1>4, <1>5, <1>6, <1>7, <1>8, <1>9, QuienEscribeCai

\* The mark of the row the RT batch works on survives every step of the operator.
LEMMA MarcaRtSigue ==
    ASSUME IInv, Next, Lote, Lote', rfila' = rfila
    PROVE  ~cai'[rfila].solo /\ cai'[rfila].st = TomadaBatch
<1> USE EstadosNoVacios DEF IInv, TypeOK, TipoTablas
<1>0. /\ rfila \in Seq1 /\ ~cai[rfila].solo /\ cai[rfila].st = TomadaBatch
      /\ FilaDeRT(rfila) /\ TomadaOperador # TomadaBatch /\ ~EnVuelo(TomadaBatch)
    BY DEF FilasTomadas, FilaDeRT, Lote, EnVuelo, TomadaOperador, TomadaBatch,
           HOST_REJECTED
<1>1. CASE UNCHANGED cai
    BY <1>0, <1>1
<1>2. CASE \E s \in Seq1 : LiberaAbandonada(s)
    BY <1>0, <1>2 DEF LiberaAbandonada
<1>3. CASE CDSop_marca_cien
    <2>1. cur # rfila
        BY <1>0, <1>3
           DEF CDSop_marca_cien, EsCaida, TrxEnCurso, Transaccion, EnLogin, HayFila
    <2> QED
        BY <1>0, <1>3, <2>1 DEF CDSop_marca_cien, EsCaida
<1>4. CASE \E s \in Seq1 : TomaFila(s)
    <2>1. PICK s \in Seq1 : TomaFila(s)
        BY <1>4
    <2>2. s # rfila
        BY <1>0, <2>1 DEF TomaFila, PorRecuperar, Pendientes
    <2> QED
        BY <1>0, <2>1, <2>2 DEF TomaFila
<1>5. CASE AnalizaSinLinea \/ CierraFila \/ CaidaEnReverso
    <2>1. fila # rfila
        BY <1>0, <1>5
           DEF AnalizaSinLinea, CierraFila, CaidaEnReverso, FinReversoCaido,
               FilasTomadas, EnReverso
    <2> QED
        BY <1>0, <1>5, <2>1
           DEF AnalizaSinLinea, CierraFila, CaidaEnReverso, FinReversoCaido
<1>6. CASE TRANlogin
    BY <1>0, <1>6 DEF TRANlogin, Suelta
<1>7. CASE \E s \in Seq1 : jnl_cust_chk_snddwn(s)
    BY <1>0, <1>7 DEF jnl_cust_chk_snddwn, EstadoCaida
<1>8. CASE RtEmpieza \/ RtTermina
    BY <1>8 DEF RtEmpieza, RtTermina, Lote
<1>9. CASE (\E s \in Seq1 : RtToma(s)) \/ RtBorra \/ RtCierraFila
    BY <1>9 DEF RtToma, RtBorra, RtCierraFila, Lote
<1> QED
    BY <1>1, <1>2, <1>3, <1>4, <1>5, <1>6, <1>7, <1>8, <1>9, QuienEscribeCai

\* Every step keeps the records two processes work on marked as theirs.
LEMMA FilasTomadasSigue == IInv /\ Next => FilasTomadas'
<1> SUFFICES ASSUME IInv, Next PROVE FilasTomadas'
    OBVIOUS
<1> USE DEF IInv
<1>1. EnReverso' => /\ fila' \in Seq1 /\ cai'[fila'].st # SinRegistro
                    /\ cai'[fila'].solo \/ cai'[fila'].st = TomadaOperador
    <2> SUFFICES ASSUME EnReverso'
                 PROVE  /\ fila' \in Seq1 /\ cai'[fila'].st # SinRegistro
                        /\ cai'[fila'].solo \/ cai'[fila'].st = TomadaOperador
        OBVIOUS
    <2>1. CASE EnReverso /\ fila' = fila
        BY <2>1, MarcaOpSigue DEF FilasTomadas
    <2>2. CASE \E s \in Seq1 : TomaFila(s)
        <3>1. PICK s \in Seq1 : TomaFila(s)
            BY <2>2
        <3>2. EnVuelo(cai[s].st) /\ cai[s].st \in Estado
            BY <3>1 DEF TomaFila, PorRecuperar, Pendientes, TypeOK, TipoTablas, RegCai
        <3>3. cai[s].st # SinRegistro
            BY <3>2, EnVueloLibre
        <3> QED
            BY <3>1, <3>3, EstadosNoVacios DEF TomaFila, TypeOK, TipoTablas
    <2> QED
        BY <2>1, <2>2, QuienTomaReverso
           DEF MismoReverso, MISCjnl_reverso_auto, jnl_cust_chk_snddwn, EstadoCaida,
               EnReverso
<1>2. ConReverso' => rev' \in Seq1 /\ jnl'[rev'].st # SinRegistro
    <2>1. CASE ConReverso' /\ ConReverso /\ rev' = rev
        BY <2>1, HayJnlSigue DEF FilasTomadas, HayJnl
    <2>2. CASE MISCjnl_reverso_auto
        <3>1. rev' = sequence + 1 /\ sequence + 1 \in Seq1
            BY <2>2 DEF MISCjnl_reverso_auto, TypeOK, TipoCajero, Seq1
        <3>2. jnl'[sequence + 1].st = HOST_REJECTED
            BY <2>2, <3>1 DEF MISCjnl_reverso_auto, TypeOK, TipoTablas
        <3> QED
            BY <3>1, <3>2, EstadosNoVacios
    <2> QED
        BY <2>1, <2>2, QuienTomaReverso
           DEF MismoReverso, TomaFila, jnl_cust_chk_snddwn, EstadoCaida, ConReverso
<1>3. pc' = "initjnl" => fila' \in Seq1 /\ jnl'[fila'].st # SinRegistro
    <2>1. CASE pc' = "initjnl" /\ pc = "initjnl" /\ fila' = fila
        BY <2>1, HayJnlSigue DEF FilasTomadas, HayJnl
    <2>2. CASE \E s \in Seq1 : jnl_cust_chk_snddwn(s)
        BY <2>2 DEF jnl_cust_chk_snddwn, EstadoCaida, PorExaminar, ReExamina
    <2> QED
        BY <2>1, <2>2, QuienTomaReverso DEF MismoReverso, TomaFila, MISCjnl_reverso_auto
<1>4. Lote' => /\ rfila' \in Seq1 /\ ~cai'[rfila'].solo
               /\ cai'[rfila'].st = TomadaBatch
    <2>1. CASE Lote' /\ Lote /\ rfila' = rfila
        BY <2>1, MarcaRtSigue DEF FilasTomadas
    <2>2. CASE \E s \in Seq1 : RtToma(s)
        BY <2>2 DEF RtToma, RtPendientes, TypeOK, TipoTablas, RegCai
    <2>3. Lote' => (Lote /\ rfila' = rfila) \/ \E s \in Seq1 : RtToma(s)
        <3>1. CASE UNCHANGED rtbatch
            BY <3>1 DEF rtbatch, Lote
        <3>2. CASE RTBatch
            BY <3>2
               DEF RTBatch, RtEmpieza, RtAgota, RtEncuentra, RtBorra, RtEnvia, RtRecibe,
                   RtSinRespuesta, RtActualiza, RtCierraFila, RtCaida, RtTermina, Lote
        <3>3. CASE RtCae
            BY <3>3 DEF RtCae, Lote
        <3> QED
            BY <3>1, <3>2, <3>3, QuienEscribeLote
    <2> QED
        BY <2>1, <2>2, <2>3
<1> QED
    BY <1>1, <1>2, <1>3, <1>4 DEF FilasTomadas, HayFila, HayJnl

\* Both processes write states only.
LEMMA EstadoPuestoSigue == IInv /\ Next => EstadoPuesto'
BY EstadoOpSigue, EstadoRtSigue DEF EstadoPuesto

\* The invariant holds in the initial states ...
LEMMA IInvInicial == Init => IInv
<1> SUFFICES ASSUME Init PROVE IInv
    OBVIOUS
<1> USE EstadosSonEstados DEF Init
<1>1. TypeOK
    <2>1. NoJnl \in RegJnl /\ NoCai \in RegCai
        BY DEF RegJnl, RegCai, NoJnl, NoCai
    <2>2. TipoTablas
        BY <2>1 DEF TipoTablas
    <2>3. TipoCajero
        <3>1. sndrt \in BOOLEAN
            OBVIOUS
        <3>2. cancel \in BOOLEAN
            OBVIOUS
        <3> QED
            BY <3>1, <3>2 DEF TipoCajero, Cajas, Codigo
    <2>4. TipoLote
        BY DEF TipoLote, Lotes, Codigo
    <2>5. TipoRed
        BY DEF TipoRed, EstadoHost
    <2> QED
        BY <2>2, <2>3, <2>4, <2>5 DEF TypeOK
<1>2. EsUltimo(0) /\ tots.seq = 0 /\ sequence = 0 /\ 0 \in 0 .. MaxSeq
    BY DEF EsUltimo, HayJnl, NoJnl
<1>3. JournalAlDia
    BY <1>2 DEF JournalAlDia
<1>4. FilaConJournal /\ CuentaAlDia
    BY DEF FilaConJournal, CuentaAlDia, HayFila, NoCai
<1>5. TrxEnCurso /\ EstadoPuesto /\ FilasTomadas
    BY DEF TrxEnCurso, Transaccion, EstadoPuesto, FilasTomadas, EnReverso, ConReverso,
           Lote
<1> QED
    BY <1>1, <1>3, <1>4, <1>5 DEF IInv

\* ... and every step keeps it.
LEMMA IInvInductivo == IInv /\ [Next]_vars => IInv'
<1> SUFFICES ASSUME IInv, [Next]_vars PROVE IInv'
    OBVIOUS
<1>1. CASE Next
    BY <1>1, TypeOKSigue, JournalAlDiaSigue, FilaConJournalSigue, TrxEnCursoSigue,
       EstadoPuestoSigue, FilasTomadasSigue, CuentaAlDiaSigue
       DEF IInv
<1>2. CASE UNCHANGED vars
    <2>1. TypeOK' /\ JournalAlDia' /\ FilaConJournal'
        BY <1>2, TypeOKSigue
           DEF vars, tablas, cajero, IInv, JournalAlDia, EsUltimo, EnLogin,
               FilaConJournal, HayJnl, HayFila
    <2>2. TrxEnCurso' /\ EstadoPuesto' /\ CuentaAlDia'
        BY <1>2
           DEF vars, tablas, cajero, rtbatch, IInv, TrxEnCurso, Transaccion, EnLogin,
               HayJnl, HayFila, EstadoPuesto, CuentaAlDia
    <2>3. FilasTomadas'
        BY <1>2
           DEF vars, tablas, cajero, rtbatch, IInv, FilasTomadas, EnReverso, ConReverso,
               Lote, HayJnl, HayFila
    <2> QED
        BY <2>1, <2>2, <2>3 DEF IInv
<1> QED
    BY <1>1, <1>2

\* The inductive invariant holds in every reachable state.
THEOREM Invariante == Spec => []IInv
BY IInvInicial, IInvInductivo, PTL DEF Spec

\* Every variable keeps its type, with any number of transactions and crashes.
THEOREM TypeOKSiempre == Spec => []TypeOK
<1>1. IInv => TypeOK
    BY DEF IInv
<1> QED
    BY <1>1, Invariante, PTL

\* JNLupdate_commit and jnl_init_resync never count the same transaction twice.
THEOREM CuentaSiempre == Spec => []CuentaUnaVez
<1>1. IInv => CuentaUnaVez
    BY DEF IInv, CuentaAlDia, CuentaUnaVez
<1> QED
    BY <1>1, Invariante, PTL

\* The marks 98 and 99 keep the operator (CDSjnl_mayor_cien) and the RT batch
\* (CDSrec_caidas_batch) from working on the same row, whatever is freed after a
\* wait, a crash or a login.
THEOREM RecuperadorSiempre == Spec => []UnSoloRecuperador
<1>1. IInv => UnSoloRecuperador
    <2> SUFFICES ASSUME IInv, NEW s \in Seq1, FilaDeOp(s), FilaDeRT(s) PROVE FALSE
        BY DEF UnSoloRecuperador
    <2>1. fila = s /\ rfila = s /\ EnReverso /\ Lote
        BY DEF FilaDeOp, FilaDeRT, EnReverso, Lote
    <2>2. TomadaOperador # TomadaBatch
        BY DEF TomadaOperador, TomadaBatch
    <2> QED
        BY <2>1, <2>2 DEF IInv, FilasTomadas
<1> QED
    BY <1>1, Invariante, PTL

-----------------------------------------------------------------------------
(* The second invariant, RInv: what the journal says of a cancelled          *)
(* transaction is what the host did, and it stays, when the line holds no    *)
(* answer back for a later wait.                                             *)

\* The states that are no outcome.
LEMMA SinDesenlace ==
    \A e \in {SinRegistro, MEMO, TomadaOperador, TomadaBatch, SEND_ERROR, SEND_RESET,
              RCV_RESET, LiberadaPorEspera, SESSION_LOST} : ~Definitivo(e)
BY DEF Definitivo, SinRegistro, MEMO, HOST_ACCEPTED, TomadaOperador, TomadaBatch,
       HOST_REJECTED, SEND_ERROR, SEND_RESET, RCV_RESET, LiberadaPorEspera, SESSION_LOST

\* Nor is a fall.
LEMMA CaidaSinDesenlace ==
    ASSUME NEW e \in Estado
    PROVE  EnVuelo(e) \/ EsCaida(e) => ~Definitivo(e)
BY DEF Definitivo, EnVuelo, EsCaida, Estado, HOST_ACCEPTED, HOST_REJECTED, RECH_REV_AUTO

\* What the host answered to a cancellation is an outcome, and one only.
LEMMA ResueltaUna ==
    ASSUME NEW e, NEW f, NEW h, Resuelta(e, h)
    PROVE  Definitivo(e) /\ (Resuelta(f, h) => f = e)
BY DEF Resuelta, Definitivo

\* A step of the teller that leads to a wait, to a record it is going to write or to
\* the close, and the others.
OtroPaso == pc' \in {"libre", "stat_init", "chk", "host_tran", "exit_loop", "rec",
                     "fuera", "init"}

\* A wait of the teller ends.
FinDeEspera ==
    /\ Espera /\ FinEspera
    /\ \/ \E m \in ans : /\ m.a = "op" /\ ans' = ans \ {m} /\ cod' = m.cod
                         /\ tran_status' = Veredicto(m.cod)
       \/ /\ ans' = Quedan("op") /\ cod' = cod
          /\ tran_status' \in {tran_status, SEND_ERROR} \union FallosLinea
    /\ UNCHANGED <<tablas, cur, sndrt, fila, orig, rev, rtbatch, host, net>>

\* Where the teller's process goes.
LEMMA PasosOp ==
    ASSUME Next
    PROVE  \/ UNCHANGED cajero
           \/ OtroPaso
           \/ COMM_send /\ pc' = "espera"
           \/ FinDeEspera
           \/ CDSop_marca_cien
           \/ \E s \in Seq1 : TomaFila(s)
           \/ MISCjnl_reverso_auto
           \/ EnviaReverso
           \/ MISCjnl_corregida
           \/ \E s \in Seq1 : jnl_cust_chk_snddwn(s)
<1>1. CASE Cajero
    <2>1. CASE (\E m \in ans : COMM_rcv_event(m)) \/ SinRespuesta \/ ErrorComm
        BY <2>1 DEF COMM_rcv_event, SinRespuesta, ErrorComm, FinDeEspera, tablas, rtbatch
    <2>2. CASE ~((\E m \in ans : COMM_rcv_event(m)) \/ SinRespuesta \/ ErrorComm)
        BY <1>1, <2>2
           DEF Cajero, JNLprelog_tran, COMM_stat_init, CDSchk_trxs_caidas,
               RecuperacionesPendientes, RechazaTrx, LiberaAbandonada, COMM_send, Cierra,
               CierraTrx, OtroPaso
    <2> QED
        BY <2>1, <2>2
<1>2. CASE Recuperacion
    BY <1>2
       DEF Recuperacion, FinRecuperacion, AnalizaSinLinea, CierraFila, CaidaEnReverso,
           FinReversoCaido, OtroPaso
<1>3. CASE Login
    BY <1>3 DEF Login, TRANlogin, ActualizaJournal, jnl_init_resync, Resincroniza, OtroPaso
<1>4. CASE LineaCae
    <2>1. CASE Espera
        BY <1>4, <2>1 DEF LineaCae, FinDeEspera, tablas, rtbatch
    <2>2. CASE ~Espera
        BY <1>4, <2>2 DEF LineaCae, cajero
    <2> QED
        BY <2>1, <2>2
<1>5. CASE Cae
    BY <1>5 DEF Cae, OtroPaso
<1> QED
    BY <1>1, <1>2, <1>3, <1>4, <1>5, QuienEscribeCajero

\* Where the batch's process goes.
LEMMA PasosRt ==
    ASSUME Next
    PROVE  \/ UNCHANGED rtbatch
           \/ rpc' \in {"duerme", "busca", "fin"}
           \/ \E s \in Seq1 : RtToma(s)
           \/ RtEncuentra
           \/ RtEnvia
           \/ \E m \in ans : RtRecibe(m)
           \/ RtSinRespuesta
           \/ RtActualiza
BY QuienEscribeLote
   DEF RTBatch, RtEmpieza, RtAgota, RtBorra, RtCierraFila, RtCaida, RtTermina, RtCae

\* An outcome the host answered is final for it too.
LEMMA HostEstable ==
    ASSUME IInv, Next, NEW s \in Seq1, NEW e, Resuelta(e, host[s])
    PROVE  Resuelta(e, host'[s])
<1> USE DEF IInv, TypeOK, TipoRed
<1>1. CASE UNCHANGED host
    BY <1>1
<1>2. CASE \E m \in net : HostAplica(m)
    BY <1>2 DEF HostAplica, Responde, Resuelta, Pedido
<1>3. CASE \E m \in net : HostAnula(m)
    BY <1>3 DEF HostAnula, Responde, Resuelta, Pedido
<1>4. UNCHANGED host \/ \E m \in net : HostAplica(m) \/ HostAnula(m)
    BY QuienEscribeRed
       DEF red, COMM_send, EnviaReverso, RtEnvia, Externo, LineaCae, LineaSube, PierdePedido,
           COMM_unso
<1> QED
    BY <1>1, <1>2, <1>3, <1>4

\* The fields of a journal record that no later step writes.
LEMMA RegistroSigue ==
    ASSUME IInv, Next, NEW s \in Seq1, HayJnl(s)
    PROVE  jnl'[s].rev = jnl[s].rev /\ jnl'[s].viaja = jnl[s].viaja
           /\ jnl'[s].solo = jnl[s].solo
<1> USE DEF IInv, TypeOK, TipoTablas, RegJnl
<1>1. CASE UNCHANGED jnl
    BY <1>1
<1>2. CASE MISCjnl_reverso_auto
          \/ \E viaja, solo \in BOOLEAN : (solo => viaja) /\ JNLprelog_tran(viaja, solo)
    <2>1. ~EnLogin /\ sequence' = sequence + 1 /\ sequence \in Nat
        BY <1>2 DEF MISCjnl_reverso_auto, JNLprelog_tran, EnLogin, TipoCajero
    <2>2. s # sequence'
        BY <2>1 DEF JournalAlDia, EsUltimo, Seq1
    <2>3. jnl'[s] = jnl[s]
        BY <1>2, <2>2 DEF MISCjnl_reverso_auto, JNLprelog_tran
    <2> QED
        BY <2>3
<1>3. CASE Cierra
    BY <1>3 DEF Cierra, CierraTrx
<1>4. CASE MISCjnl_corregida
    <2> DEFINE e == EstadoReverso(tran_status, cod)
               j == [jnl EXCEPT ![rev].st = e]
               k == [j EXCEPT ![fila].st = e]
    <2>1. jnl' = [k EXCEPT ![fila].corr = rev]
        BY <1>4 DEF MISCjnl_corregida
    <2>2. j[s].rev = jnl[s].rev /\ j[s].viaja = jnl[s].viaja /\ j[s].solo = jnl[s].solo
        OBVIOUS
    <2>3. k[s].rev = j[s].rev /\ k[s].viaja = j[s].viaja /\ k[s].solo = j[s].solo
        OBVIOUS
    <2>4. jnl'[s].rev = k[s].rev /\ jnl'[s].viaja = k[s].viaja /\ jnl'[s].solo = k[s].solo
        BY <2>1
    <2> QED
        BY <2>2, <2>3, <2>4
<1>5. CASE ActualizaJournal
    BY <1>5 DEF ActualizaJournal
<1>6. CASE RtActualiza
    BY <1>6 DEF RtActualiza
<1> QED
    BY <1>1, <1>2, <1>3, <1>4, <1>5, <1>6, QuienEscribeJnl

\* The record of the transaction whose cancellation is closed.
LEMMA FilaCorregida ==
    ASSUME NEW j \in [Seq1 -> RegJnl], NEW r \in Seq1, NEW f \in Seq1, r # f,
           NEW e \in Estado
    PROVE  [j EXCEPT ![r].st = e, ![f].st = e, ![f].corr = r][f].st = e
<1> DEFINE k == [j EXCEPT ![r].st = e]
           l == [k EXCEPT ![f].st = e]
<1>1. k \in [Seq1 -> RegJnl] /\ l \in [Seq1 -> RegJnl]
    BY EscribeJnl
<1>2. l[f].st = e
    BY <1>1 DEF RegJnl
<1>3. [l EXCEPT ![f].corr = r][f].st = l[f].st
    BY <1>1 DEF RegJnl
<1> QED
    BY <1>2, <1>3

\* The new record of a journal.
RegistroNuevo(s) ==
    \/ jnl'[s].st = MEMO /\ ~jnl'[s].rev /\ jnl'[s].corr = 0 /\ UNCHANGED cai
       /\ \E viaja, solo \in BOOLEAN : (solo => viaja) /\ JNLprelog_tran(viaja, solo)
    \/ jnl'[s].st = HOST_REJECTED /\ jnl'[s].rev /\ MISCjnl_reverso_auto /\ s = rev'

\* What a step does to a journal record, as far as outcomes go.
LEMMA JnlEscrito ==
    ASSUME IInv, Reversos, Next, NEW s \in Seq1
    PROVE  \/ jnl'[s] = jnl[s]
           \/ ~HayJnl(s) /\ RegistroNuevo(s)
           \/ /\ Cierra /\ s = cur
              /\ jnl'[s].st = tran_status /\ jnl'[s].corr = jnl[s].corr
           \/ /\ MISCjnl_corregida /\ s = fila /\ s # rev
              /\ jnl'[s].st = EstadoReverso(tran_status, cod) /\ jnl'[s].corr = rev
           \/ /\ MISCjnl_corregida /\ s = rev
              /\ jnl'[s].st = EstadoReverso(tran_status, cod)
           \/ /\ ActualizaJournal /\ s = fila
              /\ jnl'[s].st = tran_status /\ jnl'[s].corr = jnl[s].corr
           \/ /\ RtActualiza /\ s = rfila /\ ~JnlBloqueado(s)
              /\ jnl'[s].st = EstadoReverso(rstatus, rcod) /\ jnl'[s].corr = rfila
<1> USE DEF IInv, TypeOK, TipoTablas, RegJnl
<1>1. CASE UNCHANGED jnl
    BY <1>1
<1>2. CASE \E viaja, solo \in BOOLEAN : (solo => viaja) /\ JNLprelog_tran(viaja, solo)
    <2>1. ~EnLogin /\ sequence' = sequence + 1 /\ sequence \in Nat
        BY <1>2 DEF JNLprelog_tran, EnLogin, TipoCajero
    <2>2. s = sequence' => ~HayJnl(s)
        BY <2>1 DEF JournalAlDia, EsUltimo, Seq1
    <2>3. s # sequence' => jnl'[s] = jnl[s]
        BY <1>2 DEF JNLprelog_tran
    <2>4. s = sequence' => RegistroNuevo(s)
        <3>1. PICK viaja \in BOOLEAN, solo \in BOOLEAN :
                  (solo => viaja) /\ JNLprelog_tran(viaja, solo)
            BY <1>2
        <3>2. s = sequence' => jnl'[s] = [st |-> MEMO, viaja |-> viaja, solo |-> solo,
                                          rev |-> FALSE, corr |-> 0]
            BY <3>1 DEF JNLprelog_tran
        <3>3. UNCHANGED cai
            BY <3>1 DEF JNLprelog_tran
        <3> QED
            BY <1>2, <3>2, <3>3 DEF RegistroNuevo
    <2> QED
        BY <2>2, <2>3, <2>4
<1>3. CASE MISCjnl_reverso_auto
    <2>1. ~EnLogin /\ sequence' = sequence + 1 /\ sequence \in Nat /\ rev' = sequence'
        BY <1>3 DEF MISCjnl_reverso_auto, EnLogin, TipoCajero
    <2>2. s = sequence' => ~HayJnl(s)
        BY <2>1 DEF JournalAlDia, EsUltimo, Seq1
    <2>3. s # sequence' => jnl'[s] = jnl[s]
        BY <1>3, <2>1 DEF MISCjnl_reverso_auto
    <2>4. s = sequence' => RegistroNuevo(s)
        BY <1>3, <2>1 DEF MISCjnl_reverso_auto, RegistroNuevo
    <2> QED
        BY <2>2, <2>3, <2>4
<1>4. CASE Cierra
    BY <1>4 DEF Cierra, CierraTrx
<1>5. CASE MISCjnl_corregida
    <2> DEFINE e == EstadoReverso(tran_status, cod)
               j == [jnl EXCEPT ![rev].st = e]
               k == [j EXCEPT ![fila].st = e]
    <2>1. jnl' = [k EXCEPT ![fila].corr = rev]
        BY <1>5 DEF MISCjnl_corregida
    <2>2. rev # fila
        BY <1>5 DEF MISCjnl_corregida, FilasTomadas, EnReverso, ConReverso, Reversos
    <2>3. j \in [Seq1 -> RegJnl] /\ k \in [Seq1 -> RegJnl]
        <3>1. e \in Estado
            BY EstadosSonEstados DEF EstadoReverso, TipoCajero
        <3>2. rev \in Seq1 /\ fila \in Seq1
            BY <1>5 DEF MISCjnl_corregida, FilasTomadas, EnReverso, ConReverso
        <3>3. j \in [Seq1 -> RegJnl]
            BY <3>1, <3>2, EscribeJnl
        <3> QED
            BY <3>1, <3>2, <3>3, EscribeJnl
    <2>4. s = fila => k[s].st = e
        BY <2>3
    <2>5. s = fila => jnl'[s].st = k[s].st /\ jnl'[s].corr = rev
        BY <2>1, <2>3
    <2>6. s = rev => j[s].st = e
        OBVIOUS
    <2>7. s = rev => jnl'[s] = j[s]
        BY <2>1, <2>2
    <2>8. s # rev /\ s # fila => jnl'[s] = jnl[s]
        BY <2>1
    <2> QED
        BY <1>5, <2>2, <2>4, <2>5, <2>6, <2>7, <2>8
<1>6. CASE ActualizaJournal
    BY <1>6 DEF ActualizaJournal
<1>7. CASE RtActualiza
    <2>1. CASE JnlBloqueado(rfila) \/ s # rfila
        BY <1>7, <2>1 DEF RtActualiza
    <2>2. CASE ~JnlBloqueado(rfila) /\ s = rfila
        <3> DEFINE e == EstadoReverso(rstatus, rcod)
                   j == [jnl EXCEPT ![rfila].st = e]
        <3>1. jnl' = [j EXCEPT ![rfila].corr = rfila]
            BY <1>7, <2>2 DEF RtActualiza
        <3>2. j[s].st = e
            BY <2>2
        <3>3. jnl'[s].st = j[s].st /\ jnl'[s].corr = rfila
            BY <2>2, <3>1
        <3> QED
            BY <1>7, <2>2, <3>2, <3>3
    <2> QED
        BY <2>1, <2>2
<1> QED
    BY <1>1, <1>2, <1>3, <1>4, <1>5, <1>6, <1>7, QuienEscribeJnl

\* The journal record the teller works on is not the one of its transaction.
LEMMA FilaAjena ==
    ASSUME IInv, Transaccion, EnReverso
    PROVE  fila # cur
BY DEF IInv, FilasTomadas, TrxEnCurso, EnReverso, Transaccion, EnLogin

\* Every step keeps the current transaction without an outcome.
LEMMA TrxSinDesenlaceSigue == IInv /\ RInv /\ Next => TrxSinDesenlace'
<1> SUFFICES ASSUME IInv, RInv, Next, Transaccion'
             PROVE  /\ jnl'[cur'].st = MEMO /\ ~jnl'[cur'].rev /\ jnl'[cur'].corr = 0
                    /\ pc' = "seguir" /\ cai'[cur'].st # SinRegistro => EsCaida(tran_status')
                    /\ Lote' /\ rfila' = cur' => rpc' = "match" /\ EnVuelo(rorig')
    BY DEF TrxSinDesenlace, HayFila
<1> USE DEF IInv, RInv
<1>1. CASE \E viaja, solo \in BOOLEAN : (solo => viaja) /\ JNLprelog_tran(viaja, solo)
    <2>1. ~EnLogin /\ sequence' = sequence + 1 /\ sequence \in Nat /\ cur' = sequence'
          /\ pc' = "stat_init" /\ UNCHANGED rtbatch
        BY <1>1 DEF JNLprelog_tran, EnLogin, TypeOK, TipoCajero
    <2>2. cur' \in Seq1 /\ ~HayJnl(cur')
        BY <1>1, <2>1, ReservaNatural DEF JNLprelog_tran, JournalAlDia, EsUltimo, Seq1
    <2>3. jnl'[cur'].st = MEMO /\ ~jnl'[cur'].rev /\ jnl'[cur'].corr = 0
        BY <1>1, <2>2 DEF JNLprelog_tran, TypeOK, TipoTablas
    <2>4. ~(Lote' /\ rfila' = cur')
        BY <2>1, <2>2, EstadosNoVacios DEF FilasTomadas, FilaConJournal, HayFila, Lote, rtbatch
    <2> QED
        BY <2>1, <2>3, <2>4
<1>2. CASE ~\E viaja, solo \in BOOLEAN : (solo => viaja) /\ JNLprelog_tran(viaja, solo)
    <2>1. Transaccion /\ cur' = cur /\ cur \in Seq1 /\ HayJnl(cur) /\ cur <= sequence
          /\ (pc = "seguir" => pc' = "seguir")
        <3>1. MismaTrx \/ MISCjnl_reverso_auto
            BY <1>2, QuienMueveSecuencia
               DEF Cierra, CierraTrx, jnl_init_resync, Resincroniza, Cae, Transaccion,
                   EnLogin
        <3> QED
            BY <3>1 DEF MismaTrx, MISCjnl_reverso_auto, Transaccion, EnLogin, TrxEnCurso
    <2>2. jnl[cur].st = MEMO /\ ~jnl[cur].rev /\ jnl[cur].corr = 0
        BY <2>1 DEF TrxSinDesenlace
    <2>3. jnl'[cur] = jnl[cur]
        <3>1. ~Cierra /\ ~ActualizaJournal
            BY <2>1 DEF Cierra, CierraTrx, ActualizaJournal, Transaccion, EnLogin
        <3>2. ~(MISCjnl_corregida /\ cur = fila)
            BY <2>1, FilaAjena DEF MISCjnl_corregida, EnReverso
        <3>3. ~(MISCjnl_corregida /\ cur = rev)
            BY <2>2 DEF MISCjnl_corregida, Reversos, ConReverso
        <3>4. ~(RtActualiza /\ cur = rfila)
            BY <2>1 DEF RtActualiza, TrxSinDesenlace, Lote
        <3> QED
            BY <2>1, <3>1, <3>2, <3>3, <3>4, JnlEscrito
    <2>4. pc' = "seguir" /\ cai'[cur'].st # SinRegistro => EsCaida(tran_status')
        <3>1. CASE CDSop_marca_cien
            <4>1. pc # "seguir" /\ cai[cur].st = SinRegistro /\ tran_status' = tran_status
                BY <2>1, <3>1 DEF CDSop_marca_cien, TrxEnCurso, HayFila
            <4>2. ~EsCaida(tran_status) => cai' = cai
                BY <3>1 DEF CDSop_marca_cien
            <4> QED
                BY <2>1, <4>1, <4>2
        <3>2. CASE pc' = "seguir" /\ ~CDSop_marca_cien
            <4>1. UNCHANGED cajero
                BY <3>2, PasosOp
                   DEF OtroPaso, FinDeEspera, FinEspera, TomaFila, MISCjnl_reverso_auto,
                       EnviaReverso, MISCjnl_corregida, jnl_cust_chk_snddwn, EstadoCaida
            <4>2. HayFila(cur)' => HayFila(cur)
                BY <2>1, <3>2, QuienCreaFila DEF jnl_cust_chk_snddwn
            <4> QED
                BY <2>1, <3>2, <4>1, <4>2 DEF TrxSinDesenlace, cajero, HayFila
        <3> QED
            BY <3>1, <3>2
    <2>5. Lote' /\ rfila' = cur' => rpc' = "match" /\ EnVuelo(rorig')
        <3> SUFFICES ASSUME Lote', rfila' = cur PROVE rpc' = "match" /\ EnVuelo(rorig')
            BY <2>1
        <3>1. CASE UNCHANGED rtbatch
            BY <2>1, <3>1 DEF TrxSinDesenlace, Lote, rtbatch
        <3>2. CASE \E s \in Seq1 : RtToma(s)
            BY <3>2 DEF RtToma, RtPendientes, Pendientes
        <3>3. CASE RtEncuentra
            <4>1. Lote /\ rfila = cur /\ jnl[cur].st = rorig
                BY <3>3 DEF RtEncuentra, Lote
            <4>2. EnVuelo(rorig) /\ rorig = MEMO
                BY <2>1, <2>2, <4>1 DEF TrxSinDesenlace
            <4> QED
                BY <4>2 DEF EnVuelo, MEMO, HOST_REJECTED
        <3>4. CASE RtEnvia \/ (\E m \in ans : RtRecibe(m)) \/ RtSinRespuesta \/ RtActualiza
            <4>1. Lote /\ rfila = cur /\ rpc # "match"
                BY <3>4 DEF RtEnvia, RtRecibe, RtSinRespuesta, RtActualiza, Lote
            <4> QED
                BY <2>1, <4>1 DEF TrxSinDesenlace
        <3> QED
            BY <3>1, <3>2, <3>3, <3>4, PasosRt DEF Lote
    <2> QED
        BY <2>1, <2>2, <2>3, <2>4, <2>5
<1> QED
    BY <1>1, <1>2

\* What the teller or the batch writes as the outcome of a cancellation is what the
\* host did, and the same as was written before, if anything was.
LEMMA EscribeDesenlace ==
    ASSUME IInv, RInv, Next, NEW s \in Seq1
    PROVE  /\ MISCjnl_corregida /\ s = fila =>
                /\ Resuelta(EstadoReverso(tran_status, cod), host[s])
                /\ Definitivo(jnl[s].st) => jnl[s].st = EstadoReverso(tran_status, cod)
           /\ RtActualiza /\ s = rfila /\ ~JnlBloqueado(s) =>
                /\ Resuelta(EstadoReverso(rstatus, rcod), host[s])
                /\ Definitivo(jnl[s].st) => jnl[s].st = EstadoReverso(rstatus, rcod)
<1> USE DEF IInv, RInv
<1>1. ASSUME HayFila(s), NEW e, Resuelta(e, host[s]), Definitivo(jnl[s].st)
      PROVE  jnl[s].st = e
    <2>1. jnl[s].corr # 0 /\ ~jnl[s].rev
        BY <1>1 DEF FilaDebida, Reversos
    <2>2. Resuelta(jnl[s].st, host[s])
        BY <2>1 DEF CorregidaSegunHost
    <2> QED
        BY <1>1, <2>2, ResueltaUna
<1>2. MISCjnl_corregida /\ s = fila =>
        /\ Resuelta(EstadoReverso(tran_status, cod), host[s])
        /\ Definitivo(jnl[s].st) => jnl[s].st = EstadoReverso(tran_status, cod)
    <2> SUFFICES ASSUME MISCjnl_corregida, s = fila
                 PROVE  /\ Resuelta(EstadoReverso(tran_status, cod), host[s])
                        /\ Definitivo(jnl[s].st) =>
                              jnl[s].st = EstadoReverso(tran_status, cod)
        OBVIOUS
    <2>1. HayFila(s) /\ Resuelta(EstadoReverso(tran_status, cod), host[s])
        BY DEF MISCjnl_corregida, DesenlaceOp, FilasTomadas, EnReverso
    <2> QED
        BY <1>1, <2>1
<1>3. RtActualiza /\ s = rfila /\ ~JnlBloqueado(s) =>
        /\ Resuelta(EstadoReverso(rstatus, rcod), host[s])
        /\ Definitivo(jnl[s].st) => jnl[s].st = EstadoReverso(rstatus, rcod)
    <2> SUFFICES ASSUME RtActualiza, s = rfila, ~JnlBloqueado(s)
                 PROVE  /\ Resuelta(EstadoReverso(rstatus, rcod), host[s])
                        /\ Definitivo(jnl[s].st) =>
                              jnl[s].st = EstadoReverso(rstatus, rcod)
        OBVIOUS
    <2>1. HayFila(s) /\ Resuelta(EstadoReverso(rstatus, rcod), host[s])
        BY EstadosNoVacios DEF RtActualiza, DesenlaceRt, FilasTomadas, Lote, HayFila
    <2> QED
        BY <1>1, <2>1
<1> QED
    BY <1>2, <1>3

\* An outcome in the journal stays; of a reversal only that it has one.
LEMMA DesenlaceSigue ==
    ASSUME IInv, RInv, Next, NEW s \in Seq1, Definitivo(jnl[s].st)
    PROVE  Definitivo(jnl'[s].st) /\ (~jnl[s].rev => jnl'[s].st = jnl[s].st)
<1> USE DEF IInv, RInv
<1>1. CASE jnl'[s] = jnl[s]
    BY <1>1
<1>2. CASE ~HayJnl(s)
    BY <1>2, SinDesenlace DEF HayJnl
<1>3. CASE Cierra /\ s = cur
    <2>1. jnl[cur].st = MEMO
        BY <1>3 DEF Cierra, CierraTrx, TrxSinDesenlace, Transaccion, EnLogin
    <2> QED
        BY <1>3, <2>1, SinDesenlace
<1>4. CASE MISCjnl_corregida /\ s = fila /\ jnl'[s].st = EstadoReverso(tran_status, cod)
    BY <1>4, EscribeDesenlace
<1>5. CASE MISCjnl_corregida /\ s = rev /\ jnl'[s].st = EstadoReverso(tran_status, cod)
    <2>1. jnl[s].rev
        BY <1>5 DEF MISCjnl_corregida, Reversos, ConReverso
    <2>2. fila \in Seq1
        BY <1>5 DEF MISCjnl_corregida, FilasTomadas, EnReverso
    <2>3. Definitivo(EstadoReverso(tran_status, cod))
        BY <1>5, <2>2, EscribeDesenlace, ResueltaUna
    <2> QED
        BY <1>5, <2>1, <2>3
<1>6. CASE ActualizaJournal /\ s = fila
    BY <1>6 DEF ActualizaJournal, DesenlaceOp
<1>7. CASE /\ RtActualiza /\ s = rfila /\ ~JnlBloqueado(s)
           /\ jnl'[s].st = EstadoReverso(rstatus, rcod)
    BY <1>1, <1>7, EscribeDesenlace
<1> QED
    BY <1>1, <1>2, <1>3, <1>4, <1>5, <1>6, <1>7, JnlEscrito

\* Every step keeps each corrected record as the host answered.
LEMMA CorregidaSegunHostSigue == IInv /\ RInv /\ Next => CorregidaSegunHost'
<1> SUFFICES ASSUME IInv, RInv, Next, NEW s \in Seq1, jnl'[s].corr # 0, ~jnl'[s].rev
             PROVE  Resuelta(jnl'[s].st, host'[s])
    BY DEF CorregidaSegunHost
<1> USE DEF IInv, RInv
<1>1. SUFFICES Resuelta(jnl'[s].st, host[s])
    BY HostEstable
<1>2. HayJnl(s) => ~jnl[s].rev
    BY RegistroSigue
<1>3. CASE HayJnl(s) /\ jnl'[s].st = jnl[s].st /\ jnl'[s].corr = jnl[s].corr
    BY <1>2, <1>3 DEF CorregidaSegunHost
<1>4. CASE ~HayJnl(s) /\ jnl'[s] = jnl[s]
    <2>1. Resuelta(jnl[s].st, host[s])
        BY <1>4 DEF CorregidaSegunHost
    <2> QED
        BY <1>4, <2>1
<1>5. CASE ~HayJnl(s) /\ RegistroNuevo(s)
    BY <1>5 DEF RegistroNuevo
<1>6. CASE Cierra /\ s = cur /\ jnl'[s].corr = jnl[s].corr
    BY <1>6 DEF Cierra, CierraTrx, TrxSinDesenlace, Transaccion, EnLogin
<1>7. CASE MISCjnl_corregida /\ s = fila /\ jnl'[s].st = EstadoReverso(tran_status, cod)
    BY <1>7, EscribeDesenlace
<1>8. CASE MISCjnl_corregida /\ s = rev
    BY <1>2, <1>8 DEF MISCjnl_corregida, Reversos, ConReverso, FilasTomadas
<1>9. CASE ActualizaJournal /\ s = fila /\ jnl'[s].corr = jnl[s].corr
    <2>1. HayJnl(s) /\ ~Definitivo(jnl[s].st)
        BY <1>9 DEF ActualizaJournal, DesenlaceOp, FilasTomadas
    <2>2. Resuelta(jnl[s].st, host[s])
        BY <1>2, <1>9, <2>1 DEF CorregidaSegunHost
    <2> QED
        BY <2>1, <2>2, ResueltaUna
<1>10. CASE /\ RtActualiza /\ s = rfila /\ ~JnlBloqueado(s)
            /\ jnl'[s].st = EstadoReverso(rstatus, rcod)
    BY <1>3, <1>4, <1>10, EscribeDesenlace
<1> QED
    BY <1>3, <1>4, <1>5, <1>6, <1>7, <1>8, <1>9, <1>10, JnlEscrito

\* Every step keeps the reversals with an outcome and without a row.
LEMMA ReversosSigue == IInv /\ RInv /\ Next => Reversos'
<1> SUFFICES ASSUME IInv, RInv, Next PROVE Reversos'
    OBVIOUS
<1> USE DEF IInv, RInv
<1>1. ASSUME NEW s \in Seq1, jnl'[s].rev
      PROVE  Definitivo(jnl'[s].st) /\ cai'[s].st = SinRegistro
    <2>1. CASE HayJnl(s)
        <3>1. jnl[s].rev /\ Definitivo(jnl[s].st) /\ ~HayFila(s)
            BY <1>1, <2>1, RegistroSigue DEF Reversos
        <3>2. ~HayFila(s)'
            <4>1. ~(CDSop_marca_cien /\ s = cur)
                BY <3>1 DEF CDSop_marca_cien, TrxSinDesenlace, Transaccion, EnLogin
            <4>2. ~jnl_cust_chk_snddwn(s)
                BY <3>1 DEF jnl_cust_chk_snddwn, PorExaminar, ReExamina
            <4> QED
                BY <3>1, <4>1, <4>2, QuienCreaFila
        <3> QED
            BY <3>1, <3>2, DesenlaceSigue DEF HayFila
    <2>2. CASE ~HayJnl(s)
        <3>1. ~HayFila(s)
            BY <2>2 DEF FilaConJournal
        <3>2. ~HayFila(s)'
            <4>1. ~(CDSop_marca_cien /\ s = cur)
                BY <2>2 DEF CDSop_marca_cien, TrxEnCurso, Transaccion, EnLogin
            <4>2. ~jnl_cust_chk_snddwn(s)
                BY <2>2 DEF jnl_cust_chk_snddwn, PorExaminar, ReExamina, HayJnl
            <4> QED
                BY <3>1, <4>1, <4>2, QuienCreaFila
        <3>3. Definitivo(jnl'[s].st)
            <4>1. jnl'[s] = jnl[s] \/ RegistroNuevo(s)
                <5>1. ~(Cierra /\ s = cur)
                    BY <2>2 DEF Cierra, CierraTrx, TrxEnCurso, Transaccion, EnLogin
                <5>2. ~(MISCjnl_corregida /\ (s = fila \/ s = rev))
                    BY <2>2
                       DEF MISCjnl_corregida, FilasTomadas, FilaConJournal, EnReverso,
                           ConReverso
                <5>3. ~(ActualizaJournal /\ s = fila)
                    BY <2>2 DEF ActualizaJournal, FilasTomadas
                <5>4. ~(RtActualiza /\ s = rfila)
                    BY <2>2, EstadosNoVacios
                       DEF RtActualiza, FilasTomadas, FilaConJournal, Lote, HayFila
                <5> QED
                    BY <5>1, <5>2, <5>3, <5>4, JnlEscrito
            <4> QED
                BY <1>1, <4>1 DEF RegistroNuevo, Reversos, Definitivo
        <3> QED
            BY <3>2, <3>3 DEF HayFila
    <2> QED
        BY <2>1, <2>2
<1>2. ConReverso' => jnl'[rev'].rev
    <2>1. CASE ConReverso /\ rev' = rev
        BY <2>1, RegistroSigue DEF Reversos, FilasTomadas
    <2>2. CASE MISCjnl_reverso_auto
        <3>1. rev' \in Seq1
            BY <2>2 DEF MISCjnl_reverso_auto, TypeOK, TipoCajero, Seq1
        <3> QED
            BY <2>2, <3>1 DEF MISCjnl_reverso_auto, TypeOK, TipoTablas
    <2> QED
        BY <2>1, <2>2, QuienTomaReverso
           DEF MismoReverso, TomaFila, jnl_cust_chk_snddwn, EstadoCaida, ConReverso
<1> QED
    BY <1>1, <1>2 DEF Reversos, HayFila

\* Every step keeps a row without an outcome that its cancellation did not give.
LEMMA FilaDebidaSigue == IInv /\ RInv /\ Next => FilaDebida'
<1> SUFFICES ASSUME IInv, RInv, Next, NEW s \in Seq1
             PROVE  /\ HayFila(s)' /\ Definitivo(jnl'[s].st) => jnl'[s].corr # 0
                    /\ Definitivo(cai'[s].st) => Definitivo(jnl'[s].st)
    BY DEF FilaDebida, HayFila
<1> USE DEF IInv, RInv
<1>1. ASSUME HayFila(s), Definitivo(jnl'[s].st) PROVE jnl'[s].corr # 0
    <2>1. CASE jnl'[s] = jnl[s]
        BY <1>1, <2>1 DEF FilaDebida
    <2>2. CASE ~HayJnl(s)
        BY <1>1, <2>2 DEF FilaConJournal
    <2>3. CASE Cierra /\ s = cur /\ jnl'[s].st = tran_status
        <3>1. EsCaida(tran_status) /\ tran_status \in Estado
            BY <1>1, <2>3
               DEF Cierra, CierraTrx, TrxSinDesenlace, Transaccion, EnLogin, TypeOK,
                   TipoCajero
        <3> QED
            BY <1>1, <2>3, <3>1, CaidaSinDesenlace
    <2>4. CASE MISCjnl_corregida /\ s = fila /\ jnl'[s].corr = rev
        BY <2>4 DEF MISCjnl_corregida, FilasTomadas, ConReverso, Seq1
    <2>5. CASE MISCjnl_corregida /\ s = rev
        BY <1>1, <2>5 DEF MISCjnl_corregida, Reversos, ConReverso
    <2>6. CASE ActualizaJournal /\ s = fila /\ jnl'[s].st = tran_status
        BY <1>1, <2>6 DEF ActualizaJournal, DesenlaceOp
    <2>7. CASE RtActualiza /\ s = rfila /\ jnl'[s].corr = rfila
        BY <2>7 DEF Seq1
    <2> QED
        BY <2>1, <2>2, <2>3, <2>4, <2>5, <2>6, <2>7, JnlEscrito
<1>2. ASSUME HayFila(s)', Definitivo(jnl'[s].st) PROVE jnl'[s].corr # 0
    <2>1. CASE CDSop_marca_cien /\ s = cur
        BY <1>2, <2>1, SinDesenlace
           DEF CDSop_marca_cien, TrxSinDesenlace, Transaccion, EnLogin
    <2>2. CASE jnl_cust_chk_snddwn(s)
        BY <1>2, <2>2 DEF jnl_cust_chk_snddwn, PorExaminar, ReExamina
    <2> QED
        BY <1>1, <1>2, <2>1, <2>2, QuienCreaFila
<1>3. ASSUME Definitivo(cai'[s].st) PROVE Definitivo(jnl[s].st)
    <2> USE DEF TypeOK, TipoTablas
    <2>1. CASE cai'[s] = cai[s]
        BY <1>3, <2>1 DEF FilaDebida
    <2>2. CASE \E t \in Seq1 : LiberaAbandonada(t)
        BY <1>3, <2>1, <2>2, SinDesenlace DEF LiberaAbandonada
    <2>3. CASE CDSop_marca_cien
        <3>1. CASE cai'[s] # cai[s]
            <4>1. EsCaida(tran_status) /\ cai'[s].st = tran_status
                BY <2>3, <3>1 DEF CDSop_marca_cien
            <4> QED
                BY <1>3, <4>1, CaidaSinDesenlace DEF TipoCajero
        <3> QED
            BY <2>1, <3>1
    <2>4. CASE \E t \in Seq1 : TomaFila(t)
        BY <1>3, <2>1, <2>4, SinDesenlace DEF TomaFila
    <2>5. CASE AnalizaSinLinea
        BY <1>3, <2>1, <2>5, SinDesenlace DEF AnalizaSinLinea
    <2>6. CASE CierraFila
        <3>1. s = fila => Definitivo(jnl[s].st)
            BY <2>6 DEF CierraFila, DesenlaceOp
        <3> QED
            BY <2>1, <2>6, <3>1 DEF CierraFila
    <2>7. CASE CaidaEnReverso
        <3>1. s = fila => cai'[s].st = orig /\ EnReverso
            BY <2>7 DEF CaidaEnReverso, FinReversoCaido, EnReverso
        <3> QED
            BY <1>3, <2>1, <2>7, <3>1 DEF CaidaEnReverso, FinReversoCaido, DesenlaceOp
    <2>8. CASE TRANlogin \/ RtEmpieza \/ RtTermina
        <3>1. \E S : Suelta(S)
            BY <2>8 DEF TRANlogin, RtEmpieza, RtTermina, CDSupd_jnl_caidas
        <3>2. cai'[s] = cai[s] \/ cai'[s].st = jnl[s].st
            BY <3>1 DEF Suelta
        <3> QED
            BY <1>3, <2>1, <3>2
    <2>9. CASE \E t \in Seq1 : jnl_cust_chk_snddwn(t)
        BY <1>3, <2>1, <2>9, SinDesenlace DEF jnl_cust_chk_snddwn
    <2>10. CASE \E t \in Seq1 : RtToma(t)
        BY <1>3, <2>1, <2>10, SinDesenlace DEF RtToma
    <2>11. CASE RtBorra
        BY <1>3, <2>1, <2>11, SinDesenlace DEF RtBorra, NoCai
    <2>12. CASE RtCierraFila
        <3>1. s = rfila => cai'[s].st = rstatus
            BY <2>12 DEF RtCierraFila
        <3> QED
            BY <1>3, <2>1, <2>12, <3>1 DEF RtCierraFila, DesenlaceRt
    <2> QED
        BY <2>1, <2>2, <2>3, <2>4, <2>5, <2>6, <2>7, <2>8, <2>9, <2>10, <2>11, <2>12,
           QuienEscribeCai
<1> QED
    BY <1>2, <1>3, DesenlaceSigue

\* A row the teller keeps on working on is the one it took.
LEMMA MismaFila ==
    ASSUME Next, EnReverso'
    PROVE  \/ \E s \in Seq1 : TomaFila(s)
           \/ EnReverso /\ fila' = fila /\ orig' = orig
<1>1. CASE FinDeEspera
    BY <1>1 DEF FinDeEspera, FinEspera, Espera, EnReverso
<1>2. CASE OtroPaso \/ (COMM_send /\ pc' = "espera") \/ CDSop_marca_cien
           \/ \E s \in Seq1 : jnl_cust_chk_snddwn(s)
    BY <1>2 DEF OtroPaso, CDSop_marca_cien, jnl_cust_chk_snddwn, EstadoCaida, EnReverso
<1>3. CASE UNCHANGED cajero
    BY <1>3 DEF cajero, EnReverso
<1>4. CASE MISCjnl_reverso_auto \/ EnviaReverso \/ MISCjnl_corregida
    BY <1>4 DEF MISCjnl_reverso_auto, EnviaReverso, MISCjnl_corregida, EnReverso
<1> QED
    BY <1>1, <1>2, <1>3, <1>4, PasosOp

\* Every step keeps what the teller is going to write an outcome of the host.
LEMMA DesenlaceOpSigue == IInv /\ RInv /\ Next => DesenlaceOp'
<1> SUFFICES ASSUME IInv, RInv, Next PROVE DesenlaceOp'
    OBVIOUS
<1> USE DEF IInv, RInv
<1>1. EnReverso' /\ Definitivo(orig') => Definitivo(jnl'[fila'].st)
    <2> SUFFICES ASSUME EnReverso', Definitivo(orig') PROVE Definitivo(jnl'[fila'].st)
        OBVIOUS
    <2>1. CASE \E s \in Seq1 : TomaFila(s)
        BY <2>1 DEF TomaFila
    <2>2. CASE EnReverso /\ fila' = fila /\ orig' = orig
        BY <2>2, DesenlaceSigue DEF DesenlaceOp, FilasTomadas
    <2> QED
        BY <2>1, <2>2, MismaFila
<1>2. pc' = "revesp" => tran_status' > HOST_REJECTED
    <2> SUFFICES ASSUME pc' = "revesp" PROVE tran_status' > HOST_REJECTED
        OBVIOUS
    <2>1. CASE UNCHANGED cajero
        BY <2>1 DEF cajero, DesenlaceOp
    <2>2. CASE EnviaReverso
        BY <2>2 DEF EnviaReverso, RCV_RESET, HOST_REJECTED
    <2> QED
        BY <2>1, <2>2, PasosOp
           DEF OtroPaso, FinDeEspera, FinEspera, CDSop_marca_cien, TomaFila,
               MISCjnl_reverso_auto, MISCjnl_corregida, jnl_cust_chk_snddwn, EstadoCaida
<1>3. pc' = "revfin" /\ tran_status' <= HOST_REJECTED =>
          Resuelta(EstadoReverso(tran_status', cod'), host'[fila'])
    <2> SUFFICES ASSUME pc' = "revfin", tran_status' <= HOST_REJECTED
                 PROVE  Resuelta(EstadoReverso(tran_status', cod'), host'[fila'])
        OBVIOUS
    <2>1. CASE UNCHANGED cajero
        <3>1. /\ pc = "revfin" /\ tran_status' = tran_status /\ cod' = cod /\ fila' = fila
              /\ fila \in Seq1
            BY <2>1 DEF cajero, FilasTomadas, EnReverso
        <3>2. Resuelta(EstadoReverso(tran_status, cod), host[fila])
            BY <3>1 DEF DesenlaceOp
        <3> QED
            BY <3>1, <3>2, HostEstable
    <2>2. CASE EnviaReverso
        <3>1. tran_status' = SEND_ERROR
            BY <2>2 DEF EnviaReverso
        <3> QED
            BY <3>1 DEF SEND_ERROR, HOST_REJECTED
    <2>3. CASE FinDeEspera
        <3>1. pc = "revesp" /\ tran_status > HOST_REJECTED /\ UNCHANGED <<fila, host>>
            BY <2>3 DEF FinDeEspera, FinEspera, Espera, DesenlaceOp
        <3>2. PICK m \in ans : m.a = "op" /\ cod' = m.cod /\ tran_status' = Veredicto(m.cod)
            <4>1. ~(tran_status <= HOST_REJECTED)
                BY <3>1 DEF TypeOK, TipoCajero, Estado, HOST_REJECTED
            <4>2. \A e \in {SEND_ERROR, HOST_RCV_DOWN, SESSION_LOST, HOST_COMMSRVR_DOWN} :
                      ~(e <= HOST_REJECTED)
                BY DEF HOST_REJECTED, SEND_ERROR, HOST_RCV_DOWN, SESSION_LOST,
                       HOST_COMMSRVR_DOWN
            <4>3. \A e \in FallosLinea : ~(e <= HOST_REJECTED)
                BY <4>2
            <4>4. tran_status' \notin {tran_status, SEND_ERROR} \union FallosLinea
                BY <4>1, <4>2, <4>3
            <4> QED
                BY <2>3, <4>4 DEF FinDeEspera
        <3>3. m.tipo = "400" /\ m.seq = fila
            BY <3>1, <3>2 DEF Correo, DeQuien, Pedida
        <3>4. Resuelta(EstadoReverso(Veredicto(m.cod), m.cod), host[fila])
            BY <3>3 DEF Correo
        <3> QED
            BY <3>1, <3>2, <3>4
    <2> QED
        BY <2>1, <2>2, <2>3, PasosOp
           DEF OtroPaso, CDSop_marca_cien, TomaFila, MISCjnl_reverso_auto,
               MISCjnl_corregida, jnl_cust_chk_snddwn, EstadoCaida
<1>4. pc' = "revrow" => Definitivo(jnl'[fila'].st)
    <2> SUFFICES ASSUME pc' = "revrow" PROVE Definitivo(jnl'[fila'].st)
        OBVIOUS
    <2>1. CASE UNCHANGED cajero
        BY <2>1, DesenlaceSigue DEF cajero, DesenlaceOp, FilasTomadas, EnReverso
    <2>2. CASE MISCjnl_corregida
        <3>1. fila \in Seq1 /\ fila' = fila /\ fila # rev
            BY <2>2
               DEF MISCjnl_corregida, FilasTomadas, EnReverso, Reversos, ConReverso
        <3>2. Definitivo(EstadoReverso(tran_status, cod))
            BY <2>2, <3>1, EscribeDesenlace, ResueltaUna
        <3>3. jnl' = [jnl EXCEPT ![rev].st = EstadoReverso(tran_status, cod),
                          ![fila].st = EstadoReverso(tran_status, cod),
                          ![fila].corr = rev]
            BY <2>2 DEF MISCjnl_corregida
        <3>4. jnl'[fila].st = EstadoReverso(tran_status, cod)
            BY <3>1, <3>3, FilaCorregida DEF TypeOK, TipoTablas
        <3> QED
            BY <3>1, <3>2, <3>4
    <2> QED
        BY <2>1, <2>2, PasosOp
           DEF OtroPaso, FinDeEspera, FinEspera, CDSop_marca_cien, TomaFila, EnviaReverso,
               MISCjnl_reverso_auto, jnl_cust_chk_snddwn, EstadoCaida
<1>5. pc' = "initjnl" => ~Definitivo(tran_status') /\ ~Definitivo(jnl'[fila'].st)
    <2> SUFFICES ASSUME pc' = "initjnl"
                 PROVE  ~Definitivo(tran_status') /\ ~Definitivo(jnl'[fila'].st)
        OBVIOUS
    <2>1. CASE UNCHANGED cajero
        <3>1. /\ pc = "initjnl" /\ tran_status' = tran_status /\ fila' = fila
              /\ fila \in Seq1 /\ HayJnl(fila)
            BY <2>1 DEF cajero, FilasTomadas
        <3>2. ~Cierra /\ ~MISCjnl_corregida /\ ~ActualizaJournal
            BY <2>1, <3>1
               DEF Cierra, CierraTrx, MISCjnl_corregida, ActualizaJournal, cajero
        <3>3. JnlBloqueado(fila)
            BY <3>1 DEF JnlBloqueado
        <3>4. jnl'[fila] = jnl[fila]
            BY <3>1, <3>2, <3>3, JnlEscrito
        <3> QED
            BY <3>1, <3>4 DEF DesenlaceOp
    <2>2. CASE \E s \in Seq1 : jnl_cust_chk_snddwn(s)
        <3>1. PICK s \in Seq1 : jnl_cust_chk_snddwn(s)
            BY <2>2
        <3>2. /\ tran_status' = EstadoCaida(s) /\ fila' = s /\ jnl' = jnl
              /\ ~Definitivo(jnl[s].st)
            BY <3>1 DEF jnl_cust_chk_snddwn, PorExaminar, ReExamina
        <3>3. ~Definitivo(EstadoCaida(s))
            BY <3>2, SinDesenlace DEF EstadoCaida, FilaDebida
        <3> QED
            BY <3>2, <3>3
    <2> QED
        BY <2>1, <2>2, PasosOp
           DEF OtroPaso, FinDeEspera, FinEspera, CDSop_marca_cien, TomaFila, EnviaReverso,
               MISCjnl_reverso_auto, MISCjnl_corregida
<1> QED
    BY <1>1, <1>2, <1>3, <1>4, <1>5 DEF DesenlaceOp

\* Every step keeps what the batch is going to write an outcome of the host.
LEMMA DesenlaceRtSigue == IInv /\ RInv /\ Next => DesenlaceRt'
<1> SUFFICES ASSUME IInv, RInv, Next PROVE DesenlaceRt'
    OBVIOUS
<1> USE DEF IInv, RInv
<1>1. Lote' => ~Definitivo(rorig')
    <2> SUFFICES ASSUME Lote' PROVE ~Definitivo(rorig')
        OBVIOUS
    <2>1. CASE Lote /\ rorig' = rorig
        BY <2>1 DEF DesenlaceRt
    <2>2. CASE \E s \in Seq1 : RtToma(s)
        <3>1. PICK s \in Seq1 : RtToma(s)
            BY <2>2
        <3>2. rorig' = cai[s].st /\ EnVuelo(cai[s].st)
            BY <3>1 DEF RtToma, RtPendientes, Pendientes
        <3>3. cai[s].st \in Estado
            BY DEF TypeOK, TipoTablas, RegCai
        <3> QED
            BY <3>2, <3>3, CaidaSinDesenlace
    <2> QED
        BY <2>1, <2>2, PasosRt
           DEF rtbatch, Lote, RtEncuentra, RtEnvia, RtRecibe, RtSinRespuesta, RtActualiza
<1>2. rpc' = "espera" => rstatus' > HOST_REJECTED
    <2> SUFFICES ASSUME rpc' = "espera" PROVE rstatus' > HOST_REJECTED
        OBVIOUS
    <2>1. CASE UNCHANGED rtbatch
        BY <2>1 DEF rtbatch, DesenlaceRt
    <2>2. CASE RtEnvia
        BY <2>2 DEF RtEnvia, RCV_RESET, HOST_REJECTED
    <2> QED
        BY <2>1, <2>2, PasosRt
           DEF RtToma, RtEncuentra, RtRecibe, RtSinRespuesta, RtActualiza
<1>3. rpc' = "act" /\ rstatus' <= HOST_REJECTED =>
          Resuelta(EstadoReverso(rstatus', rcod'), host'[rfila'])
    <2> SUFFICES ASSUME rpc' = "act", rstatus' <= HOST_REJECTED
                 PROVE  Resuelta(EstadoReverso(rstatus', rcod'), host'[rfila'])
        OBVIOUS
    <2>1. CASE UNCHANGED rtbatch
        <3>1. /\ rpc = "act" /\ rstatus' = rstatus /\ rcod' = rcod /\ rfila' = rfila
              /\ rfila \in Seq1
            BY <2>1 DEF rtbatch, FilasTomadas, Lote
        <3>2. Resuelta(EstadoReverso(rstatus, rcod), host[rfila])
            BY <3>1 DEF DesenlaceRt
        <3> QED
            BY <3>1, <3>2, HostEstable
    <2>2. CASE RtEnvia
        <3>1. rstatus' = SEND_ERROR
            BY <2>2 DEF RtEnvia
        <3> QED
            BY <3>1 DEF SEND_ERROR, HOST_REJECTED
    <2>3. CASE \E m \in ans : RtRecibe(m)
        <3>1. PICK m \in ans : RtRecibe(m)
            BY <2>3
        <3>2. m.tipo = "400" /\ m.seq = rfila
            BY <3>1 DEF RtRecibe, Correo, DeQuien
        <3>3. Resuelta(EstadoReverso(Veredicto(m.cod), m.cod), host[rfila])
            BY <3>2 DEF Correo
        <3> QED
            BY <3>1, <3>3 DEF RtRecibe
    <2>4. CASE RtSinRespuesta
        <3>1. rpc = "espera" /\ rstatus' = rstatus
            BY <2>4 DEF RtSinRespuesta
        <3> QED
            BY <3>1 DEF DesenlaceRt, TypeOK, TipoLote, Estado, HOST_REJECTED
    <2> QED
        BY <2>1, <2>2, <2>3, <2>4, PasosRt DEF RtToma, RtEncuentra, RtActualiza
<1>4. rpc' = "fila" /\ Definitivo(rstatus') => Definitivo(jnl'[rfila'].st)
    <2> SUFFICES ASSUME rpc' = "fila", Definitivo(rstatus')
                 PROVE  Definitivo(jnl'[rfila'].st)
        OBVIOUS
    <2>1. CASE UNCHANGED rtbatch
        BY <2>1, DesenlaceSigue DEF rtbatch, DesenlaceRt, FilasTomadas, Lote
    <2>2. CASE RtActualiza
        <3>1. Lote /\ rfila \in Seq1 /\ rfila' = rfila
            BY <2>2 DEF RtActualiza, FilasTomadas, Lote
        <3>2. ~JnlBloqueado(rfila)
            BY <2>2, <3>1 DEF RtActualiza, DesenlaceRt
        <3>3. jnl' = [jnl EXCEPT ![rfila].st = rstatus', ![rfila].corr = rfila]
            BY <2>2, <3>2 DEF RtActualiza
        <3>4. jnl'[rfila].st = rstatus'
            BY <3>1, <3>3 DEF TypeOK, TipoTablas, RegJnl
        <3> QED
            BY <3>1, <3>4
    <2> QED
        BY <2>1, <2>2, PasosRt DEF RtToma, RtEncuentra, RtEnvia, RtRecibe, RtSinRespuesta
<1> QED
    BY <1>1, <1>2, <1>3, <1>4 DEF DesenlaceRt

\* How a wait of the teller ends,
LEMMA PasosEspera ==
    ASSUME Next, Espera
    PROVE  UNCHANGED cajero \/ FinDeEspera \/ Cae
<1>1. CASE Cajero
    <2>1. CASE (\E m \in ans : COMM_rcv_event(m)) \/ SinRespuesta \/ ErrorComm
        BY <2>1 DEF COMM_rcv_event, SinRespuesta, ErrorComm, FinDeEspera, tablas, rtbatch
    <2>2. CASE ~((\E m \in ans : COMM_rcv_event(m)) \/ SinRespuesta \/ ErrorComm)
        BY <1>1, <2>2
           DEF Cajero, JNLprelog_tran, COMM_stat_init, CDSchk_trxs_caidas,
               RecuperacionesPendientes, RechazaTrx, LiberaAbandonada, COMM_send,
               CDSop_marca_cien, EsCaida, Cierra, CierraTrx, Espera
    <2> QED
        BY <2>1, <2>2
<1>2. CASE Recuperacion
    BY <1>2
       DEF Recuperacion, TomaFila, FinRecuperacion, MISCjnl_reverso_auto, AnalizaSinLinea,
           EnviaReverso, MISCjnl_corregida, CierraFila, CaidaEnReverso, FinReversoCaido,
           Espera
<1>3. CASE Login
    BY <1>3
       DEF Login, TRANlogin, jnl_cust_chk_snddwn, EstadoCaida, ActualizaJournal,
           jnl_init_resync, Resincroniza, Espera
<1>4. CASE LineaCae
    BY <1>4 DEF LineaCae, FinDeEspera, tablas, rtbatch
<1> QED
    BY <1>1, <1>2, <1>3, <1>4, QuienEscribeCajero

\* and one of the batch.
LEMMA PasosEsperaRt ==
    ASSUME Next, rpc = "espera"
    PROVE  UNCHANGED rtbatch \/ (\E m \in ans : RtRecibe(m)) \/ RtSinRespuesta \/ RtCae
BY QuienEscribeLote
   DEF RTBatch, RtEmpieza, RtToma, RtAgota, RtEncuentra, RtBorra, RtEnvia, RtActualiza,
       RtCierraFila, RtCaida, RtTermina

\* An answer that stays on the line stays that of its wait.
LEMMA RespuestaSigue ==
    ASSUME RespTardias = FALSE, IInv, Correo, Next, NEW m \in ans, m \in ans'
    PROVE  DeQuien(m)'
<1>1. DeQuien(m) /\ \A n \in ans : n.a = m.a => n = m
    BY DEF Correo
<1>2. CASE m.a = "op"
    <2>1. Espera /\ m.tipo = Pedida.tipo /\ m.seq = Pedida.seq
        BY <1>1, <1>2 DEF DeQuien
    <2>2. CASE UNCHANGED cajero
        BY <1>2, <2>1, <2>2 DEF cajero, DeQuien, Espera, Pedida
    <2>3. CASE FinDeEspera
        <3>1. CASE \E n \in ans : n.a = "op" /\ ans' = ans \ {n}
            BY <1>1, <1>2, <3>1
        <3>2. CASE ans' = Quedan("op")
            BY <1>2, <3>2 DEF Quedan
        <3> QED
            BY <2>3, <3>1, <3>2 DEF FinDeEspera
    <2>4. CASE Cae
        BY <1>2, <2>4 DEF Cae
    <2> QED
        BY <2>1, <2>2, <2>3, <2>4, PasosEspera
<1>3. CASE m.a # "op"
    <2>1. m.a = "rt" /\ rpc = "espera" /\ m.tipo = "400" /\ m.seq = rfila
        BY <1>1, <1>3 DEF DeQuien
    <2>2. CASE UNCHANGED rtbatch
        BY <2>1, <2>2 DEF rtbatch, DeQuien
    <2>3. CASE \E n \in ans : RtRecibe(n)
        BY <1>1, <2>1, <2>3 DEF RtRecibe
    <2>4. CASE RtSinRespuesta \/ RtCae
        BY <2>1, <2>4 DEF RtSinRespuesta, RtCae, Quedan
    <2> QED
        BY <2>1, <2>2, <2>3, <2>4, PasosEsperaRt
<1> QED
    BY <1>2, <1>3

\* What the host does to a request of the line.
Atiende(p, e, c) ==
    /\ p \in net /\ Responde(p, e, c)
    /\ p.tipo = "400" => Resuelta(EstadoReverso(Veredicto(c), c), e)

\* Requests and answers of a step: a process sends, the host answers, or nothing new.
LEMMA PasosRed ==
    ASSUME IInv, Next
    PROVE  \/ (COMM_send \/ EnviaReverso \/ RtEnvia) /\ ans' = ans
           \/ \E p \in net, e \in EstadoHost, c \in Codigo : Atiende(p, e, c)
           \/ net' \subseteq net /\ ans' \subseteq ans
<1>1. CASE COMM_send \/ EnviaReverso \/ RtEnvia
    BY <1>1 DEF COMM_send, EnviaReverso, RtEnvia
<1>2. CASE \E p \in net : HostAplica(p)
    <2>1. PICK p \in net : HostAplica(p)
        BY <1>2
    <2>2. p.tipo # "400"
        BY <2>1 DEF HostAplica
    <2>3. PICK e \in EstadoHost, c \in Codigo : Responde(p, e, c)
        BY <2>1 DEF HostAplica, EstadoHost, Codigo, IInv, TypeOK, TipoRed, Pedido
    <2> QED
        BY <2>2, <2>3 DEF Atiende
<1>3. CASE \E p \in net : HostAnula(p)
    <2>1. PICK p \in net : HostAnula(p)
        BY <1>3
    <2>2. \/ Responde(p, "anulada", "00") \/ Responde(p, "retenida", "95")
          \/ Responde(p, "anulada", "98") \/ Responde(p, "rechazada", "09")
        BY <2>1 DEF HostAnula
    <2>3. /\ Resuelta(EstadoReverso(Veredicto("00"), "00"), "anulada")
          /\ Resuelta(EstadoReverso(Veredicto("95"), "95"), "retenida")
          /\ Resuelta(EstadoReverso(Veredicto("98"), "98"), "anulada")
          /\ Resuelta(EstadoReverso(Veredicto("09"), "09"), "rechazada")
        BY DEF Resuelta, EstadoReverso, Veredicto, HOST_ACCEPTED, HOST_REJECTED
    <2> QED
        BY <2>2, <2>3 DEF Atiende, EstadoHost, Codigo
<1>4. CASE UNCHANGED red
    BY <1>4 DEF red
<1>5. CASE LineaCae \/ LineaSube \/ (\E p \in net : PierdePedido(p))
           \/ \E m \in ans : COMM_unso(m)
    BY <1>5 DEF LineaCae, LineaSube, PierdePedido, COMM_unso, Quedan
<1> QED
    BY <1>1, <1>2, <1>3, <1>4, <1>5, QuienEscribeRed DEF Externo

\* Every step keeps each answer with its wait.
LEMMA CorreoSigue ==
    ASSUME RespTardias = FALSE, IInv, RInv, Next
    PROVE  Correo'
<1> USE DEF IInv, RInv, TypeOK, TipoRed
<1>1. ASSUME NEW m \in ans, m \in ans', m.tipo = "400"
      PROVE  Resuelta(EstadoReverso(Veredicto(m.cod), m.cod), host'[m.seq])
    BY <1>1, HostEstable DEF Correo, Respuesta
<1>2. CASE net' \subseteq net /\ ans' \subseteq ans
    BY <1>1, <1>2, RespuestaSigue DEF Correo
<1>3. CASE (COMM_send \/ EnviaReverso \/ RtEnvia) /\ ans' = ans
    <2>1. COMM_send => \/ net' = net
                       \/ net' = net \union {Mensaje("200", cur, "op")} /\ pc = "host_tran"
        BY DEF COMM_send
    <2>2. EnviaReverso => \/ net' = net
                          \/ net' = net \union {Mensaje("400", fila, "op")} /\ pc = "revenv"
        BY DEF EnviaReverso
    <2>3. RtEnvia => \/ net' = net
                     \/ net' = net \union {Mensaje("400", rfila, "rt")} /\ rpc = "env"
        BY DEF RtEnvia
    <2>4. ASSUME NEW p \in net', p.de = "rt" PROVE p.tipo = "400"
        BY <1>3, <2>4, <2>1, <2>2, <2>3 DEF Mensaje, Correo
    <2>5. ASSUME NEW m \in ans' PROVE Mensaje(m.tipo, m.seq, m.a) \notin net'
        <3>1. DeQuien(m) /\ Mensaje(m.tipo, m.seq, m.a) \notin net
            BY <1>3, <2>5 DEF Correo
        <3>2. CASE COMM_send \/ EnviaReverso
            <4>1. m.a = "rt"
                BY <3>1, <3>2 DEF COMM_send, EnviaReverso, DeQuien, Espera
            <4>2. \A p \in net' \ net : p.de = "op"
                BY <3>2, <2>1, <2>2 DEF Mensaje
            <4> QED
                BY <3>1, <4>1, <4>2 DEF Mensaje
        <3>3. CASE RtEnvia
            <4>1. m.a = "op"
                BY <3>1, <3>3 DEF RtEnvia, DeQuien
            <4>2. \A p \in net' \ net : p.de = "rt"
                BY <3>3, <2>3 DEF Mensaje
            <4> QED
                BY <3>1, <4>1, <4>2 DEF Mensaje
        <3> QED
            BY <1>3, <3>2, <3>3
    <2> QED
        BY <1>1, <1>3, <2>4, <2>5, RespuestaSigue DEF Correo
<1>4. CASE \E p \in net, e \in EstadoHost, c \in Codigo : Atiende(p, e, c)
    <2>1. PICK p \in net, e \in EstadoHost, c \in Codigo : Atiende(p, e, c)
        BY <1>4
    <2> DEFINE r == [tipo |-> p.tipo, seq |-> p.seq, a |-> p.de, cod |-> c]
    <2>2. /\ net' = net \ {p} /\ ans' = IF Atendida(r) THEN ans \union {r} ELSE ans
          /\ host' = [host EXCEPT ![p.seq] = e] /\ UNCHANGED <<cajero, rtbatch>>
          /\ p.tipo = "400" => Resuelta(EstadoReverso(Veredicto(c), c), e)
        BY <2>1 DEF Atiende, Responde
    <2>3. Mensaje(r.tipo, r.seq, r.a) = p
        BY DEF Pedido, Mensaje
    <2>4. Atendida(r) => DeQuien(r)
        <3>1. p.de = "rt" => p.tipo = "400"
            BY DEF Correo
        <3> QED
            BY <3>1 DEF Atendida, DeQuien
    <2>5. ASSUME Atendida(r), NEW n \in ans PROVE n.a # r.a
        <3>1. SUFFICES ASSUME n.a = r.a PROVE FALSE
            OBVIOUS
        <3>2. DeQuien(n) /\ DeQuien(r) /\ Mensaje(n.tipo, n.seq, n.a) \notin net
            BY <2>4, <2>5 DEF Correo
        <3>3. n.tipo = r.tipo /\ n.seq = r.seq
            BY <3>1, <3>2 DEF DeQuien
        <3> QED
            BY <2>3, <3>1, <3>2, <3>3
    <2>6. ASSUME NEW q \in net', q.de = "rt" PROVE q.tipo = "400"
        BY <2>2, <2>6 DEF Correo
    <2>7. ASSUME NEW m \in ans'
          PROVE  /\ DeQuien(m)'
                 /\ Mensaje(m.tipo, m.seq, m.a) \notin net'
                 /\ m.tipo = "400" =>
                       Resuelta(EstadoReverso(Veredicto(m.cod), m.cod), host'[m.seq])
                 /\ \A n \in ans' : n.a = m.a => n = m
        <3>1. CASE m \in ans
            BY <1>1, <2>2, <2>5, <3>1, RespuestaSigue DEF Correo
        <3>2. CASE m = r /\ Atendida(r)
            <4>1. DeQuien(r)'
                BY <2>2, <2>4, <3>2 DEF DeQuien, Espera, Pedida, cajero, rtbatch
            <4>2. Mensaje(r.tipo, r.seq, r.a) \notin net'
                BY <2>2, <2>3
            <4>3. r.tipo = "400" => Resuelta(EstadoReverso(Veredicto(r.cod), r.cod),
                                             host'[r.seq])
                BY <2>2 DEF Pedido
            <4>4. \A n \in ans' : n.a = r.a => n = r
                BY <2>2, <2>5, <3>2
            <4> QED
                BY <3>2, <4>1, <4>2, <4>3, <4>4
        <3> QED
            BY <2>2, <2>7, <3>1, <3>2
    <2> QED
        BY <2>6, <2>7 DEF Correo
<1> QED
    BY <1>2, <1>3, <1>4, PasosRed

\* The invariant holds in the initial states ...
LEMMA RInvInicial == Init => RInv
<1> SUFFICES ASSUME Init PROVE RInv
    OBVIOUS
<1>1. CorregidaSegunHost /\ Reversos /\ FilaDebida
    BY SinDesenlace
       DEF Init, NoJnl, NoCai, CorregidaSegunHost, Reversos, FilaDebida, ConReverso, HayFila
<1>2. TrxSinDesenlace /\ DesenlaceOp /\ DesenlaceRt /\ Correo
    BY DEF Init, TrxSinDesenlace, Transaccion, DesenlaceOp, EnReverso, DesenlaceRt, Lote,
           Correo
<1> QED
    BY <1>1, <1>2 DEF RInv

\* ... and every step keeps it.
LEMMA RInvInductivo ==
    ASSUME RespTardias = FALSE
    PROVE  IInv /\ RInv /\ [Next]_vars => RInv'
<1> SUFFICES ASSUME IInv, RInv, [Next]_vars PROVE RInv'
    OBVIOUS
<1>1. CASE Next
    BY <1>1, CorregidaSegunHostSigue, TrxSinDesenlaceSigue, ReversosSigue, FilaDebidaSigue,
       DesenlaceOpSigue, DesenlaceRtSigue, CorreoSigue
       DEF RInv
<1>2. CASE UNCHANGED vars
    <2>1. CorregidaSegunHost' /\ Reversos' /\ FilaDebida'
        BY <1>2
           DEF vars, tablas, cajero, red, RInv, CorregidaSegunHost, Reversos, FilaDebida,
               ConReverso, HayFila
    <2>2. TrxSinDesenlace'
        BY <1>2
           DEF vars, tablas, cajero, rtbatch, RInv, TrxSinDesenlace, Transaccion, EnLogin,
               HayFila, Lote
    <2>3. DesenlaceOp' /\ DesenlaceRt'
        BY <1>2
           DEF vars, tablas, cajero, rtbatch, red, RInv, DesenlaceOp, DesenlaceRt,
               EnReverso, Lote
    <2>4. Correo'
        BY <1>2
           DEF vars, cajero, rtbatch, red, RInv, Correo, DeQuien, Espera, Pedida
    <2> QED
        BY <2>1, <2>2, <2>3, <2>4 DEF RInv
<1> QED
    BY <1>1, <1>2

\* When every answer is of the request its wait sent, journal and host agree on the
\* outcome of every transaction that was cancelled, in every reachable state.
THEOREM ReversoInvariante ==
    ASSUME RespTardias = FALSE
    PROVE  Spec => [](IInv /\ RInv)
<1>1. IInv /\ RInv /\ [Next]_vars => (IInv /\ RInv)'
    BY IInvInductivo, RInvInductivo
<1> QED
    BY <1>1, IInvInicial, RInvInicial, PTL DEF Spec

\* Nobody closes a row, for no one to look at again, before its journal record has
\* the outcome: when MISCact_tx_caida finds the record locked the row keeps the status
\* the batch found it with.
THEOREM CerradaSiempre ==
    ASSUME RespTardias = FALSE
    PROVE  Spec => []CerradaConDesenlace
<1>1. RInv => CerradaConDesenlace
    BY DEF RInv, FilaDebida, CerradaConDesenlace
<1> QED
    BY <1>1, ReversoInvariante, PTL

\* The journal calls cancelled (MISCjnl_corregida, MISCact_tx_caida) only what the
\* host has undone, whoever cancelled it, whatever crashed and however often the
\* cancellation was repeated.
THEOREM CanceladaSiempre ==
    ASSUME RespTardias = FALSE
    PROVE  Spec => []CanceladaEsAnulada
<1>1. RInv => CanceladaEsAnulada
    <2> SUFFICES ASSUME RInv, NEW s \in Seq1, jnl[s].st = HOST_ACCEPTED, ~jnl[s].rev,
                        jnl[s].corr # 0
                 PROVE  host[s] = "anulada"
        BY DEF CanceladaEsAnulada
    <2>1. Resuelta(HOST_ACCEPTED, host[s])
        BY DEF RInv, CorregidaSegunHost
    <2> QED
        BY <2>1 DEF Resuelta, HOST_ACCEPTED, HOST_REJECTED
<1> QED
    BY <1>1, ReversoInvariante, PTL

\* An outcome written in the journal is never rewritten by a recovery of the operator
\* or of the batch, by the close of another transaction or by a login.
THEOREM DesenlaceEstableSiempre ==
    ASSUME RespTardias = FALSE
    PROVE  Spec => DesenlaceEstable
<1>1. IInv /\ RInv /\ [Next]_vars =>
          [\A s \in Seq1 : Definitivo(jnl[s].st) /\ ~jnl[s].rev => jnl'[s].st = jnl[s].st]_vars
    BY DesenlaceSigue
<1> QED
    BY <1>1, ReversoInvariante, PTL DEF Spec, DesenlaceEstable

-----------------------------------------------------------------------------
(* No fall is lost.  First what a step does to a row, a record and a        *)
(* message, then each conjunct, then the theorems.                          *)

\* A step from a state where the invariants hold.
PasoSerie == EnSerie /\ IInv /\ RInv /\ SInv /\ Next

\* The states that are no fall,
LEMMA NoEnVuelo ==
    \A e \in {SinRegistro, UNPOSTED, MEMO, HOST_ACCEPTED, TomadaOperador, TomadaBatch,
              HOST_REJECTED} : ~EnVuelo(e)
BY DEF EnVuelo, SinRegistro, UNPOSTED, MEMO, HOST_ACCEPTED, TomadaOperador, TomadaBatch,
       HOST_REJECTED, RECH_REV_AUTO

\* and those that are.
LEMMA SiEnVuelo ==
    \A e \in {SEND_ERROR, SEND_RESET, RCV_RESET, SESSION_LOST} \union FallosLinea :
        EnVuelo(e) /\ EsCaida(e)
BY DEF EnVuelo, EsCaida, SEND_ERROR, SEND_RESET, RCV_RESET, SESSION_LOST, HOST_RCV_DOWN,
       HOST_COMMSRVR_DOWN, HOST_REJECTED, RECH_REV_AUTO

\* The states the code compares with are different.
LEMMA EstadosDistintos ==
    /\ MEMO # HOST_ACCEPTED /\ MEMO # HOST_REJECTED /\ MEMO # SinRegistro
    /\ HOST_ACCEPTED # HOST_REJECTED /\ HOST_ACCEPTED # SinRegistro
    /\ TomadaOperador # TomadaBatch
    /\ \A e : Definitivo(e) => /\ e \in Estado /\ ~EnVuelo(e) /\ e # SinRegistro
                               /\ e # MEMO /\ e # TomadaOperador /\ e # TomadaBatch
                               /\ e <= HOST_REJECTED
BY DEF MEMO, HOST_ACCEPTED, HOST_REJECTED, SinRegistro, TomadaOperador, TomadaBatch,
       Definitivo, EnVuelo, Estado, RECH_REV_AUTO

\* While the teller works the batch sleeps, and no row is with it.
LEMMA LoteDuerme ==
    ASSUME SInv, pc \notin {"libre", "fuera"}
    PROVE  rpc = "duerme"
BY DEF SInv, LoteAparte

LEMMA SinTomadas ==
    ASSUME SInv, rpc = "duerme", NEW s \in Seq1
    PROVE  cai[s].st # TomadaBatch
<1> SUFFICES ASSUME cai[s].st = TomadaBatch PROVE FALSE
    OBVIOUS
<1>1. HayFila(s)
    BY EstadosNoVacios DEF HayFila
<1> QED
    BY <1>1, NoEnVuelo, EstadosDistintos
       DEF SInv, FilaSana, FilaLista, FilaSinCerrar, FilaDelOperador, FilaDelLote

\* A row with a record that fell or was cancelled has no record to close.
LEMMA DebidaNoMemo ==
    ASSUME IInv, RInv, NEW s \in Seq1, HayFila(s), Debida(s)
    PROVE  jnl[s].st # MEMO /\ (EnVuelo(jnl[s].st) \/ Definitivo(jnl[s].st))
<1>1. CASE EnVuelo(jnl[s].st)
    BY <1>1, NoEnVuelo
<1>2. CASE jnl[s].corr # 0
    <2>1. ~jnl[s].rev
        BY DEF RInv, Reversos
    <2>2. Resuelta(jnl[s].st, host[s])
        BY <1>2, <2>1 DEF RInv, CorregidaSegunHost
    <2> QED
        BY <2>2, ResueltaUna, EstadosDistintos
<1> QED
    BY <1>1, <1>2 DEF Debida

\* Which phase a row is in follows from its status.
LEMMA FasesDeFila ==
    ASSUME IInv, RInv, SInv, NEW s \in Seq1, HayFila(s)
    PROVE  /\ ConEnvio(s)
           /\ EnVuelo(cai[s].st) => FilaLista(s) \/ FilaSinCerrar(s)
           /\ cai[s].st = TomadaOperador => FilaDelOperador(s)
           /\ cai[s].st = TomadaBatch => FilaDelLote(s)
           /\ \/ EnVuelo(cai[s].st) \/ cai[s].st \in {TomadaOperador, TomadaBatch}
              \/ Definitivo(cai[s].st)
BY NoEnVuelo, EstadosDistintos
   DEF SInv, FilaSana, FilaLista, FilaSinCerrar, FilaDelOperador, FilaDelLote

\* What a step writes in a row.
LEMMA FilaEscrita ==
    ASSUME PasoSerie, NEW s \in Seq1
    PROVE  \/ cai'[s] = cai[s]
           \/ /\ CDSop_marca_cien /\ s = cur /\ ~HayFila(s) /\ EsCaida(tran_status)
              /\ cai'[s].st = tran_status
           \/ TomaFila(s) /\ cai'[s].st = TomadaOperador
           \/ CierraFila /\ s = fila /\ cai'[s].st = tran_status
           \/ CaidaEnReverso /\ s = fila /\ cai'[s].st = orig
           \/ /\ TRANlogin \/ RtEmpieza \/ RtTermina
              /\ cai[s].st \in {TomadaOperador, TomadaBatch} /\ cai'[s].st = jnl[s].st
           \/ jnl_cust_chk_snddwn(s) /\ ~HayFila(s) /\ cai'[s].st = SESSION_LOST
           \/ RtToma(s) /\ cai'[s].st = TomadaBatch
           \/ RtBorra /\ s = rfila /\ cai'[s].st = SinRegistro
           \/ RtCierraFila /\ s = rfila /\ cai'[s].st = rstatus
<1> USE DEF PasoSerie, IInv, TypeOK, TipoTablas, RegCai
<1>1. CASE UNCHANGED cai
    BY <1>1
<1>2. CASE \E t \in Seq1 : LiberaAbandonada(t)
    BY <1>2, LoteDuerme, SinTomadas DEF LiberaAbandonada, Tomadas99
<1>3. CASE CDSop_marca_cien
    <2>1. ~HayFila(cur)
        BY <1>3 DEF CDSop_marca_cien, TrxEnCurso, Transaccion, EnLogin
    <2>2. EsCaida(tran_status) \/ cai' = cai
        BY <1>3 DEF CDSop_marca_cien
    <2>3. s # cur => cai'[s] = cai[s]
        BY <1>3 DEF CDSop_marca_cien
    <2>4. s = cur /\ cai' # cai => cai'[s].st = tran_status
        BY <1>3 DEF CDSop_marca_cien
    <2> QED
        BY <1>3, <2>1, <2>2, <2>3, <2>4
<1>4. CASE \E t \in Seq1 : TomaFila(t)
    <2>1. PICK t \in Seq1 : TomaFila(t)
        BY <1>4
    <2>2. cai' = cai \/ cai' = [cai EXCEPT ![t].st = TomadaOperador]
        BY <2>1 DEF TomaFila
    <2> QED
        BY <2>1, <2>2
<1>5. CASE AnalizaSinLinea
    BY <1>5 DEF AnalizaSinLinea, EnSerie
<1>6. CASE CierraFila
    BY <1>6 DEF CierraFila
<1>7. CASE CaidaEnReverso
    BY <1>7 DEF CaidaEnReverso, FinReversoCaido
<1>8. CASE TRANlogin \/ RtEmpieza \/ RtTermina
    <2>1. PICK S \in SUBSET {t \in Seq1 : cai[t].st \in {TomadaOperador, TomadaBatch}} :
              Suelta(S)
        BY <1>8 DEF TRANlogin, RtEmpieza, RtTermina, CDSupd_jnl_caidas, Tomadas99
    <2>2. cai'[s] = IF s \in S /\ jnl[s].st # SinRegistro
                    THEN [cai[s] EXCEPT !.st = jnl[s].st] ELSE cai[s]
        BY <2>1 DEF Suelta
    <2>3. [cai[s] EXCEPT !.st = jnl[s].st].st = jnl[s].st
        OBVIOUS
    <2> QED
        BY <1>8, <2>1, <2>2, <2>3
<1>9. CASE \E t \in Seq1 : jnl_cust_chk_snddwn(t)
    <2>1. PICK t \in Seq1 : jnl_cust_chk_snddwn(t)
        BY <1>9
    <2>2. CASE HayFila(t)
        BY <2>1, <2>2 DEF jnl_cust_chk_snddwn, HayFila
    <2>3. CASE ~HayFila(t)
        <3>1. cai' = [cai EXCEPT ![t] = [st |-> SESSION_LOST, solo |-> jnl[t].solo]]
            BY <2>1, <2>3 DEF jnl_cust_chk_snddwn, HayFila
        <3> QED
            BY <2>1, <2>3, <3>1
    <2> QED
        BY <2>2, <2>3
<1>10. CASE \E t \in Seq1 : RtToma(t)
    <2>1. PICK t \in Seq1 : RtToma(t)
        BY <1>10
    <2>2. cai' = [cai EXCEPT ![t].st = TomadaBatch]
        BY <2>1 DEF RtToma
    <2> QED
        BY <2>1, <2>2
<1>11. CASE RtBorra
    BY <1>11 DEF RtBorra, NoCai
<1>12. CASE RtCierraFila
    BY <1>12 DEF RtCierraFila
<1> QED
    BY <1>1, <1>2, <1>3, <1>4, <1>5, <1>6, <1>7, <1>8, <1>9, <1>10, <1>11, <1>12,
       QuienEscribeCai

-----------------------------------------------------------------------------
(* Where a process can go from each of its points.                         *)

\* The teller between transactions, or dead.
LEMMA DesdeReposo ==
    ASSUME Next, pc \in {"libre", "fuera"}
    PROVE  \/ UNCHANGED cajero
           \/ \E viaja, solo \in BOOLEAN : (solo => viaja) /\ JNLprelog_tran(viaja, solo)
           \/ TRANlogin
           \/ Cae
<1>1. CASE Cajero
    BY <1>1
       DEF Cajero, COMM_stat_init, CDSchk_trxs_caidas, RecuperacionesPendientes, RechazaTrx,
           LiberaAbandonada, COMM_send, COMM_rcv_event, SinRespuesta, ErrorComm, Espera,
           CDSop_marca_cien, Cierra, CierraTrx
<1>2. CASE Recuperacion
    BY <1>2
       DEF Recuperacion, TomaFila, FinRecuperacion, MISCjnl_reverso_auto, AnalizaSinLinea,
           EnviaReverso, MISCjnl_corregida, CierraFila, CaidaEnReverso, FinReversoCaido
<1>3. CASE Login
    BY <1>3 DEF Login, jnl_cust_chk_snddwn, ActualizaJournal, jnl_init_resync, Resincroniza
<1>4. CASE LineaCae
    BY <1>4 DEF LineaCae, Espera, cajero
<1> QED
    BY <1>1, <1>2, <1>3, <1>4, QuienEscribeCajero

\* The login.
LEMMA DesdeLogin ==
    ASSUME Next, pc \in {"init", "initjnl"}
    PROVE  \/ UNCHANGED cajero
           \/ \E s \in Seq1 : jnl_cust_chk_snddwn(s)
           \/ ActualizaJournal \/ jnl_init_resync \/ Cae
<1>1. CASE Cajero
    BY <1>1
       DEF Cajero, JNLprelog_tran, COMM_stat_init, CDSchk_trxs_caidas,
           RecuperacionesPendientes, RechazaTrx, LiberaAbandonada, COMM_send,
           COMM_rcv_event, SinRespuesta, ErrorComm, Espera, CDSop_marca_cien, Cierra,
           CierraTrx
<1>2. CASE Recuperacion
    BY <1>2
       DEF Recuperacion, TomaFila, FinRecuperacion, MISCjnl_reverso_auto, AnalizaSinLinea,
           EnviaReverso, MISCjnl_corregida, CierraFila, CaidaEnReverso, FinReversoCaido
<1>3. CASE Login
    BY <1>3 DEF Login, TRANlogin
<1>4. CASE LineaCae
    BY <1>4 DEF LineaCae, Espera, cajero
<1> QED
    BY <1>1, <1>2, <1>3, <1>4, QuienEscribeCajero

\* The last step of a transaction.
LEMMA DesdeSeguir ==
    ASSUME Next, pc = "seguir"
    PROVE  UNCHANGED cajero \/ Cierra \/ Cae
<1>1. CASE Cajero
    BY <1>1
       DEF Cajero, JNLprelog_tran, COMM_stat_init, CDSchk_trxs_caidas,
           RecuperacionesPendientes, RechazaTrx, LiberaAbandonada, COMM_send,
           COMM_rcv_event, SinRespuesta, ErrorComm, Espera, CDSop_marca_cien
<1>2. CASE Recuperacion
    BY <1>2
       DEF Recuperacion, TomaFila, FinRecuperacion, MISCjnl_reverso_auto, AnalizaSinLinea,
           EnviaReverso, MISCjnl_corregida, CierraFila, CaidaEnReverso, FinReversoCaido
<1>3. CASE Login
    BY <1>3
       DEF Login, TRANlogin, jnl_cust_chk_snddwn, ActualizaJournal, jnl_init_resync,
           Resincroniza
<1>4. CASE LineaCae
    BY <1>4 DEF LineaCae, Espera, cajero
<1> QED
    BY <1>1, <1>2, <1>3, <1>4, QuienEscribeCajero

\* The recovery of a row by the teller.
LEMMA DesdeReverso ==
    ASSUME Next, EnSerie, EnReverso
    PROVE  \/ UNCHANGED cajero
           \/ MISCjnl_reverso_auto \/ EnviaReverso \/ (FinDeEspera /\ pc = "revesp")
           \/ MISCjnl_corregida \/ CierraFila \/ CaidaEnReverso \/ Cae
<1>1. CASE Cajero
    <2>1. CASE (\E m \in ans : COMM_rcv_event(m)) \/ SinRespuesta \/ ErrorComm
        BY <2>1
           DEF COMM_rcv_event, SinRespuesta, ErrorComm, FinDeEspera, Espera, EnReverso,
               tablas, rtbatch
    <2>2. CASE ~((\E m \in ans : COMM_rcv_event(m)) \/ SinRespuesta \/ ErrorComm)
        BY <1>1, <2>2
           DEF Cajero, JNLprelog_tran, COMM_stat_init, CDSchk_trxs_caidas,
               RecuperacionesPendientes, RechazaTrx, LiberaAbandonada, COMM_send,
               CDSop_marca_cien, Cierra, CierraTrx, EnReverso
    <2> QED
        BY <2>1, <2>2
<1>2. CASE Recuperacion
    <2>1. ~AnalizaSinLinea
        BY DEF AnalizaSinLinea, EnSerie
    <2>2. ~FinRecuperacion /\ ~\E s \in Seq1 : TomaFila(s)
        BY DEF FinRecuperacion, TomaFila, EnReverso
    <2>3. \/ MISCjnl_reverso_auto \/ EnviaReverso \/ MISCjnl_corregida
          \/ CierraFila \/ CaidaEnReverso
        BY <1>2, <2>1, <2>2 DEF Recuperacion
    <2> QED
        BY <2>3
<1>3. CASE Login
    BY <1>3
       DEF Login, TRANlogin, jnl_cust_chk_snddwn, ActualizaJournal, jnl_init_resync,
           Resincroniza, EnReverso
<1>4. CASE LineaCae
    BY <1>4 DEF LineaCae, FinDeEspera, Espera, EnReverso, cajero, tablas, rtbatch
<1> QED
    BY <1>1, <1>2, <1>3, <1>4, QuienEscribeCajero

\* The batch that is looking its row's record up, and the one that is awake.
LEMMA DesdeMatch ==
    ASSUME Next, EnSerie, rpc = "match"
    PROVE  UNCHANGED rtbatch \/ RtEncuentra \/ RtBorra
BY QuienEscribeLote
   DEF RTBatch, RtEmpieza, RtToma, RtAgota, RtEnvia, RtRecibe, RtSinRespuesta, RtActualiza,
       RtCierraFila, RtCaida, RtTermina, RtCae, EnSerie

LEMMA LoteDespierto ==
    ASSUME Next, EnSerie, rpc # "duerme"
    PROVE  rpc' # "duerme" \/ RtTermina
BY QuienEscribeLote
   DEF RTBatch, RtEmpieza, RtToma, RtAgota, RtEncuentra, RtBorra, RtEnvia, RtRecibe,
       RtSinRespuesta, RtActualiza, RtCierraFila, RtCaida, RtCae, EnSerie, rtbatch

\* It wakes up when it begins only.
LEMMA LoteDespierta ==
    ASSUME Next, rpc = "duerme"
    PROVE  UNCHANGED rtbatch \/ RtEmpieza
BY QuienEscribeLote
   DEF RTBatch, RtToma, RtAgota, RtEncuentra, RtBorra, RtEnvia, RtRecibe,
       RtSinRespuesta, RtActualiza, RtCierraFila, RtCaida, RtTermina, RtCae

\* Every step keeps the batch apart from transactions and logins.
LEMMA LoteAparteSigue ==
    ASSUME PasoSerie
    PROVE  LoteAparte'
<1> SUFFICES ASSUME rpc' # "duerme" PROVE ModoRT = "serie" /\ pc' \in {"libre", "fuera"}
    BY DEF LoteAparte
<1> USE DEF PasoSerie
<1>1. CASE rpc = "duerme"
    <2>1. RtEmpieza
        BY <1>1, LoteDespierta DEF rtbatch
    <2> QED
        BY <2>1, ModoAssumption DEF RtEmpieza, EnSerie, cajero
<1>2. CASE rpc # "duerme"
    <2>1. ModoRT = "serie" /\ pc \in {"libre", "fuera"}
        BY <1>2 DEF SInv, LoteAparte
    <2>2. ~TRANlogin /\ ~\E viaja, solo \in BOOLEAN : JNLprelog_tran(viaja, solo)
        BY <1>2, <2>1 DEF TRANlogin, JNLprelog_tran
    <2> QED
        BY <2>1, <2>2, DesdeReposo DEF Cae, cajero
<1> QED
    BY <1>1, <1>2

-----------------------------------------------------------------------------
(* What stays true of a record and of a row.                               *)

\* A record that says of a transaction with a row that it fell, or how it ended, keeps
\* saying one or the other.
LEMMA DebidaSigue ==
    ASSUME PasoSerie, NEW s \in Seq1, HayFila(s), Debida(s)
    PROVE  Debida(s)'
<1> USE DEF PasoSerie, IInv, RInv, SInv
<1>1. jnl[s].st # MEMO /\ HayJnl(s) /\ ~jnl[s].rev
    BY DebidaNoMemo DEF FilaConJournal, Reversos
<1>2. CASE jnl'[s] = jnl[s]
    BY <1>2 DEF Debida
<1>3. CASE Cierra /\ s = cur
    BY <1>1, <1>3 DEF Cierra, CierraTrx, TrxSinDesenlace, Transaccion, EnLogin
<1>4. CASE MISCjnl_corregida /\ s = fila /\ jnl'[s].corr = rev
    <2>1. rev \in Seq1
        BY <1>4 DEF MISCjnl_corregida, FilasTomadas, ConReverso
    <2> QED
        BY <1>4, <2>1 DEF Debida, Seq1
<1>5. CASE MISCjnl_corregida /\ s = rev
    BY <1>1, <1>5 DEF MISCjnl_corregida, Reversos, ConReverso
<1>6. CASE ActualizaJournal /\ s = fila /\ jnl'[s].st = tran_status
    BY <1>6 DEF ActualizaJournal, PasoLogin, Debida
<1>7. CASE RtActualiza /\ s = rfila /\ jnl'[s].corr = rfila
    BY <1>7 DEF Debida, Seq1
<1> QED
    BY <1>1, <1>2, <1>3, <1>4, <1>5, <1>6, <1>7, JnlEscrito

\* A correction stays.
LEMMA CorrSigue ==
    ASSUME PasoSerie, NEW s \in Seq1, HayFila(s), jnl[s].corr # 0
    PROVE  jnl'[s].corr # 0
<1> USE DEF PasoSerie, IInv, RInv, SInv
<1>1. HayJnl(s) /\ ~jnl[s].rev
    BY DEF FilaConJournal, Reversos
<1>2. CASE MISCjnl_corregida /\ s = fila /\ jnl'[s].corr = rev
    <2>1. rev \in Seq1
        BY <1>2 DEF MISCjnl_corregida, FilasTomadas, ConReverso
    <2> QED
        BY <1>2, <2>1 DEF Seq1
<1>3. CASE MISCjnl_corregida /\ s = rev
    BY <1>1, <1>3 DEF MISCjnl_corregida, Reversos, ConReverso
<1>4. CASE RtActualiza /\ s = rfila /\ jnl'[s].corr = rfila
    BY <1>4 DEF Seq1
<1> QED
    BY <1>1, <1>2, <1>3, <1>4, JnlEscrito

\* A record that is to be closed stays so until its close or the end of a login.
LEMMA SinCerrarSigue ==
    ASSUME PasoSerie, NEW s \in Seq1, SinCerrar(s)
    PROVE  SinCerrar(s)' \/ Cierra \/ jnl_init_resync \/ (ActualizaJournal /\ s = fila)
<1> USE DEF PasoSerie, IInv, RInv, SInv
<1>1. SUFFICES ASSUME ~Cierra, ~jnl_init_resync, ~(ActualizaJournal /\ s = fila)
               PROVE  SinCerrar(s)'
    OBVIOUS
<1>2. HayJnl(s)
    BY EstadosDistintos DEF SinCerrar, HayJnl
<1>3. ~(MISCjnl_corregida /\ s = fila)
    BY DebidaNoMemo
       DEF MISCjnl_corregida, FilasTomadas, FilasEnMano, EnReverso, SinCerrar
<1>4. ~(MISCjnl_corregida /\ s = rev)
    BY EstadosDistintos
       DEF MISCjnl_corregida, Reversos, ConReverso, SinCerrar
<1>5. ~(RtActualiza /\ s = rfila)
    BY NoEnVuelo DEF RtActualiza, FilasEnMano, Lote, SinCerrar
<1>6. jnl'[s] = jnl[s]
    BY <1>1, <1>2, <1>3, <1>4, <1>5, JnlEscrito
<1>7. tots' = tots
    BY <1>1, QuienEscribeTots
<1> QED
    BY <1>6, <1>7 DEF SinCerrar

\* A row whose record and phase a step leaves alone.  First one to be recovered,
LEMMA ListaSigue ==
    ASSUME PasoSerie, NEW s \in Seq1, FilaLista(s), cai'[s] = cai[s]
    PROVE  FilaLista(s)'
<1> USE DEF PasoSerie, IInv, RInv, SInv
<1>1. HayFila(s) /\ EnVuelo(cai[s].st) /\ HayJnl(s) /\ ~jnl[s].rev
    BY NoEnVuelo DEF FilaLista, HayFila, FilaConJournal, Reversos
<1>2. CASE cai[s].solo /\ jnl[s].corr # 0
    BY <1>1, <1>2, CorrSigue DEF FilaLista
<1>3. CASE jnl[s].st = cai[s].st
    <2>1. jnl[s].st # MEMO
        BY <1>1, <1>3, NoEnVuelo
    <2>2. CASE jnl'[s] = jnl[s]
        BY <1>1, <1>3, <2>2 DEF FilaLista
    <2>3. ~(Cierra /\ s = cur)
        BY <2>1 DEF Cierra, CierraTrx, TrxSinDesenlace, Transaccion, EnLogin
    <2>4. CASE MISCjnl_corregida /\ s = fila /\ jnl'[s].corr = rev
        <3>1. rev \in Seq1
            BY <2>4 DEF MISCjnl_corregida, FilasTomadas, ConReverso
        <3>2. cai[s].solo
            BY <1>1, <2>4, NoEnVuelo DEF MISCjnl_corregida, FilasTomadas, EnReverso
        <3> QED
            BY <1>1, <2>4, <3>1, <3>2 DEF FilaLista, Seq1
    <2>5. ~(MISCjnl_corregida /\ s = rev)
        BY <1>1 DEF MISCjnl_corregida, Reversos, ConReverso
    <2>6. CASE ActualizaJournal /\ s = fila /\ jnl'[s].st = tran_status
        BY <1>1, <2>6 DEF ActualizaJournal, PasoLogin, FilaLista
    <2>7. ~(RtActualiza /\ s = rfila)
        BY <1>1, NoEnVuelo DEF RtActualiza, FilasTomadas, Lote
    <2> QED
        BY <1>1, <2>2, <2>3, <2>4, <2>5, <2>6, <2>7, JnlEscrito
<1> QED
    BY <1>2, <1>3 DEF FilaLista

\* then one whose transaction did not close: it is to be recovered when the close or
\* the login writes its record.
LEMMA SinCerrarFilaSigue ==
    ASSUME PasoSerie, NEW s \in Seq1, HayFila(s), FilaSinCerrar(s), cai'[s] = cai[s]
    PROVE  FilaSinCerrar(s)' \/ FilaLista(s)'
<1> USE DEF PasoSerie, IInv, RInv, SInv
<1>1. EnVuelo(cai[s].st) /\ SinCerrar(s) /\ ConEnvio(s) /\ HayJnl(s)
    BY FasesDeFila DEF FilaSinCerrar, FilaConJournal
<1>2. CASE ActualizaJournal /\ s = fila
    <2>1. jnl'[s].st = tran_status
        BY <1>2 DEF ActualizaJournal, TypeOK, TipoTablas, RegJnl
    <2> QED
        BY <1>1, <1>2, <2>1 DEF ActualizaJournal, PasoLogin, FilaLista
<1>3. CASE jnl_init_resync
    <2>1. pc = "init" /\ PorExaminar = {}
        BY <1>3 DEF jnl_init_resync, Resincroniza
    <2>2. ReExamina(s) /\ fila <= s
        <3>1. s >= fila
            BY <1>1, <2>1 DEF PasoLogin, SinCerrar, ConEnvio
        <3>2. ReExamina(s)
            BY <1>1, EstadosDistintos DEF ReExamina, SinCerrar, ConEnvio
        <3> QED
            BY <3>1, <3>2 DEF TypeOK, TipoCajero, Seq1
    <2> QED
        BY <2>1, <2>2 DEF PorExaminar
<1>4. CASE Cierra
    <2>1. pc = "seguir" /\ cur = s /\ jnl[s].viaja
        BY <1>1, <1>4 DEF Cierra, CierraTrx, FilaSinCerrar, EnLogin, ConEnvio
    <2>2. EsCaida(tran_status) /\ tran_status \in Estado
        BY <2>1 DEF TrxSinDesenlace, Transaccion, EnLogin, TypeOK, TipoCajero
    <2>3. EnVuelo(tran_status) /\ cai[s].st = tran_status
        <3>1. ~Definitivo(tran_status)
            BY <2>2, CaidaSinDesenlace
        <3> QED
            BY <2>1, <3>1
               DEF PasoTrx, PasoEnvio, Transaccion, EnLogin, ConDesenlace, Definitivo
    <2>4. jnl'[s].st = tran_status
        BY <1>4, <2>1 DEF Cierra, CierraTrx, TypeOK, TipoTablas, RegJnl
    <2> QED
        BY <1>1, <2>3, <2>4 DEF FilaLista
<1>5. CASE SinCerrar(s)' /\ ~Cierra /\ ~jnl_init_resync
    <2>1. EnLogin' \/ (pc' = "seguir" /\ cur' = s)
        <3>1. CASE pc = "seguir" /\ cur = s
            BY <1>5, <3>1, DesdeSeguir DEF cajero, Cae, EnLogin
        <3>2. CASE pc = "fuera"
            BY <1>5, <3>2, DesdeReposo DEF cajero, Cae, TRANlogin, JNLprelog_tran, EnLogin
        <3>3. CASE pc \in {"init", "initjnl"}
            BY <1>5, <3>3, DesdeLogin
               DEF cajero, Cae, jnl_cust_chk_snddwn, EstadoCaida, ActualizaJournal, EnLogin
        <3> QED
            BY <3>1, <3>2, <3>3 DEF FilaSinCerrar, EnLogin
    <2> QED
        BY <1>1, <1>5, <2>1 DEF FilaSinCerrar
<1> QED
    BY <1>1, <1>2, <1>3, <1>4, <1>5, SinCerrarSigue

\* A row that gets the status of a record that fell or was cancelled is one to be
\* recovered, or closed.
LEMMA FilaDelJournal ==
    ASSUME PasoSerie, NEW s \in Seq1, HayFila(s), Debida(s),
           cai'[s].st = jnl[s].st, UNCHANGED jnl
    PROVE  FilaLista(s)' \/ Definitivo(cai'[s].st)
BY DebidaNoMemo DEF PasoSerie, FilaLista

\* A row the teller has taken, and one the batch has.
LEMMA DelOperadorSigue ==
    ASSUME PasoSerie, NEW s \in Seq1, FilaDelOperador(s), cai'[s] = cai[s]
    PROVE  FilaDelOperador(s)'
<1> USE DEF PasoSerie, IInv, RInv, SInv
<1>1. HayFila(s) /\ cai[s].st = TomadaOperador /\ Debida(s)
    BY EstadosNoVacios DEF FilaDelOperador, HayFila
<1>2. jnl[s].st # TomadaOperador /\ HayJnl(s)
    BY <1>1, DebidaNoMemo, NoEnVuelo, EstadosDistintos DEF FilaConJournal
<1>3. (EnReverso' /\ fila' = s) \/ pc' = "fuera"
    <2>1. CASE EnReverso /\ fila = s
        <3>1. ~CierraFila
            <4>1. CierraFila => cai'[s].st = tran_status /\ Definitivo(tran_status)
                BY <2>1 DEF CierraFila, FilasEnMano, TypeOK, TipoTablas, RegCai
            <4> QED
                BY <1>1, <4>1, EstadosDistintos
        <3>2. ~CaidaEnReverso
            <4>1. CaidaEnReverso => cai'[s].st = orig /\ orig = jnl[s].st
                BY <2>1
                   DEF CaidaEnReverso, FinReversoCaido, FilasEnMano, EnReverso, TypeOK,
                       TipoTablas, RegCai
            <4> QED
                BY <1>1, <1>2, <4>1
        <3> QED
            BY <2>1, <3>1, <3>2, DesdeReverso
               DEF cajero, MISCjnl_reverso_auto, EnviaReverso, FinDeEspera, FinEspera,
                   MISCjnl_corregida, Cae, EnReverso
    <2>2. CASE pc = "fuera"
        <3>1. ~TRANlogin
            <4>1. TRANlogin => cai'[s].st = jnl[s].st
                BY <1>1, <1>2 DEF TRANlogin, Suelta, HayJnl, TypeOK, TipoTablas, RegCai
            <4> QED
                BY <1>1, <1>2, <4>1
        <3> QED
            BY <2>2, <3>1, DesdeReposo DEF cajero, Cae, JNLprelog_tran
    <2> QED
        BY <2>1, <2>2 DEF FilaDelOperador
<1> QED
    BY <1>1, <1>3, DebidaSigue DEF FilaDelOperador

LEMMA DelLoteSigue ==
    ASSUME PasoSerie, NEW s \in Seq1, FilaDelLote(s), cai'[s] = cai[s]
    PROVE  FilaDelLote(s)'
<1> USE DEF PasoSerie, IInv, RInv, SInv
<1>1. HayFila(s) /\ cai[s].st = TomadaBatch /\ rpc # "duerme"
    BY EstadosNoVacios DEF FilaDelLote, HayFila
<1>2. CASE Debida(s)
    <2>1. jnl[s].st # TomadaBatch /\ HayJnl(s)
        BY <1>1, <1>2, DebidaNoMemo, NoEnVuelo, EstadosDistintos DEF FilaConJournal
    <2>2. ~RtTermina
        <3>1. RtTermina => cai'[s].st = jnl[s].st
            BY <1>1, <2>1
               DEF RtTermina, CDSupd_jnl_caidas, Suelta, Tomadas99, HayJnl, TypeOK,
                   TipoTablas, RegCai
        <3> QED
            BY <1>1, <2>1, <3>1
    <2> QED
        BY <1>1, <1>2, <2>2, DebidaSigue, LoteDespierto DEF FilaDelLote
<1>3. CASE rpc = "match" /\ rfila = s /\ SinCerrar(s)
    <2>1. pc \in {"libre", "fuera"}
        BY <1>1 DEF LoteAparte
    <2>2. SinCerrar(s)'
        BY <1>3, <2>1, SinCerrarSigue
           DEF Cierra, CierraTrx, jnl_init_resync, Resincroniza, ActualizaJournal
    <2>3. ~RtEncuentra
        BY <1>3, NoEnVuelo DEF RtEncuentra, FilasEnMano, Lote, SinCerrar
    <2>4. ~RtBorra
        BY <1>1, <1>3, EstadosNoVacios DEF RtBorra, NoCai, TypeOK, TipoTablas
    <2> QED
        BY <1>1, <1>3, <2>2, <2>3, <2>4, DesdeMatch DEF FilaDelLote, rtbatch
<1> QED
    BY <1>2, <1>3 DEF FilaDelLote

\* Every step keeps each row in one of its phases.
LEMMA FilaSanaSigue ==
    ASSUME PasoSerie
    PROVE  FilaSana'
<1> SUFFICES ASSUME NEW s \in Seq1, HayFila(s)'
             PROVE  /\ ConEnvio(s)'
                    /\ \/ FilaLista(s)' \/ FilaSinCerrar(s)' \/ FilaDelOperador(s)'
                       \/ FilaDelLote(s)' \/ Definitivo(cai'[s].st)
    BY DEF FilaSana
<1> USE DEF PasoSerie, IInv, RInv, SInv
<1>1. HayFila(s) => ConEnvio(s)'
    BY FasesDeFila, RegistroSigue DEF ConEnvio, FilaConJournal
<1>2. CASE cai'[s] = cai[s]
    <2>1. HayFila(s)
        BY <1>2 DEF HayFila
    <2>2. CASE FilaLista(s)
        BY <1>1, <1>2, <2>1, <2>2, ListaSigue
    <2>3. CASE FilaSinCerrar(s)
        BY <1>1, <1>2, <2>1, <2>3, SinCerrarFilaSigue
    <2>4. CASE FilaDelOperador(s)
        BY <1>1, <1>2, <2>1, <2>4, DelOperadorSigue
    <2>5. CASE FilaDelLote(s)
        BY <1>1, <1>2, <2>1, <2>5, DelLoteSigue
    <2>6. CASE Definitivo(cai[s].st)
        BY <1>1, <1>2, <2>1, <2>6
    <2> QED
        BY <2>1, <2>2, <2>3, <2>4, <2>5, <2>6 DEF FilaSana
<1>3. CASE CDSop_marca_cien /\ s = cur /\ EsCaida(tran_status) /\ cai'[s].st = tran_status
    <2>1. /\ pc = "exit_loop" /\ pc' = "seguir" /\ cur' = cur /\ UNCHANGED <<jnl, tots>>
          /\ Transaccion
        BY <1>3 DEF CDSop_marca_cien, Transaccion, EnLogin
    <2>2. jnl[s].st = MEMO /\ ~jnl[s].rev /\ s > tots.seq
        BY <1>3, <2>1 DEF TrxSinDesenlace, TrxEnCurso, TypeOK, TipoTablas, Seq1
    <2>3. ~Definitivo(tran_status) /\ tran_status # MEMO
        <3>1. ~EsCaida(MEMO)
            BY DEF EsCaida, MEMO, HOST_REJECTED
        <3> QED
            BY <1>3, <3>1, CaidaSinDesenlace DEF TypeOK, TipoCajero
    <2>4. jnl[s].viaja
        BY <1>3, <2>1, <2>3 DEF PasoTrx, PasoLocal
    <2>5. EnVuelo(tran_status)
        BY <1>3, <2>1, <2>3, <2>4 DEF PasoTrx, PasoEnvio, ConDesenlace, Definitivo
    <2> QED
        BY <1>3, <2>1, <2>2, <2>4, <2>5 DEF ConEnvio, FilaSinCerrar, SinCerrar
<1>4. CASE TomaFila(s) /\ cai'[s].st = TomadaOperador
    <2>1. /\ pc = "rec" /\ pc' = "rev" /\ fila' = s /\ UNCHANGED <<jnl, tots>>
          /\ EnVuelo(cai[s].st)
        BY <1>4 DEF TomaFila, PorRecuperar, Pendientes
    <2>2. HayFila(s)
        BY <2>1, NoEnVuelo DEF HayFila
    <2>3. Debida(s)
        BY <2>1, <2>2, FasesDeFila DEF FilaLista, FilaSinCerrar, EnLogin, Debida
    <2> QED
        BY <1>1, <1>4, <2>1, <2>2, <2>3 DEF FilaDelOperador, Debida, EnReverso
<1>5. CASE CierraFila /\ s = fila /\ cai'[s].st = tran_status
    <2>1. HayFila(s) /\ Definitivo(tran_status)
        BY <1>5 DEF CierraFila, FilasTomadas, FilasEnMano, EnReverso
    <2> QED
        BY <1>1, <1>5, <2>1
<1>6. CASE CaidaEnReverso /\ s = fila /\ cai'[s].st = orig
    <2>1. HayFila(s) /\ Debida(s) /\ orig = jnl[s].st /\ UNCHANGED jnl
        BY <1>6
           DEF CaidaEnReverso, FinReversoCaido, FilasTomadas, FilasEnMano, EnReverso
    <2> QED
        BY <1>1, <1>6, <2>1, FilaDelJournal
<1>7. CASE /\ TRANlogin \/ RtEmpieza \/ RtTermina
           /\ cai[s].st \in {TomadaOperador, TomadaBatch} /\ cai'[s].st = jnl[s].st
    <2>1. HayFila(s) /\ UNCHANGED jnl
        BY <1>7, EstadosNoVacios DEF HayFila, TRANlogin, RtEmpieza, RtTermina
    <2>2. rpc # "match"
        BY <1>7 DEF TRANlogin, RtEmpieza, RtTermina, LoteAparte
    <2>3. Debida(s)
        BY <1>7, <2>1, <2>2, FasesDeFila DEF FilaDelOperador, FilaDelLote
    <2> QED
        BY <1>1, <1>7, <2>1, <2>3, FilaDelJournal
<1>8. CASE jnl_cust_chk_snddwn(s) /\ ~HayFila(s) /\ cai'[s].st = SESSION_LOST
    <2>1. pc' = "initjnl" /\ UNCHANGED <<jnl, tots>> /\ ReExamina(s)
        BY <1>8 DEF jnl_cust_chk_snddwn, PorExaminar
    <2>2. SinCerrar(s) /\ jnl[s].viaja
        BY <1>8, <2>1 DEF PasoLogin, ReExamina
    <2>3. ~jnl[s].rev
        BY <2>2, EstadosDistintos DEF Reversos, SinCerrar
    <2> QED
        BY <1>8, <2>1, <2>2, <2>3, SiEnVuelo DEF ConEnvio, FilaSinCerrar, SinCerrar, EnLogin
<1>9. CASE RtToma(s) /\ cai'[s].st = TomadaBatch
    <2>1. /\ rpc = "busca" /\ rpc' = "match" /\ rfila' = s /\ UNCHANGED <<jnl, tots>>
          /\ EnVuelo(cai[s].st) /\ ~cai[s].solo
        BY <1>9 DEF RtToma, RtPendientes, Pendientes
    <2>2. HayFila(s)
        BY <2>1, NoEnVuelo DEF HayFila
    <2>3. Debida(s) \/ SinCerrar(s)
        BY <2>1, <2>2, FasesDeFila DEF FilaLista, FilaSinCerrar, Debida
    <2> QED
        BY <1>1, <1>9, <2>1, <2>2, <2>3 DEF FilaDelLote, Debida, SinCerrar
<1>10. ~(RtBorra /\ s = rfila /\ cai'[s].st = SinRegistro)
    BY DEF HayFila
<1>11. CASE RtCierraFila /\ s = rfila /\ cai'[s].st = rstatus
    <2>1. /\ HayFila(s) /\ Debida(s) /\ rstatus = jnl[s].st /\ UNCHANGED jnl
        BY <1>11, EstadosNoVacios
           DEF RtCierraFila, FilasTomadas, FilasEnMano, Lote, HayFila, Debida
    <2> QED
        BY <1>1, <1>11, <2>1, FilaDelJournal
<1> QED
    BY <1>2, <1>3, <1>4, <1>5, <1>6, <1>7, <1>8, <1>9, <1>10, <1>11, FilaEscrita

-----------------------------------------------------------------------------
(* What each process keeps of the record it works on.                      *)

\* While the batch works on a row, only its own close writes the row's record.
LEMMA JnlDelLote ==
    ASSUME PasoSerie, Lote, ~RtActualiza
    PROVE  rfila \in Seq1 /\ jnl'[rfila] = jnl[rfila] /\ pc \in {"libre", "fuera"}
<1> USE DEF PasoSerie, IInv, RInv, SInv
<1>1. pc \in {"libre", "fuera"}
    BY DEF LoteAparte, Lote
<1>2. rfila \in Seq1 /\ HayJnl(rfila)
    BY EstadosNoVacios DEF FilasTomadas, FilaConJournal, HayFila
<1> QED
    BY <1>1, <1>2, JnlEscrito
       DEF Cierra, CierraTrx, MISCjnl_corregida, ActualizaJournal

\* While the teller works on one, only the correction writes the row's record.
LEMMA JnlDelOperador ==
    ASSUME PasoSerie, EnReverso, ~MISCjnl_corregida
    PROVE  fila \in Seq1 /\ HayFila(fila) /\ jnl'[fila] = jnl[fila]
<1> USE DEF PasoSerie, IInv, RInv, SInv
<1>1. fila \in Seq1 /\ HayFila(fila) /\ HayJnl(fila)
    BY DEF FilasTomadas, FilaConJournal
<1>2. ~Cierra /\ ~ActualizaJournal
    BY DEF Cierra, CierraTrx, ActualizaJournal, EnReverso
<1>3. ~RtActualiza
    BY LoteDuerme DEF RtActualiza, EnReverso
<1> QED
    BY <1>1, <1>2, <1>3, JnlEscrito

\* The outcome of the correction, as the process keeps it.
LEMMA DesenlaceDefinitivo ==
    ASSUME NEW st, NEW c, NEW h, Resuelta(EstadoReverso(st, c), h)
    PROVE  Definitivo(st)
BY DEF Resuelta, EstadoReverso, Definitivo

\* Every step keeps the statuses the teller and the batch have in hand.
LEMMA FilasEnManoSigue ==
    ASSUME PasoSerie
    PROVE  FilasEnMano'
<1> USE DEF PasoSerie, IInv, RInv, SInv
<1>1. EnReverso' => Debida(fila)'
    <2> SUFFICES ASSUME EnReverso' PROVE Debida(fila)'
        OBVIOUS
    <2>1. CASE \E s \in Seq1 : TomaFila(s)
        <3>1. PICK s \in Seq1 : TomaFila(s)
            BY <2>1
        <3>2. pc = "rec" /\ fila' = s /\ UNCHANGED jnl /\ EnVuelo(cai[s].st)
            BY <3>1 DEF TomaFila, PorRecuperar, Pendientes
        <3>3. HayFila(s)
            BY <3>2, NoEnVuelo DEF HayFila
        <3> QED
            BY <3>2, <3>3, FasesDeFila DEF FilaLista, FilaSinCerrar, EnLogin, Debida
    <2>2. CASE EnReverso /\ fila' = fila
        <3>1. fila \in Seq1 /\ HayFila(fila) /\ Debida(fila)
            BY <2>2 DEF FilasTomadas, FilasEnMano
        <3> QED
            BY <2>2, <3>1, DebidaSigue DEF Debida
    <2> QED
        BY <2>1, <2>2, MismaFila
<1>2. EnReverso' /\ pc' # "revrow" => orig' = jnl'[fila'].st
    <2> SUFFICES ASSUME EnReverso', pc' # "revrow" PROVE orig' = jnl'[fila'].st
        OBVIOUS
    <2>1. CASE \E s \in Seq1 : TomaFila(s)
        BY <2>1 DEF TomaFila
    <2>2. CASE EnReverso /\ fila' = fila /\ orig' = orig
        <3>1. ~MISCjnl_corregida
            BY DEF MISCjnl_corregida
        <3>2. pc # "revrow"
            BY <2>2, DesdeReverso
               DEF cajero, MISCjnl_reverso_auto, EnviaReverso, MISCjnl_corregida, CierraFila,
                   CaidaEnReverso, FinReversoCaido, Cae, EnReverso
        <3> QED
            BY <2>2, <3>1, <3>2, JnlDelOperador DEF FilasEnMano
    <2> QED
        BY <2>1, <2>2, MismaFila
<1>3. pc' = "revrow" => jnl'[fila'].corr # 0 /\ Definitivo(tran_status')
    <2> SUFFICES ASSUME pc' = "revrow"
                 PROVE  jnl'[fila'].corr # 0 /\ Definitivo(tran_status')
        OBVIOUS
    <2>1. CASE UNCHANGED cajero
        <3>1. pc = "revrow" /\ EnReverso /\ ~MISCjnl_corregida
            BY <2>1 DEF cajero, EnReverso, MISCjnl_corregida
        <3> QED
            BY <2>1, <3>1, JnlDelOperador DEF cajero, FilasEnMano
    <2>2. CASE MISCjnl_corregida
        <3>1. fila \in Seq1 /\ rev \in Seq1 /\ fila # rev
            BY <2>2
               DEF MISCjnl_corregida, FilasTomadas, EnReverso, ConReverso, Reversos
        <3>2. jnl'[fila].corr = rev
            BY <2>2, <3>1 DEF MISCjnl_corregida, TypeOK, TipoTablas, RegJnl
        <3>3. Definitivo(tran_status)
            BY <2>2, <3>1, EscribeDesenlace, DesenlaceDefinitivo
        <3> QED
            BY <2>2, <3>1, <3>2, <3>3 DEF MISCjnl_corregida, Seq1
    <2> QED
        BY <2>1, <2>2, PasosOp
           DEF OtroPaso, FinDeEspera, FinEspera, CDSop_marca_cien, TomaFila,
               MISCjnl_reverso_auto, EnviaReverso, jnl_cust_chk_snddwn, EstadoCaida
<1>4. Lote' => EnVuelo(rorig')
    <2>1. CASE UNCHANGED rtbatch
        BY <2>1 DEF rtbatch, Lote, FilasEnMano
    <2>2. CASE \E s \in Seq1 : RtToma(s)
        BY <2>2 DEF RtToma, RtPendientes, Pendientes
    <2>3. CASE RtEncuentra \/ RtEnvia \/ (\E m \in ans : RtRecibe(m)) \/ RtSinRespuesta
               \/ RtActualiza
        BY <2>3
           DEF RtEncuentra, RtEnvia, RtRecibe, RtSinRespuesta, RtActualiza, Lote, FilasEnMano
    <2> QED
        BY <2>1, <2>2, <2>3, PasosRt DEF Lote
<1>5. rpc' = "match" => \/ jnl'[rfila'].st = rorig'
                        \/ SinCerrar(rfila)' /\ pc' = "fuera"
    <2> SUFFICES ASSUME rpc' = "match"
                 PROVE  jnl'[rfila'].st = rorig' \/ (SinCerrar(rfila)' /\ pc' = "fuera")
        OBVIOUS
    <2>1. CASE UNCHANGED rtbatch
        <3>1. rpc = "match" /\ Lote /\ ~RtActualiza /\ rfila' = rfila /\ rorig' = rorig
            BY <2>1 DEF rtbatch, Lote, RtActualiza
        <3>2. CASE jnl[rfila].st = rorig
            BY <3>1, <3>2, JnlDelLote
        <3>3. CASE SinCerrar(rfila) /\ pc = "fuera"
            <4>1. SinCerrar(rfila)'
                BY <3>1, <3>3, JnlDelLote, QuienEscribeTots
                   DEF SinCerrar, Cierra, CierraTrx, jnl_init_resync, Resincroniza
            <4>2. ~TRANlogin
                BY <3>1 DEF TRANlogin, LoteAparte
            <4>3. pc' = "fuera"
                BY <3>3, <4>2, DesdeReposo DEF cajero, JNLprelog_tran, Cae
            <4> QED
                BY <4>1, <4>3
        <3> QED
            BY <3>1, <3>2, <3>3 DEF FilasEnMano
    <2>2. CASE \E s \in Seq1 : RtToma(s)
        <3>1. PICK s \in Seq1 : RtToma(s)
            BY <2>2
        <3>2. /\ rpc = "busca" /\ rfila' = s /\ rorig' = cai[s].st
              /\ UNCHANGED <<jnl, tots, pc>> /\ EnVuelo(cai[s].st) /\ ~cai[s].solo
            BY <3>1 DEF RtToma, RtPendientes, Pendientes, cajero
        <3>3. HayFila(s) /\ pc \in {"libre", "fuera"}
            BY <3>2, NoEnVuelo DEF HayFila, LoteAparte
        <3>4. jnl[s].st = cai[s].st \/ (SinCerrar(s) /\ pc = "fuera")
            BY <3>2, <3>3, FasesDeFila DEF FilaLista, FilaSinCerrar, EnLogin
        <3> QED
            BY <3>2, <3>4 DEF SinCerrar
    <2> QED
        BY <2>1, <2>2, PasosRt
           DEF RtEncuentra, RtEnvia, RtRecibe, RtSinRespuesta, RtActualiza
<1>6. rpc' \in {"env", "espera", "act"} => jnl'[rfila'].st = rorig'
    <2> SUFFICES ASSUME rpc' \in {"env", "espera", "act"} PROVE jnl'[rfila'].st = rorig'
        OBVIOUS
    <2>1. CASE UNCHANGED rtbatch
        <3>1. Lote /\ ~RtActualiza /\ rpc \in {"env", "espera", "act"}
            BY <2>1 DEF rtbatch, Lote, RtActualiza
        <3> QED
            BY <2>1, <3>1, JnlDelLote DEF rtbatch, FilasEnMano
    <2>2. CASE RtEncuentra \/ RtEnvia \/ (\E m \in ans : RtRecibe(m)) \/ RtSinRespuesta
        BY <2>2 DEF RtEncuentra, RtEnvia, RtRecibe, RtSinRespuesta, FilasEnMano, tablas
    <2> QED
        BY <2>1, <2>2, PasosRt DEF RtToma, RtActualiza
<1>7. rpc' = "fila" => jnl'[rfila'].corr # 0 /\ rstatus' = jnl'[rfila'].st
    <2> SUFFICES ASSUME rpc' = "fila"
                 PROVE  jnl'[rfila'].corr # 0 /\ rstatus' = jnl'[rfila'].st
        OBVIOUS
    <2>1. CASE UNCHANGED rtbatch
        <3>1. Lote /\ ~RtActualiza /\ rpc = "fila"
            BY <2>1 DEF rtbatch, Lote, RtActualiza
        <3> QED
            BY <2>1, <3>1, JnlDelLote DEF rtbatch, FilasEnMano
    <2>2. CASE RtActualiza
        <3>1. rfila \in Seq1 /\ rfila' = rfila /\ ~JnlBloqueado(rfila)
            BY <2>2 DEF RtActualiza, FilasTomadas, Lote, LoteAparte, JnlBloqueado
        <3>2. jnl' = [jnl EXCEPT ![rfila].st = rstatus', ![rfila].corr = rfila]
            BY <2>2, <3>1 DEF RtActualiza
        <3>3. jnl'[rfila].st = rstatus' /\ jnl'[rfila].corr = rfila
            BY <3>1, <3>2 DEF TypeOK, TipoTablas, RegJnl
        <3> QED
            BY <3>1, <3>3 DEF Seq1
    <2> QED
        BY <2>1, <2>2, PasosRt DEF RtToma, RtEncuentra, RtEnvia, RtRecibe, RtSinRespuesta
<1> QED
    BY <1>1, <1>2, <1>3, <1>4, <1>5, <1>6, <1>7 DEF FilasEnMano

-----------------------------------------------------------------------------
(* The records a login has to find.                                        *)

\* A transaction goes on until its close or a crash.
LEMMA TrxContinua ==
    ASSUME Next, Transaccion
    PROVE  (Transaccion' /\ cur' = cur) \/ Cierra \/ Cae
BY QuienMueveSecuencia
   DEF MismaTrx, JNLprelog_tran, MISCjnl_reverso_auto, jnl_init_resync, Resincroniza,
       Transaccion, EnLogin

\* A login until its last step.
LEMMA LoginContinua ==
    ASSUME Next, EnLogin
    PROVE  EnLogin' \/ jnl_init_resync
BY QuienMueveSecuencia
   DEF MismaTrx, JNLprelog_tran, MISCjnl_reverso_auto, Cierra, CierraTrx, Cae, EnLogin

\* How the process is at a point of the login.
LEMMA HaciaLogin ==
    ASSUME Next, pc' \in {"init", "initjnl"}
    PROVE  \/ UNCHANGED cajero
           \/ TRANlogin \/ (\E s \in Seq1 : jnl_cust_chk_snddwn(s)) \/ ActualizaJournal
<1>1. CASE pc \in {"init", "initjnl"}
    BY <1>1, DesdeLogin DEF jnl_init_resync, Resincroniza, Cae
<1>2. CASE pc = "fuera"
    BY <1>2, DesdeReposo DEF JNLprelog_tran, Cae
<1>3. CASE ~EnLogin
    BY <1>3, QuienMueveSecuencia
       DEF MismaTrx, JNLprelog_tran, MISCjnl_reverso_auto, Cierra, CierraTrx,
           jnl_init_resync, Resincroniza, Cae, EnLogin
<1> QED
    BY <1>1, <1>2, <1>3 DEF EnLogin

\* A journal record appears with its prelog, or as a reversal.
LEMMA RegistroAparece ==
    ASSUME PasoSerie, NEW s \in Seq1, ~HayJnl(s)
    PROVE  jnl'[s] = jnl[s] \/ RegistroNuevo(s)
<1> USE DEF PasoSerie, IInv, RInv
<1>1. ~(Cierra /\ s = cur)
    BY DEF Cierra, CierraTrx, TrxEnCurso, Transaccion, EnLogin
<1>2. ~(MISCjnl_corregida /\ (s = fila \/ s = rev))
    BY DEF MISCjnl_corregida, FilasTomadas, FilaConJournal, EnReverso, ConReverso
<1>3. ~(ActualizaJournal /\ s = fila)
    BY DEF ActualizaJournal, FilasTomadas
<1>4. ~(RtActualiza /\ s = rfila)
    BY EstadosNoVacios DEF RtActualiza, FilasTomadas, FilaConJournal, Lote, HayFila
<1> QED
    BY <1>1, <1>2, <1>3, <1>4, JnlEscrito

\* The one of a prelog is of the current transaction, which the totals do not know.
LEMMA RegistroDePrelog ==
    ASSUME PasoSerie, NEW s \in Seq1, jnl'[s] # jnl[s],
           \E viaja, solo \in BOOLEAN : (solo => viaja) /\ JNLprelog_tran(viaja, solo)
    PROVE  /\ s = cur' /\ Transaccion' /\ jnl'[s].st = MEMO /\ s > tots'.seq
           /\ pc' = "stat_init" /\ sndrt' = jnl'[s].viaja /\ ~jnl'[s].rev /\ ~HayJnl(s)
<1> USE DEF PasoSerie, IInv, TypeOK, TipoTablas, TipoCajero
<1>1. PICK viaja \in BOOLEAN, solo \in BOOLEAN : JNLprelog_tran(viaja, solo)
    OBVIOUS
<1>2. /\ pc = "libre" /\ pc' = "stat_init" /\ sequence' = sequence + 1 /\ cur' = sequence'
      /\ sndrt' = viaja /\ tots' = tots
      /\ jnl' = [jnl EXCEPT ![sequence'] = [st |-> MEMO, viaja |-> viaja, solo |-> solo,
                                            rev |-> FALSE, corr |-> 0]]
    BY <1>1 DEF JNLprelog_tran
<1>3. s = sequence'
    BY <1>2
<1>4. jnl'[s] = [st |-> MEMO, viaja |-> viaja, solo |-> solo, rev |-> FALSE, corr |-> 0]
    BY <1>2, <1>3
<1>5. tots.seq = sequence /\ ~HayJnl(s)
    BY <1>2, <1>3 DEF JournalAlDia, EnLogin, EsUltimo
<1> QED
    BY <1>2, <1>3, <1>4, <1>5 DEF Transaccion, EnLogin, Seq1

\* Only the batch, when it does not find the record of a row, deletes the row.
LEMMA FilaQueda ==
    ASSUME PasoSerie, NEW s \in Seq1, HayFila(s), ~HayFila(s)'
    PROVE  RtBorra /\ s = rfila
<1> USE DEF PasoSerie, IInv, RInv, SInv
<1>1. HayJnl(s)
    BY DEF FilaConJournal
<1>2. ~(CierraFila /\ s = fila /\ cai'[s].st = tran_status)
    BY EstadosDistintos DEF CierraFila, FilasEnMano, HayFila
<1>3. ~(CaidaEnReverso /\ s = fila /\ cai'[s].st = orig)
    BY <1>1 DEF CaidaEnReverso, FinReversoCaido, FilasEnMano, EnReverso, HayFila, HayJnl
<1>4. ~(RtCierraFila /\ s = rfila /\ cai'[s].st = rstatus)
    BY <1>1 DEF RtCierraFila, FilasEnMano, HayFila, HayJnl
<1> QED
    BY <1>1, <1>2, <1>3, <1>4, FilaEscrita, EstadosNoVacios DEF HayFila, HayJnl

\* A record without a row that a login would have to find, seen from before the step.
LEMMA ReExaminaAntes ==
    ASSUME PasoSerie, NEW s \in Seq1, HayJnl(s), ReExamina(s)'
    PROVE  ReExamina(s)
BY RegistroSigue, DesenlaceSigue DEF PasoSerie, ReExamina, HayJnl

\* While the teller works, the rows change with its own steps only.
LEMMA FilasQuietas ==
    ASSUME PasoSerie, UNCHANGED cajero, pc \notin {"libre", "fuera"}
    PROVE  cai' = cai
<1> USE DEF PasoSerie
<1>1. rpc = "duerme"
    BY LoteDuerme
<1>2. ~RtEmpieza
    BY ModoAssumption DEF RtEmpieza, EnSerie
<1>3. ~(RtBorra \/ RtCierraFila \/ RtTermina \/ \E t \in Seq1 : RtToma(t))
    BY <1>1 DEF RtToma, RtBorra, RtCierraFila, RtTermina
<1>4. ~(TRANlogin \/ \E t \in Seq1 : jnl_cust_chk_snddwn(t))
    BY DEF cajero, TRANlogin, jnl_cust_chk_snddwn
<1>5. ~(CDSop_marca_cien \/ AnalizaSinLinea \/ CierraFila \/ CaidaEnReverso
        \/ \E t \in Seq1 : TomaFila(t))
    BY DEF cajero, CDSop_marca_cien, TomaFila, AnalizaSinLinea, CierraFila, CaidaEnReverso,
           FinReversoCaido
<1>6. ~\E t \in Seq1 : LiberaAbandonada(t)
    BY <1>1, SinTomadas DEF LiberaAbandonada, Tomadas99
<1> QED
    BY <1>2, <1>3, <1>4, <1>5, <1>6, QuienEscribeCai

\* Every step keeps what a login has to find where it will look for it.
LEMMA PasoLoginSigue ==
    ASSUME PasoSerie
    PROVE  PasoLogin'
<1> USE DEF PasoSerie, IInv, RInv, SInv
<1>1. ASSUME NEW s \in Seq1, ReExamina(s)', ~HayFila(s)'
      PROVE  SinCerrar(s)' /\ (EnLogin' \/ (Transaccion' /\ cur' = s))
    <2>1. CASE ~HayJnl(s)
        <3>1. RegistroNuevo(s)
            BY <1>1, <2>1, RegistroAparece DEF ReExamina, HayJnl
        <3>2. jnl'[s].st # HOST_REJECTED
            BY <1>1 DEF ReExamina, Definitivo
        <3>3. jnl'[s] # jnl[s]
            BY <1>1, <2>1 DEF ReExamina, HayJnl
        <3> QED
            BY <3>1, <3>2, <3>3, RegistroDePrelog DEF RegistroNuevo, SinCerrar
    <2>2. CASE HayFila(s)
        <3>1. RtBorra /\ s = rfila
            BY <1>1, <2>2, FilaQueda
        <3>2. /\ SinCerrar(s) /\ pc = "fuera" /\ UNCHANGED <<jnl, tots, pc>>
            BY <3>1 DEF RtBorra, FilasEnMano, cajero
        <3> QED
            BY <3>2 DEF SinCerrar, EnLogin
    <2>3. CASE HayJnl(s) /\ ~HayFila(s)
        <3>1. SinCerrar(s) /\ (EnLogin \/ (Transaccion /\ cur = s)) /\ ReExamina(s)
            BY <1>1, <2>3, ReExaminaAntes DEF PasoLogin
        <3>2. ~Cierra
            <4>1. SUFFICES ASSUME Cierra PROVE FALSE
                OBVIOUS
            <4>2. pc = "seguir" /\ cur = s /\ Transaccion /\ jnl[s].viaja
                BY <3>1, <4>1 DEF Cierra, CierraTrx, EnLogin, Transaccion, ReExamina
            <4>3. jnl'[s].st = tran_status
                BY <4>1, <4>2 DEF Cierra, CierraTrx, TypeOK, TipoTablas, RegJnl
            <4>4. cai[s].st = tran_status /\ EnVuelo(tran_status)
                BY <1>1, <4>2, <4>3
                   DEF PasoTrx, PasoEnvio, ConDesenlace, ReExamina, Definitivo
            <4> QED
                BY <2>3, <4>4, NoEnVuelo DEF HayFila
        <3>3. ~jnl_init_resync
            <4>1. SUFFICES ASSUME jnl_init_resync PROVE FALSE
                OBVIOUS
            <4>2. pc = "init" /\ PorExaminar = {}
                BY <4>1 DEF jnl_init_resync, Resincroniza
            <4>3. s >= fila
                BY <3>1, <4>2 DEF PasoLogin, SinCerrar, ReExamina
            <4>4. fila <= s
                BY <4>3 DEF TypeOK, TipoCajero, Seq1
            <4> QED
                BY <3>1, <4>2, <4>4 DEF PorExaminar
        <3>4. ~(ActualizaJournal /\ s = fila)
            BY <2>3, NoEnVuelo DEF ActualizaJournal, PasoLogin, HayFila
        <3>5. SinCerrar(s)'
            BY <3>1, <3>2, <3>3, <3>4, SinCerrarSigue
        <3>6. EnLogin' \/ (Transaccion' /\ cur' = s)
            BY <3>1, <3>2, <3>3, TrxContinua, LoginContinua DEF Cae, EnLogin
        <3> QED
            BY <3>5, <3>6
    <2> QED
        BY <2>1, <2>2, <2>3
<1>2. ASSUME pc' \in {"init", "initjnl"}, NEW s \in Seq1, jnl'[s].st = MEMO, jnl'[s].viaja
      PROVE  s >= fila'
    <2>1. CASE TRANlogin
        <3>1. /\ pc = "fuera" /\ rpc = "duerme" /\ fila' = tots.seq /\ jnl' = jnl
            BY <2>1 DEF TRANlogin, LoteAparte
        <3>2. CASE HayFila(s)
            <4>1. ~Debida(s)
                BY <1>2, <3>1, <3>2, DebidaNoMemo
            <4>2. ~FilaLista(s)
                BY <1>2, <3>1, <4>1, NoEnVuelo DEF FilaLista, Debida
            <4>3. ~Definitivo(cai[s].st)
                BY <1>2, <3>1, EstadosDistintos DEF FilaDebida
            <4>4. SinCerrar(s)
                BY <3>1, <3>2, <4>1, <4>2, <4>3
                   DEF FilaSana, FilaSinCerrar, FilaDelOperador, FilaDelLote
            <4> QED
                BY <3>1, <4>4 DEF SinCerrar, Seq1, TypeOK, TipoTablas
        <3>3. CASE ~HayFila(s)
            <4>1. SinCerrar(s)
                BY <1>2, <3>1, <3>3, EstadosDistintos DEF PasoLogin, ReExamina
            <4> QED
                BY <3>1, <4>1 DEF SinCerrar, Seq1, TypeOK, TipoTablas
        <3> QED
            BY <3>2, <3>3
    <2>2. CASE \E t \in Seq1 : jnl_cust_chk_snddwn(t)
        <3>1. PICK t \in Seq1 : jnl_cust_chk_snddwn(t)
            BY <2>2
        <3>2. /\ pc = "init" /\ fila' = t /\ jnl' = jnl
              /\ \A u \in PorExaminar : t <= u
            BY <3>1 DEF jnl_cust_chk_snddwn
        <3>3. s >= fila /\ ReExamina(s)
            BY <1>2, <3>2, EstadosDistintos DEF PasoLogin, ReExamina
        <3>4. s \in PorExaminar
            BY <3>3 DEF PorExaminar, TypeOK, TipoCajero, Seq1
        <3> QED
            BY <3>2, <3>4 DEF Seq1
    <2>3. CASE ActualizaJournal
        <3>1. pc = "initjnl" /\ fila' = fila + 1 /\ fila \in Seq1
            BY <2>3 DEF ActualizaJournal, FilasTomadas
        <3>2. s # fila
            <4>1. jnl'[fila].st = tran_status
                BY <2>3, <3>1 DEF ActualizaJournal, TypeOK, TipoTablas, RegJnl
            <4> QED
                BY <1>2, <3>1, <4>1, NoEnVuelo DEF PasoLogin
        <3>3. jnl'[s] = jnl[s]
            BY <2>3, <3>2 DEF ActualizaJournal
        <3>4. s >= fila
            BY <1>2, <3>1, <3>3 DEF PasoLogin
        <3> QED
            BY <3>1, <3>2, <3>4 DEF Seq1
    <2>4. CASE UNCHANGED cajero
        <3>1. pc \in {"init", "initjnl"} /\ fila' = fila
            BY <1>2, <2>4 DEF cajero
        <3>2. jnl' = jnl
            <4>1. ~RtActualiza
                BY <3>1, LoteDuerme DEF RtActualiza
            <4> QED
                BY <2>4, <3>1, <4>1, QuienEscribeJnl
                   DEF cajero, JNLprelog_tran, Cierra, CierraTrx, MISCjnl_reverso_auto,
                       MISCjnl_corregida, ActualizaJournal
        <3> QED
            BY <1>2, <3>1, <3>2 DEF PasoLogin
    <2> QED
        BY <1>2, <2>1, <2>2, <2>3, <2>4, HaciaLogin
<1>3. pc' = "initjnl" => EnVuelo(tran_status') /\ cai'[fila'].st = tran_status'
    <2> SUFFICES ASSUME pc' = "initjnl"
                 PROVE  EnVuelo(tran_status') /\ cai'[fila'].st = tran_status'
        OBVIOUS
    <2>1. CASE UNCHANGED cajero
        <3>1. pc = "initjnl" /\ rpc = "duerme"
            BY <2>1, LoteDuerme DEF cajero
        <3>2. cai' = cai
            BY <2>1, <3>1, FilasQuietas
        <3> QED
            BY <2>1, <3>1, <3>2 DEF cajero, PasoLogin
    <2>2. CASE \E t \in Seq1 : jnl_cust_chk_snddwn(t)
        <3>1. PICK t \in Seq1 : jnl_cust_chk_snddwn(t)
            BY <2>2
        <3>2. /\ pc = "init" /\ rpc = "duerme" /\ fila' = t /\ tran_status' = EstadoCaida(t)
              /\ ReExamina(t)
            BY <3>1, LoteDuerme DEF jnl_cust_chk_snddwn, PorExaminar
        <3>3. cai[t].st # TomadaBatch
            BY <3>2, SinTomadas
        <3>4. CASE ~HayFila(t)
            <4>1. cai' = [cai EXCEPT ![t] = [st |-> SESSION_LOST, solo |-> jnl[t].solo]]
                BY <3>1, <3>4 DEF jnl_cust_chk_snddwn, HayFila
            <4>2. cai'[t].st = SESSION_LOST /\ tran_status' = SESSION_LOST
                BY <3>2, <3>4, <4>1 DEF EstadoCaida, HayFila, TypeOK, TipoTablas
            <4> QED
                BY <3>2, <4>2, SiEnVuelo
        <3>5. CASE HayFila(t)
            <4>1. cai' = cai /\ tran_status' = cai[t].st
                BY <3>1, <3>2, <3>3, <3>5 DEF jnl_cust_chk_snddwn, EstadoCaida, HayFila
            <4>2. cai[t].st # TomadaOperador
                BY <3>2, <3>5, FasesDeFila DEF FilaDelOperador, EnReverso
            <4>3. ~Definitivo(cai[t].st)
                BY <3>2 DEF FilaDebida, ReExamina
            <4> QED
                BY <3>2, <3>3, <3>5, <4>1, <4>2, <4>3, FasesDeFila
        <3> QED
            BY <3>4, <3>5
    <2> QED
        BY <2>1, <2>2, HaciaLogin DEF TRANlogin, ActualizaJournal
<1> QED
    BY <1>1, <1>2, <1>3 DEF PasoLogin

-----------------------------------------------------------------------------
(* What is known of a transaction out of the branch.                       *)

\* What a step does to the requests of the line and to the host.
LEMMA RedEscrita ==
    ASSUME PasoSerie
    PROVE  \/ host' = host /\ net' \subseteq net
           \/ \E p \in net : net' = net \ {p} /\ (HostAplica(p) \/ HostAnula(p))
           \/ /\ COMM_send /\ pc' = "espera" /\ host' = host
              /\ net' = net \union {Mensaje("200", cur, "op")}
           \/ /\ EnviaReverso /\ host' = host
              /\ net' = net \union {Mensaje("400", fila, "op")}
           \/ /\ RtEnvia /\ host' = host
              /\ net' = net \union {Mensaje("400", rfila, "rt")}
<1>1. CASE COMM_send
    BY <1>1 DEF COMM_send
<1>2. CASE EnviaReverso
    BY <1>2 DEF EnviaReverso
<1>3. CASE RtEnvia
    BY <1>3 DEF RtEnvia
<1>4. CASE \E p \in net : HostAplica(p) \/ HostAnula(p)
    BY <1>4 DEF HostAplica, HostAnula, Responde
<1>5. CASE UNCHANGED red
    BY <1>5 DEF red
<1>6. CASE LineaCae \/ LineaSube \/ (\E p \in net : PierdePedido(p))
           \/ \E m \in ans : COMM_unso(m)
    BY <1>6 DEF LineaCae, LineaSube, PierdePedido, COMM_unso
<1>7. CASE UNCHANGED <<host, net>>
    BY <1>7
<1>8. Next
    BY DEF PasoSerie
<1> QED
    BY <1>1, <1>2, <1>3, <1>4, <1>5, <1>6, <1>7, <1>8, QuienEscribeRed DEF Externo

\* The host and the requests of a transaction, as HostAplica and HostAnula leave them.
LEMMA HostAtiende ==
    ASSUME PasoSerie, NEW p \in net, HostAplica(p) \/ HostAnula(p)
    PROVE  /\ p.seq \in Seq1 /\ net' = net \ {p}
           /\ \A s \in Seq1 : s # p.seq => host'[s] = host[s]
           /\ p.tipo = "400" => host'[p.seq] \in {"anulada", "retenida", "rechazada"}
           /\ p.tipo = "200" =>
                 /\ p = Mensaje("200", p.seq, "op") /\ host[p.seq] # "aplicada"
                 /\ IF host[p.seq] = "nada" THEN host'[p.seq] \in {"aplicada", "rechazada"}
                                            ELSE host'[p.seq] = host[p.seq]
<1> USE DEF PasoSerie, IInv, SInv, TypeOK, TipoRed, Pedido
<1>1. p.tipo = "200" => p.de = "op" /\ host[p.seq] # "aplicada"
    BY DEF CorreoSerie
<1>2. p.tipo = "200" => p = Mensaje("200", p.seq, "op")
    BY <1>1 DEF Mensaje
<1>3. CASE HostAplica(p)
    BY <1>1, <1>2, <1>3 DEF HostAplica, Responde
<1>4. CASE HostAnula(p)
    BY <1>4 DEF HostAnula, Responde
<1> QED
    BY <1>3, <1>4

\* What the branch has said nothing of stays so until its request, or a cancellation.
LEMMA LimpiaSigue ==
    ASSUME PasoSerie, NEW s \in Seq1, Limpia(s)
    PROVE  \/ Limpia(s)' \/ (COMM_send /\ s = cur /\ pc' = "espera")
           \/ (EnviaReverso /\ s = fila) \/ (RtEnvia /\ s = rfila)
<1>1. CASE host' = host /\ net' \subseteq net
    BY <1>1 DEF Limpia
<1>2. CASE \E p \in net : net' = net \ {p} /\ (HostAplica(p) \/ HostAnula(p))
    BY <1>2, HostAtiende DEF Limpia
<1>3. ASSUME NEW t, NEW u, NEW q, host' = host, net' = net \union {Mensaje(t, u, q)}
      PROVE  Limpia(s)' \/ s = u
    BY <1>3 DEF Limpia, Mensaje
<1> QED
    BY <1>1, <1>2, <1>3, RedEscrita

\* Only its request puts a transaction in danger.
LEMMA PeligroAntes ==
    ASSUME PasoSerie, NEW s \in Seq1, EnPeligro(s)'
    PROVE  EnPeligro(s) \/ (COMM_send /\ s = cur /\ pc' = "espera")
<1>1. CASE host' = host /\ net' \subseteq net
    BY <1>1 DEF EnPeligro
<1>2. CASE \E p \in net : net' = net \ {p} /\ (HostAplica(p) \/ HostAnula(p))
    <2>1. PICK p \in net : HostAplica(p) \/ HostAnula(p)
        BY <1>2
    <2>2. CASE s # p.seq
        BY <2>1, <2>2, HostAtiende DEF EnPeligro
    <2>3. CASE s = p.seq /\ p.tipo = "400"
        BY <2>1, <2>3, HostAtiende DEF EnPeligro
    <2>4. CASE s = p.seq /\ p.tipo = "200"
        BY <2>1, <2>4, HostAtiende DEF EnPeligro
    <2> QED
        BY <2>2, <2>3, <2>4 DEF PasoSerie, IInv, TypeOK, TipoRed, Pedido
<1>3. ASSUME NEW u \in Seq1, NEW q, host' = host, net' = net \union {Mensaje("400", u, q)}
      PROVE  EnPeligro(s)
    BY <1>3 DEF EnPeligro, Mensaje
<1>4. CASE COMM_send /\ pc' = "espera" /\ host' = host
           /\ net' = net \union {Mensaje("200", cur, "op")}
    BY <1>4 DEF EnPeligro, Mensaje
<1>5. EnviaReverso => fila \in Seq1
    BY DEF EnviaReverso, PasoSerie, IInv, FilasTomadas, EnReverso
<1>6. RtEnvia => rfila \in Seq1
    BY DEF RtEnvia, PasoSerie, IInv, FilasTomadas, Lote
<1> QED
    BY <1>1, <1>2, <1>3, <1>4, <1>5, <1>6, RedEscrita

\* What was corrected is in no danger.
LEMMA CorregidaSinPeligro ==
    ASSUME RInv, NEW s \in Seq1, HayFila(s), jnl[s].corr # 0
    PROVE  ~EnPeligro(s)
<1>1. Resuelta(jnl[s].st, host[s])
    BY DEF RInv, Reversos, CorregidaSegunHost
<1> QED
    BY <1>1 DEF Resuelta, EnPeligro

\* What the host has of the current transaction only its own answer changes.
LEMMA HostDeLaTrx ==
    ASSUME PasoSerie, Transaccion, Mensaje("200", cur, "op") \notin net
    PROVE  cur \in Seq1 /\ host'[cur] = host[cur]
<1> USE DEF PasoSerie, IInv, RInv, SInv
<1>1. cur \in Seq1 /\ jnl[cur].st = MEMO
    BY DEF TrxEnCurso, TrxSinDesenlace
<1>2. CASE \E p \in net : net' = net \ {p} /\ (HostAplica(p) \/ HostAnula(p))
    <2>1. PICK p \in net : HostAplica(p) \/ HostAnula(p)
        BY <1>2
    <2>2. p.seq # cur
        <3>1. p.tipo = "400" => p.seq # cur
            BY <1>1 DEF CorreoSerie
        <3>2. p.tipo = "200" => p.seq # cur
            BY <2>1, HostAtiende
        <3> QED
            BY <3>1, <3>2 DEF TypeOK, TipoRed, Pedido
    <2> QED
        BY <1>1, <2>1, <2>2, HostAtiende
<1> QED
    BY <1>1, <1>2, RedEscrita

\* The outcome of the current transaction stays that of the host.
LEMMA ConDesenlaceSigue ==
    ASSUME PasoSerie, Transaccion, pc # "host_tran", ConDesenlace(cur),
           tran_status' = tran_status, cur' = cur
    PROVE  ConDesenlace(cur)'
<1> USE DEF PasoSerie, IInv, RInv, SInv
<1>1. cur \in Seq1 /\ jnl[cur].st = MEMO
    BY DEF TrxEnCurso, TrxSinDesenlace
<1>2. CASE tran_status = HOST_REJECTED /\ ~EnPeligro(cur)
    <2>1. ~COMM_send
        BY DEF COMM_send
    <2>2. ~EnPeligro(cur)'
        <3>1. \A s \in Seq1 : EnPeligro(s)' => EnPeligro(s)
            BY <2>1, PeligroAntes
        <3>2. EnPeligro(cur)' => \E s \in Seq1 : s = cur /\ EnPeligro(s)'
            BY <1>1
        <3> QED
            BY <1>2, <3>1, <3>2
    <2> QED
        BY <1>2, <2>2 DEF ConDesenlace
<1>3. CASE tran_status = HOST_ACCEPTED /\ host[cur] = "aplicada"
    <2>1. Mensaje("200", cur, "op") \notin net
        BY <1>3 DEF CorreoSerie, Mensaje
    <2> QED
        BY <1>3, <2>1, HostDeLaTrx DEF ConDesenlace
<1> QED
    BY <1>2, <1>3 DEF ConDesenlace

-----------------------------------------------------------------------------
(* The status of the current transaction, at each of its steps.            *)

\* The steps of a transaction that goes on, but those of the recovery of a row.
LEMMA DesdeTrx ==
    ASSUME PasoSerie, Transaccion, ~EnReverso, ~Cierra, ~Cae
    PROVE  \/ UNCHANGED cajero
           \/ COMM_stat_init \/ CDSchk_trxs_caidas \/ COMM_send \/ CDSop_marca_cien
           \/ FinDeEspera /\ pc = "espera"
           \/ (\E s \in Seq1 : TomaFila(s)) \/ FinRecuperacion
<1> USE DEF PasoSerie
<1>1. CASE Cajero
    <2>1. CASE (\E m \in ans : COMM_rcv_event(m)) \/ SinRespuesta \/ ErrorComm
        BY <2>1
           DEF COMM_rcv_event, SinRespuesta, ErrorComm, FinDeEspera, Espera, EnReverso,
               tablas, rtbatch
    <2>2. ~RecuperacionesPendientes
        BY LoteDuerme, SinTomadas DEF RecuperacionesPendientes, RechazaTrx, Tomadas99
    <2>3. ~\E viaja, solo \in BOOLEAN : (solo => viaja) /\ JNLprelog_tran(viaja, solo)
        BY DEF JNLprelog_tran, Transaccion
    <2>4. CASE \E s \in Seq1 : LiberaAbandonada(s)
        BY <2>4 DEF LiberaAbandonada
    <2> QED
        BY <1>1, <2>1, <2>2, <2>3, <2>4 DEF Cajero
<1>2. CASE Recuperacion
    <2>1. ~(MISCjnl_reverso_auto \/ AnalizaSinLinea \/ EnviaReverso \/ MISCjnl_corregida
            \/ CierraFila \/ CaidaEnReverso)
        BY DEF MISCjnl_reverso_auto, AnalizaSinLinea, EnviaReverso, MISCjnl_corregida,
               CierraFila, CaidaEnReverso, FinReversoCaido, EnReverso
    <2> QED
        BY <1>2, <2>1 DEF Recuperacion
<1>3. CASE Login
    BY <1>3
       DEF Login, TRANlogin, jnl_cust_chk_snddwn, ActualizaJournal, jnl_init_resync,
           Resincroniza, Transaccion, EnLogin
<1>4. CASE LineaCae
    BY <1>4 DEF LineaCae, FinDeEspera, Espera, EnReverso, cajero, tablas, rtbatch
<1> QED
    BY <1>1, <1>2, <1>3, <1>4, QuienEscribeCajero

\* The flag that stops CDSop_marca_cien is up while a reversal is sent, and only then.
LEMMA CancelSigue ==
    ASSUME PasoSerie, cancel'
    PROVE  ConReverso'
<1> USE DEF PasoSerie, SInv, PasoTrx
<1>1. CASE MISCjnl_reverso_auto
    BY <1>1 DEF MISCjnl_reverso_auto, ConReverso
<1>2. CASE ~MISCjnl_reverso_auto
    <2>1. cancel
        <3>1. CASE Cajero
            BY <1>2, <3>1
               DEF Cajero, JNLprelog_tran, COMM_stat_init, CDSchk_trxs_caidas,
                   RecuperacionesPendientes, RechazaTrx, LiberaAbandonada, COMM_send,
                   COMM_rcv_event, SinRespuesta, ErrorComm, CDSop_marca_cien, Cierra,
                   CierraTrx, cajero
        <3>2. CASE Recuperacion
            BY <1>2, <3>2
               DEF Recuperacion, TomaFila, FinRecuperacion, AnalizaSinLinea, EnviaReverso,
                   MISCjnl_corregida, CierraFila, CaidaEnReverso, FinReversoCaido
        <3>3. CASE Login
            BY <3>3
               DEF Login, TRANlogin, jnl_cust_chk_snddwn, ActualizaJournal,
                   jnl_init_resync, Resincroniza
        <3>4. CASE LineaCae \/ Cae
            BY <3>4 DEF LineaCae, Cae
        <3>5. CASE UNCHANGED cajero
            BY <3>5 DEF cajero
        <3> QED
            BY <3>1, <3>2, <3>3, <3>4, <3>5, QuienEscribeCajero
    <2>2. ConReverso /\ EnReverso
        BY <2>1 DEF ConReverso, EnReverso
    <2>3. ~MISCjnl_corregida /\ ~CaidaEnReverso /\ ~Cae
        BY DEF MISCjnl_corregida, CaidaEnReverso, FinReversoCaido, Cae
    <2> QED
        BY <1>2, <2>2, <2>3, DesdeReverso
           DEF cajero, EnviaReverso, FinDeEspera, FinEspera, CierraFila, ConReverso
<1> QED
    BY <1>1, <1>2

\* Nothing of the current transaction leaves before it is sent.
LEMMA TrxLimpiaSigue ==
    ASSUME PasoSerie, Transaccion, Limpia(cur), ~COMM_send, cur' = cur
    PROVE  Limpia(cur)'
<1> USE DEF PasoSerie, IInv, SInv
<1>1. cur \in Seq1
    BY DEF TrxEnCurso
<1>2. ~(EnviaReverso /\ cur = fila)
    BY FilaAjena DEF EnviaReverso, EnReverso
<1>3. ~RtEnvia
    BY LoteDuerme DEF RtEnvia, Transaccion, EnLogin
<1>4. \A s \in Seq1 : s = cur /\ Limpia(s) => Limpia(s)'
    BY <1>2, <1>3, LimpiaSigue
<1>5. (\A s \in Seq1 : s = cur' => Limpia(s)') => Limpia(cur)'
    BY <1>1
<1> QED
    BY <1>4, <1>5

\* Every step keeps the status of a transaction that has nothing to send,
LEMMA PasoLocalSigue ==
    ASSUME PasoSerie, Transaccion, Transaccion', cur' = cur, ~Cierra, ~Cae,
           PasoLocal, ~jnl[cur].viaja
    PROVE  PasoLocal'
<1> USE DEF PasoSerie
<1>1. ~EnReverso
    BY DEF PasoLocal, EnReverso
<1>2. CASE UNCHANGED cajero
    BY <1>2 DEF cajero, PasoLocal
<1>3. CASE COMM_stat_init
    BY <1>3 DEF COMM_stat_init, EstadoInicial, PasoLocal
<1>4. CASE COMM_send
    BY <1>4 DEF COMM_send, PasoLocal
<1>5. CASE CDSop_marca_cien
    BY <1>5 DEF CDSop_marca_cien, PasoLocal
<1>6. ~CDSchk_trxs_caidas /\ ~FinRecuperacion /\ ~\E s \in Seq1 : TomaFila(s)
    BY DEF CDSchk_trxs_caidas, FinRecuperacion, TomaFila, PasoLocal
<1>7. pc # "espera"
    BY DEF PasoLocal
<1> QED
    BY <1>1, <1>2, <1>3, <1>4, <1>5, <1>6, <1>7, DesdeTrx

\* and of one that has.
LEMMA PasoEnvioSigue ==
    ASSUME PasoSerie, Transaccion, Transaccion', cur' = cur, ~Cierra, ~Cae,
           PasoEnvio, jnl[cur].viaja
    PROVE  PasoEnvio'
<1> USE DEF PasoSerie, IInv, RInv, SInv
<1>1. Limpia(cur) /\ ~COMM_send => Limpia(cur)'
    BY TrxLimpiaSigue
<1>2. ConDesenlace(cur) /\ pc # "host_tran" /\ tran_status' = tran_status
        => ConDesenlace(cur)'
    BY ConDesenlaceSigue
<1>3. CASE UNCHANGED cajero
    <2>1. pc' = pc /\ tran_status' = tran_status /\ sndrt' = sndrt
        BY <1>3 DEF cajero
    <2>2. ~COMM_send
        BY <2>1 DEF COMM_send
    <2>3. cai' = cai
        <3>1. pc \notin {"libre", "fuera"}
            BY DEF Transaccion, EnLogin
        <3> QED
            BY <1>3, <3>1, FilasQuietas
    <2>4. CASE pc \in {"exit_loop", "seguir"}
        BY <1>2, <2>1, <2>3, <2>4 DEF PasoEnvio
    <2>5. CASE pc \notin {"exit_loop", "seguir"}
        BY <1>1, <2>1, <2>2, <2>5 DEF PasoEnvio
    <2> QED
        BY <2>4, <2>5
<1>4. CASE COMM_stat_init
    BY <1>1, <1>4
       DEF COMM_stat_init, COMM_send, EstadoInicial, PasoEnvio, PorEnviar
<1>5. CASE CDSchk_trxs_caidas \/ FinRecuperacion \/ \E s \in Seq1 : TomaFila(s)
    BY <1>1, <1>5
       DEF CDSchk_trxs_caidas, FinRecuperacion, TomaFila, COMM_send, PasoEnvio
<1>6. CASE COMM_send
    <2>1. /\ pc = "host_tran" /\ Limpia(cur) /\ tran_status \in PorEnviar
          /\ sndrt \/ tran_status \in {SEND_ERROR, HOST_REJECTED}
        BY <1>6 DEF COMM_send, PasoEnvio
    <2>2. CASE tran_status \in {MEMO, UNPOSTED, SEND_ERROR} \/ ~sndrt
        <3>1. /\ pc' = "exit_loop" /\ tran_status' = tran_status
              /\ UNCHANGED <<net, host>>
            BY <1>6, <2>2 DEF COMM_send
        <3>2. ~EnPeligro(cur)'
            BY <2>1, <3>1 DEF Limpia, EnPeligro, Mensaje
        <3>3. tran_status \in {SEND_ERROR, HOST_REJECTED}
            <4>1. ~(SEND_RESET \in {MEMO, UNPOSTED, SEND_ERROR})
                  /\ ~(HOST_ACCEPTED \in {MEMO, UNPOSTED, SEND_ERROR})
                BY DEF SEND_RESET, MEMO, UNPOSTED, SEND_ERROR, HOST_ACCEPTED
            <4> QED
                BY <2>1, <2>2, <4>1 DEF PorEnviar
        <3> QED
            BY <3>1, <3>2, <3>3, SiEnVuelo DEF PasoEnvio, ConDesenlace
    <2>3. CASE ~(tran_status \in {MEMO, UNPOSTED, SEND_ERROR} \/ ~sndrt)
        <3>1. \/ pc' = "exit_loop" /\ tran_status' = SEND_ERROR
              \/ pc' = "espera" /\ tran_status' = RCV_RESET
            BY <1>6, <2>3 DEF COMM_send
        <3> QED
            BY <3>1, SiEnVuelo DEF PasoEnvio
    <2> QED
        BY <2>2, <2>3
<1>7. CASE CDSop_marca_cien
    <2>1. /\ pc = "exit_loop" /\ pc' = "seguir" /\ tran_status' = tran_status
          /\ EnVuelo(tran_status) \/ ConDesenlace(cur)
        BY <1>7 DEF CDSop_marca_cien, PasoEnvio
    <2>2. CASE ConDesenlace(cur)
        BY <1>2, <2>1, <2>2 DEF PasoEnvio
    <2>3. CASE EnVuelo(tran_status)
        <3>1. ~cancel
            BY <2>1 DEF PasoTrx, ConReverso
        <3>2. EsCaida(tran_status) /\ cur \in Seq1
            BY <2>3 DEF EnVuelo, EsCaida, TrxEnCurso
        <3>3. cai' = [cai EXCEPT ![cur] = [st |-> tran_status, solo |-> jnl[cur].solo]]
            BY <1>7, <3>1, <3>2 DEF CDSop_marca_cien
        <3>4. cai'[cur].st = tran_status
            BY <3>2, <3>3 DEF TypeOK, TipoTablas
        <3> QED
            BY <2>1, <2>3, <3>4 DEF PasoEnvio
    <2> QED
        BY <2>1, <2>2, <2>3
<1>8. CASE FinDeEspera /\ pc = "espera"
    <2>1. pc' = "exit_loop" /\ UNCHANGED <<host, net>> /\ EnVuelo(tran_status)
        BY <1>8 DEF FinDeEspera, FinEspera, PasoEnvio
    <2>2. CASE tran_status' \in {tran_status, SEND_ERROR} \union FallosLinea
        BY <2>1, <2>2, SiEnVuelo DEF PasoEnvio
    <2>3. CASE \E m \in ans : m.a = "op" /\ tran_status' = Veredicto(m.cod)
        <3>1. PICK m \in ans : m.a = "op" /\ tran_status' = Veredicto(m.cod)
            BY <2>3
        <3>2. m.tipo = "200" /\ m.seq = cur
            BY <1>8, <3>1 DEF Correo, DeQuien, Pedida
        <3>3. IF m.cod = "00" THEN host[cur] = "aplicada" ELSE ~EnPeligro(cur)
            BY <3>2 DEF CorreoSerie
        <3>4. ConDesenlace(cur)'
            BY <2>1, <3>1, <3>3 DEF ConDesenlace, Veredicto, EnPeligro
        <3> QED
            BY <2>1, <3>4 DEF PasoEnvio
    <2> QED
        BY <1>8, <2>2, <2>3 DEF FinDeEspera
<1>9. CASE EnReverso /\ ~UNCHANGED cajero
    <2>1. Limpia(cur)'
        BY <1>1, <1>9 DEF EnReverso, PasoEnvio, COMM_send
    <2>2. CASE MISCjnl_reverso_auto
        BY <2>1, <2>2 DEF MISCjnl_reverso_auto, PasoEnvio
    <2>3. CASE EnviaReverso
        BY <2>1, <2>3 DEF EnviaReverso, PasoEnvio
    <2>4. CASE FinDeEspera /\ pc = "revesp"
        BY <2>1, <2>4 DEF FinDeEspera, FinEspera, PasoEnvio
    <2>5. CASE MISCjnl_corregida
        <3>1. Definitivo(tran_status)
            <4>1. fila \in Seq1
                BY <1>9 DEF FilasTomadas
            <4> QED
                BY <2>5, <4>1, EscribeDesenlace, DesenlaceDefinitivo
        <3>2. tran_status \in PorEnviar
            BY <3>1 DEF Definitivo, PorEnviar
        <3> QED
            BY <2>1, <2>5, <3>2 DEF MISCjnl_corregida, PasoEnvio
    <2>6. CASE CierraFila
        BY <2>1, <2>6 DEF CierraFila, PasoEnvio
    <2>7. CASE CaidaEnReverso
        BY <2>1, <2>7 DEF CaidaEnReverso, FinReversoCaido, PasoEnvio, PorEnviar
    <2> QED
        BY <1>9, <2>2, <2>3, <2>4, <2>5, <2>6, <2>7, DesdeReverso
<1> QED
    BY <1>3, <1>4, <1>5, <1>6, <1>7, <1>8, <1>9, DesdeTrx

\* Every step keeps what the status of the current transaction says.
LEMMA PasoTrxSigue ==
    ASSUME PasoSerie
    PROVE  PasoTrx'
<1> SUFFICES ASSUME Transaccion'
             PROVE  IF jnl'[cur'].viaja THEN PasoEnvio' ELSE PasoLocal'
    BY CancelSigue DEF PasoTrx
<1> USE DEF PasoSerie, IInv, SInv
<1>1. CASE \E viaja, solo \in BOOLEAN : (solo => viaja) /\ JNLprelog_tran(viaja, solo)
    <2>1. PICK viaja \in BOOLEAN, solo \in BOOLEAN : JNLprelog_tran(viaja, solo)
        BY <1>1
    <2>2. pc = "libre" /\ cur' = sequence + 1 /\ UNCHANGED red /\ sequence \in Nat
          /\ sequence + 1 + Reserva <= MaxSeq
        BY <2>1 DEF JNLprelog_tran, TypeOK, TipoCajero
    <2>3. cur' \in Seq1 /\ ~HayJnl(cur')
        BY <2>2, ReservaNatural DEF JournalAlDia, EnLogin, EsUltimo, Seq1
    <2>4. jnl'[cur'] # jnl[cur']
        <3>1. jnl' = [jnl EXCEPT ![cur'] = [st |-> MEMO, viaja |-> viaja, solo |-> solo,
                                            rev |-> FALSE, corr |-> 0]]
            BY <2>1 DEF JNLprelog_tran
        <3>2. jnl'[cur'] = [st |-> MEMO, viaja |-> viaja, solo |-> solo, rev |-> FALSE,
                            corr |-> 0]
            BY <2>3, <3>1 DEF TypeOK, TipoTablas
        <3>3. jnl'[cur'].st = MEMO
            BY <3>2
        <3> QED
            BY <2>3, <3>3, EstadosDistintos DEF HayJnl
    <2>5. pc' = "stat_init" /\ sndrt' = jnl'[cur'].viaja
        <3>1. \A s \in Seq1 : jnl'[s] # jnl[s] => pc' = "stat_init" /\ sndrt' = jnl'[s].viaja
            BY <1>1, RegistroDePrelog
        <3> QED
            BY <2>3, <2>4, <3>1
    <2>6. Limpia(cur)'
        <3>1. Limpia(cur')
            BY <2>3 DEF CorreoSerie
        <3> QED
            BY <2>2, <3>1 DEF red, Limpia
    <2> QED
        BY <2>5, <2>6 DEF PasoEnvio, PasoLocal
<1>2. CASE ~\E viaja, solo \in BOOLEAN : (solo => viaja) /\ JNLprelog_tran(viaja, solo)
    <2>1. Transaccion /\ cur' = cur /\ ~Cierra /\ ~Cae
        BY <1>2, QuienMueveSecuencia
           DEF MismaTrx, MISCjnl_reverso_auto, Cierra, CierraTrx, jnl_init_resync,
               Resincroniza, Cae, Transaccion, EnLogin
    <2>2. jnl'[cur].viaja = jnl[cur].viaja
        BY <2>1, RegistroSigue DEF TrxEnCurso
    <2> QED
        BY <2>1, <2>2, PasoLocalSigue, PasoEnvioSigue DEF PasoTrx
<1> QED
    BY <1>1, <1>2

-----------------------------------------------------------------------------
(* What the messages on the line say.                                      *)

\* A record that is past MEMO does not go back to it.
LEMMA NoMemoSigue ==
    ASSUME PasoSerie, NEW s \in Seq1, HayJnl(s), jnl[s].st # MEMO
    PROVE  jnl'[s].st # MEMO
<1> USE DEF PasoSerie, IInv, RInv, SInv
<1>1. ~(Cierra /\ s = cur)
    BY DEF Cierra, CierraTrx, TrxSinDesenlace, Transaccion, EnLogin
<1>2. MISCjnl_corregida => Definitivo(EstadoReverso(tran_status, cod))
    <2>1. MISCjnl_corregida => fila \in Seq1
        BY DEF MISCjnl_corregida, FilasTomadas, EnReverso
    <2> QED
        BY <2>1, EscribeDesenlace, ResueltaUna
<1>3. RtActualiza => Definitivo(EstadoReverso(rstatus, rcod))
    <2>1. RtActualiza => rfila \in Seq1
        BY DEF RtActualiza, FilasTomadas, Lote
    <2>2. RtActualiza => ~JnlBloqueado(rfila)
        BY DEF RtActualiza, LoteAparte, JnlBloqueado
    <2> QED
        BY <2>1, <2>2, EscribeDesenlace, ResueltaUna
<1>4. ActualizaJournal => tran_status # MEMO
    BY NoEnVuelo DEF ActualizaJournal, PasoLogin
<1> QED
    BY <1>1, <1>2, <1>3, <1>4, JnlEscrito, EstadosDistintos

\* What is known out of the branch has a send routine.
LEMMA ConocidaSigue ==
    ASSUME PasoSerie, NEW s \in Seq1
    PROVE  (HayJnl(s)' /\ ConEnvio(s)') \/ Limpia(s)'
<1> USE DEF PasoSerie, IInv, RInv, SInv
<1>1. HayJnl(s) /\ ConEnvio(s) => HayJnl(s)' /\ ConEnvio(s)'
    BY HayJnlSigue, RegistroSigue DEF ConEnvio
<1>2. COMM_send /\ s = cur /\ pc' = "espera" => HayJnl(s) /\ ConEnvio(s)
    BY DEF COMM_send, PasoTrx, PasoLocal, TrxEnCurso, TrxSinDesenlace, Transaccion,
           EnLogin, ConEnvio
<1>3. EnviaReverso /\ s = fila => HayJnl(s) /\ ConEnvio(s)
    BY DEF EnviaReverso, FilasTomadas, EnReverso, FilaConJournal, FilaSana
<1>4. RtEnvia /\ s = rfila => HayJnl(s) /\ ConEnvio(s)
    BY EstadosNoVacios DEF RtEnvia, FilasTomadas, Lote, FilaConJournal, FilaSana, HayFila
<1> QED
    BY <1>1, <1>2, <1>3, <1>4, LimpiaSigue DEF CorreoSerie

\* A cancellation is of a transaction that fell; a request, of one not applied yet.
LEMMA PedidosSiguen ==
    ASSUME PasoSerie, NEW m \in net'
    PROVE  IF m.tipo = "400" THEN jnl'[m.seq].st # MEMO
                             ELSE m.de = "op" /\ host'[m.seq] # "aplicada"
<1> USE DEF PasoSerie, IInv, RInv, SInv, TypeOK, TipoRed, Pedido
<1>1. CASE m \in net /\ m.tipo = "400"
    <2>1. HayJnl(m.seq) /\ jnl[m.seq].st # MEMO
        BY <1>1 DEF CorreoSerie, Limpia
    <2> QED
        BY <1>1, <2>1, NoMemoSigue
<1>2. CASE m \in net /\ m.tipo = "200"
    <2>1. m.de = "op" /\ host[m.seq] # "aplicada" /\ m = Mensaje("200", m.seq, "op")
        BY <1>2 DEF CorreoSerie, Mensaje
    <2>2. CASE \E p \in net : net' = net \ {p} /\ (HostAplica(p) \/ HostAnula(p))
        <3>1. PICK p \in net : net' = net \ {p} /\ (HostAplica(p) \/ HostAnula(p))
            BY <2>2
        <3>2. CASE p.seq # m.seq
            BY <1>2, <2>1, <3>1, <3>2, HostAtiende
        <3>3. CASE p.seq = m.seq /\ p.tipo = "400"
            BY <1>2, <2>1, <3>1, <3>3, HostAtiende
        <3>4. ~(p.seq = m.seq /\ p.tipo = "200")
            BY <2>1, <3>1, HostAtiende
        <3> QED
            BY <3>2, <3>3, <3>4
    <2>3. host' = host => host'[m.seq] # "aplicada"
        BY <2>1
    <2> QED
        BY <1>2, <2>1, <2>2, <2>3, RedEscrita
<1>3. CASE COMM_send /\ host' = host /\ m = Mensaje("200", cur, "op") /\ pc' = "espera"
    <2>1. Limpia(cur)
        BY <1>3 DEF COMM_send, PasoTrx, PasoLocal, PasoEnvio, Transaccion, EnLogin
    <2> QED
        BY <1>3, <2>1 DEF Limpia, Mensaje
<1>4. CASE EnviaReverso /\ m = Mensaje("400", fila, "op")
    <2>1. EnReverso /\ fila \in Seq1 /\ HayFila(fila) /\ Debida(fila) /\ jnl' = jnl
        BY <1>4 DEF EnviaReverso, FilasTomadas, FilasEnMano, EnReverso, tablas
    <2> QED
        BY <1>4, <2>1, DebidaNoMemo DEF Mensaje
<1>5. CASE RtEnvia /\ m = Mensaje("400", rfila, "rt")
    <2>1. jnl'[rfila].st = rorig /\ EnVuelo(rorig)
        BY <1>5 DEF RtEnvia, FilasEnMano, Lote, tablas
    <2> QED
        BY <1>5, <2>1, NoEnVuelo DEF Mensaje
<1> QED
    BY <1>1, <1>2, <1>3, <1>4, <1>5, RedEscrita

\* An answer that was not on the line is the one the host gives now.
LEMMA RespuestaNueva ==
    ASSUME PasoSerie, NEW m \in ans', m \notin ans, m.tipo = "200"
    PROVE  \E p \in net :
               /\ HostAplica(p) /\ p.tipo = "200" /\ m.seq = p.seq
               /\ IF m.cod = "00" THEN host'[p.seq] = "aplicada"
                  ELSE host'[p.seq] = IF host[p.seq] = "nada" THEN "rechazada"
                                      ELSE host[p.seq]
<1>1. ~(COMM_send \/ EnviaReverso \/ RtEnvia)
    BY DEF COMM_send, EnviaReverso, RtEnvia
<1>2. ~(LineaCae \/ LineaSube \/ (\E p \in net : PierdePedido(p))
        \/ \E n \in ans : COMM_unso(n))
    BY DEF LineaCae, LineaSube, PierdePedido, COMM_unso, Quedan
<1>3. ~\E p \in net : HostAnula(p)
    <2>1. SUFFICES ASSUME NEW p \in net, HostAnula(p) PROVE FALSE
        OBVIOUS
    <2>2. p.tipo = "400" /\ \E e, c : Responde(p, e, c)
        BY <2>1 DEF HostAnula
    <2> QED
        BY <2>2 DEF Responde
<1>4. PICK p \in net : HostAplica(p)
    <2>1. ~UNCHANGED red /\ ~(ans' \subseteq ans)
        BY DEF red
    <2>2. Next
        BY DEF PasoSerie
    <2>3. Externo
        BY <1>1, <2>1, <2>2, QuienEscribeRed
    <2> QED
        BY <1>2, <1>3, <2>3 DEF Externo
<1>5. ASSUME NEW e, NEW c, Responde(p, e, c)
      PROVE  host'[p.seq] = e /\ m.seq = p.seq /\ m.cod = c
    <2>1. host' = [host EXCEPT ![p.seq] = e]
        BY <1>5 DEF Responde
    <2>2. m = [tipo |-> p.tipo, seq |-> p.seq, a |-> p.de, cod |-> c]
        BY <1>5 DEF Responde
    <2> QED
        BY <2>1, <2>2 DEF PasoSerie, IInv, TypeOK, TipoRed, Pedido
<1>6. \/ host[p.seq] = "nada" /\ (Responde(p, "aplicada", "00") \/ Responde(p, "rechazada", "05"))
      \/ host[p.seq] # "nada" /\ Responde(p, host[p.seq], "05")
    BY <1>4 DEF HostAplica
<1>7. p.tipo = "200"
    BY <1>4 DEF HostAplica
<1> QED
    BY <1>4, <1>5, <1>6, <1>7

\* An answer to a request says what the host did with it.
LEMMA RespuestasSiguen ==
    ASSUME PasoSerie, NEW m \in ans', m.tipo = "200"
    PROVE  IF m.cod = "00" THEN host'[m.seq] = "aplicada" ELSE ~EnPeligro(m.seq)'
<1> USE DEF PasoSerie, IInv, RInv, SInv
<1>1. CASE m \notin ans
    <2>1. PICK p \in net :
              /\ HostAplica(p) /\ p.tipo = "200" /\ m.seq = p.seq
              /\ IF m.cod = "00" THEN host'[p.seq] = "aplicada"
                 ELSE host'[p.seq] = IF host[p.seq] = "nada" THEN "rechazada"
                                     ELSE host[p.seq]
        BY <1>1, RespuestaNueva
    <2>2. host[p.seq] # "aplicada"
        BY <2>1 DEF CorreoSerie
    <2> QED
        BY <2>1, <2>2 DEF EnPeligro
<1>2. CASE m \in ans
    <2>1. pc = "espera" /\ m.seq = cur /\ Mensaje("200", cur, "op") \notin net
        BY <1>2 DEF Correo, DeQuien, Espera, Pedida
    <2>2. Transaccion /\ ~COMM_send
        BY <2>1 DEF Transaccion, EnLogin, COMM_send
    <2>3. cur \in Seq1 /\ host'[cur] = host[cur]
        BY <2>1, <2>2, HostDeLaTrx
    <2>4. \A s \in Seq1 : EnPeligro(s)' => EnPeligro(s)
        BY <2>2, PeligroAntes
    <2>5. \A s \in Seq1 : s = m.seq => (EnPeligro(m.seq)' => EnPeligro(s))
        BY <2>4 DEF EnPeligro
    <2> QED
        BY <1>2, <2>1, <2>3, <2>5 DEF CorreoSerie
<1> QED
    BY <1>1, <1>2

\* Every step keeps what the messages say.
LEMMA CorreoSerieSigue ==
    ASSUME PasoSerie
    PROVE  CorreoSerie'
BY ConocidaSigue, PedidosSiguen, RespuestasSiguen DEF CorreoSerie

-----------------------------------------------------------------------------
(* No transaction the host applied is forgotten.                           *)

\* What is counted stays counted.
LEMMA SumaCrece ==
    ASSUME IInv, Next, NEW s \in Seq1
    PROVE  tots.suma[s] <= tots'.suma[s]
<1> USE DEF IInv, TypeOK, TipoTablas
<1>1. CASE UNCHANGED tots
    BY <1>1
<1>2. CASE Cierra
    BY <1>2 DEF Cierra, CierraTrx
<1>3. CASE jnl_init_resync
    BY <1>3 DEF jnl_init_resync, Resincroniza
<1> QED
    BY <1>1, <1>2, <1>3, QuienEscribeTots

\* What is in danger left the branch: it has a record, with a send routine.
LEMMA PeligroConRegistro ==
    ASSUME SInv, NEW s \in Seq1, EnPeligro(s)
    PROVE  HayJnl(s) /\ ConEnvio(s)
<1>1. ~Limpia(s)
    BY DEF Limpia, EnPeligro, Mensaje
<1> QED
    BY <1>1 DEF SInv, CorreoSerie

\* A record that was not closed is one the login that goes on will find.
LEMMA SeReexaminara ==
    ASSUME PasoSerie, NEW s \in Seq1, SinCerrar(s)', jnl'[s].viaja, EnLogin'
    PROVE  SeReexamina(s)'
<1>1. ReExamina(s)'
    BY EstadosDistintos DEF ReExamina, SinCerrar
<1>2. CASE pc' = "fuera"
    <2>1. tots'.seq \in Nat
        BY TypeOKSigue DEF PasoSerie, TypeOK, TipoTablas
    <2> QED
        BY <1>1, <1>2, <2>1 DEF SinCerrar, SeReexamina, Seq1
<1>3. CASE pc' \in {"init", "initjnl"}
    BY <1>1, <1>3, PasoLoginSigue DEF PasoLogin, SinCerrar, SeReexamina
<1> QED
    BY <1>2, <1>3 DEF EnLogin

\* The row of a transaction that was not cancelled stays, with a status a recovery
\* looks for; the batch deletes one only when a login will make it again.
LEMMA RecuperableSigue ==
    ASSUME PasoSerie, NEW s \in Seq1, jnl[s].corr = 0, Recuperable(s)
    PROVE  Recuperable(s)' \/ SeReexamina(s)'
<1> USE DEF PasoSerie, IInv, RInv, SInv
<1>1. HayFila(s)
    BY NoEnVuelo, EstadosNoVacios DEF Recuperable, HayFila
<1>2. Debida(s) => EnVuelo(jnl[s].st)
    BY DEF Debida
<1>3. CASE cai'[s] = cai[s]
    BY <1>3 DEF Recuperable
<1>4. CASE TomaFila(s) /\ cai'[s].st = TomadaOperador
    BY <1>4 DEF Recuperable
<1>5. ~(CierraFila /\ s = fila)
    BY DEF CierraFila, FilasEnMano
<1>6. CASE CaidaEnReverso /\ s = fila /\ cai'[s].st = orig
    BY <1>2, <1>6
       DEF CaidaEnReverso, FinReversoCaido, FilasEnMano, EnReverso, Recuperable
<1>7. CASE /\ TRANlogin \/ RtEmpieza \/ RtTermina
           /\ cai[s].st \in {TomadaOperador, TomadaBatch} /\ cai'[s].st = jnl[s].st
    <2>1. rpc # "match"
        BY <1>7 DEF TRANlogin, RtEmpieza, RtTermina, LoteAparte
    <2>2. Debida(s)
        BY <1>1, <1>7, <2>1, FasesDeFila DEF FilaDelOperador, FilaDelLote
    <2> QED
        BY <1>2, <1>7, <2>2 DEF Recuperable
<1>8. CASE RtToma(s) /\ cai'[s].st = TomadaBatch
    BY <1>8 DEF Recuperable
<1>9. CASE RtBorra /\ s = rfila
    <2>1. SinCerrar(s) /\ pc = "fuera" /\ pc' = pc /\ UNCHANGED <<jnl, tots>>
        BY <1>9 DEF RtBorra, FilasEnMano, cajero
    <2>2. jnl[s].viaja
        BY <1>1, FasesDeFila DEF ConEnvio
    <2> QED
        BY <2>1, <2>2, SeReexaminara DEF SinCerrar, EnLogin
<1>10. ~(RtCierraFila /\ s = rfila)
    BY DEF RtCierraFila, FilasEnMano
<1> QED
    BY <1>1, <1>3, <1>4, <1>5, <1>6, <1>7, <1>8, <1>9, <1>10, FilaEscrita

\* The current transaction, in danger, closes counted, with a row or refused by the
\* host; and if the teller dies the login finds its record.
LEMMA EnCursoSigue ==
    ASSUME PasoSerie, NEW s \in Seq1, EnPeligro(s), EnCurso(s), tots'.suma[s] = 0
    PROVE  EnCurso(s)' \/ Recuperable(s)' \/ SeReexamina(s)'
<1> USE DEF PasoSerie, IInv, RInv, SInv
<1>1. Transaccion /\ cur = s /\ jnl[s].viaja
    BY PeligroConRegistro DEF EnCurso, Transaccion, ConEnvio
<1>2. CASE Transaccion' /\ cur' = cur
    BY <1>1, <1>2 DEF EnCurso, Transaccion
<1>3. CASE Cierra
    <2>1. pc = "seguir" /\ cai' = cai
        BY <1>3 DEF Cierra, CierraTrx
    <2>2. CASE EnVuelo(tran_status) /\ cai[cur].st = tran_status
        BY <1>1, <2>1, <2>2 DEF Recuperable
    <2>3. ~ConDesenlace(cur)
        <3>1. tran_status = HOST_ACCEPTED => tots'.suma[s] = tots.suma[s] + 1
            BY <1>1, <1>3
               DEF Cierra, CierraTrx, HOST_ACCEPTED, HOST_REJECTED, TypeOK, TipoTablas
        <3>2. tots.suma[s] \in Nat
            BY DEF TypeOK, TipoTablas
        <3> QED
            BY <1>1, <3>1, <3>2 DEF ConDesenlace
    <2> QED
        BY <1>1, <2>1, <2>2, <2>3 DEF PasoTrx, PasoEnvio
<1>4. CASE Cae
    <2>1. pc' = "fuera" /\ UNCHANGED <<jnl, tots>>
        BY <1>4 DEF Cae, tablas
    <2>2. SinCerrar(s)
        BY <1>1 DEF TrxSinDesenlace, TrxEnCurso, SinCerrar, TypeOK, TipoTablas, Seq1
    <2> QED
        BY <1>1, <2>1, <2>2, SeReexaminara DEF SinCerrar, EnLogin
<1> QED
    BY <1>1, <1>2, <1>3, <1>4, TrxContinua

\* A record without a row that the login has to find, it finds.
LEMMA SeReexaminaSigue ==
    ASSUME PasoSerie, NEW s \in Seq1, SeReexamina(s), ~HayFila(s)
    PROVE  SeReexamina(s)'
<1> USE DEF PasoSerie, IInv, RInv, SInv
<1>1. EnLogin /\ ReExamina(s) /\ SinCerrar(s)
    BY DEF SeReexamina, PasoLogin
<1>2. HayJnl(s) /\ jnl[s].viaja
    BY <1>1 DEF ReExamina, HayJnl
<1>3. ~jnl_init_resync
    <2>1. jnl_init_resync => s \in PorExaminar /\ PorExaminar = {}
        BY <1>1 DEF jnl_init_resync, Resincroniza, SeReexamina, PorExaminar, TypeOK,
                    TipoCajero, Seq1
    <2> QED
        BY <2>1
<1>4. ~(ActualizaJournal /\ s = fila)
    BY NoEnVuelo DEF ActualizaJournal, PasoLogin, HayFila
<1>5. ~Cierra
    BY <1>1 DEF Cierra, CierraTrx, EnLogin
<1>6. SinCerrar(s)' /\ EnLogin' /\ jnl'[s].viaja
    BY <1>1, <1>2, <1>3, <1>4, <1>5, SinCerrarSigue, LoginContinua, RegistroSigue
<1> QED
    BY <1>6, SeReexaminara

\* Every step keeps sight of what the host applied and the totals do not count.
LEMMA NadaPerdidoSigue ==
    ASSUME PasoSerie
    PROVE  NadaPerdido'
<1> SUFFICES ASSUME NEW s \in Seq1, EnPeligro(s)', tots'.suma[s] = 0
             PROVE  EnCurso(s)' \/ Recuperable(s)' \/ SeReexamina(s)'
    BY DEF NadaPerdido
<1> USE DEF PasoSerie, IInv, RInv, SInv
<1>1. CASE COMM_send /\ s = cur /\ pc' = "espera"
    BY <1>1 DEF COMM_send, EnCurso, EnLogin
<1>2. CASE EnPeligro(s)
    <2>1. tots.suma[s] = 0
        BY SumaCrece DEF TypeOK, TipoTablas
    <2>2. CASE EnCurso(s)
        BY <1>2, <2>2, EnCursoSigue
    <2>3. CASE Recuperable(s)
        <3>1. HayFila(s)
            BY <2>3, NoEnVuelo, EstadosNoVacios DEF Recuperable, HayFila
        <3> QED
            BY <1>2, <2>3, <3>1, CorregidaSinPeligro, RecuperableSigue
    <2>4. CASE SeReexamina(s) /\ ~Recuperable(s)
        <3>1. ~HayFila(s)
            BY <2>4, FasesDeFila DEF Recuperable, SeReexamina, ReExamina, FilaDebida
        <3> QED
            BY <2>4, <3>1, SeReexaminaSigue
    <2> QED
        BY <1>2, <2>1, <2>2, <2>3, <2>4 DEF NadaPerdido
<1> QED
    BY <1>1, <1>2, PeligroAntes

-----------------------------------------------------------------------------
(* The invariant and what follows from it.                                 *)

LEMMA SInvInicial == Init => SInv
<1> SUFFICES ASSUME Init PROVE SInv
    OBVIOUS
<1>1. LoteAparte /\ PasoTrx /\ FilasEnMano
    BY DEF Init, LoteAparte, PasoTrx, Transaccion, FilasEnMano, EnReverso, Lote
<1>2. FilaSana /\ PasoLogin
    BY DEF Init, NoJnl, NoCai, FilaSana, HayFila, PasoLogin, ReExamina
<1>3. CorreoSerie /\ NadaPerdido
    BY DEF Init, CorreoSerie, Limpia, NadaPerdido, EnPeligro, Mensaje
<1> QED
    BY <1>1, <1>2, <1>3 DEF SInv

LEMMA SInvInductivo ==
    ASSUME EnSerie
    PROVE  IInv /\ RInv /\ SInv /\ [Next]_vars => SInv'
<1> SUFFICES ASSUME IInv, RInv, SInv, [Next]_vars PROVE SInv'
    OBVIOUS
<1>1. CASE Next
    <2>1. PasoSerie
        BY <1>1 DEF PasoSerie
    <2> QED
        BY <2>1, LoteAparteSigue, PasoTrxSigue, FilaSanaSigue, FilasEnManoSigue,
           PasoLoginSigue, CorreoSerieSigue, NadaPerdidoSigue
           DEF SInv
<1>2. CASE UNCHANGED vars
    <2> USE <1>2 DEF vars, tablas, cajero, rtbatch, red, SInv
    <2>1. LoteAparte'
        BY DEF LoteAparte
    <2>2. PasoTrx'
        BY DEF PasoTrx, ConReverso, Transaccion, EnLogin, PasoEnvio, PasoLocal, Limpia,
               ConDesenlace, EnPeligro
    <2>3. FilaSana'
        BY DEF FilaSana, HayFila, ConEnvio, FilaLista, FilaSinCerrar, SinCerrar, EnLogin,
               FilaDelOperador, Debida, EnReverso, FilaDelLote
    <2>4. FilasEnMano'
        BY DEF FilasEnMano, EnReverso, Debida, Lote, SinCerrar
    <2>5. PasoLogin'
        BY DEF PasoLogin, ReExamina, HayFila, SinCerrar, EnLogin, Transaccion
    <2>6. CorreoSerie'
        BY DEF CorreoSerie, HayJnl, ConEnvio, Limpia, EnPeligro
    <2>7. NadaPerdido'
        BY DEF NadaPerdido, EnPeligro, EnCurso, Recuperable, SeReexamina, ReExamina,
               EnLogin
    <2> QED
        BY <2>1, <2>2, <2>3, <2>4, <2>5, <2>6, <2>7
<1> QED
    BY <1>1, <1>2

\* When the batch of a branch runs between transactions and does not die, and every
\* fallen transaction can be cancelled off line, the recovery keeps its invariant
\* whatever the line loses and however often the teller's process dies.
THEOREM SerieInvariante ==
    ASSUME EnSerie
    PROVE  Spec => [](IInv /\ RInv /\ SInv)
<1>1. RespTardias = FALSE
    BY DEF EnSerie
<1>2. IInv /\ RInv /\ SInv /\ [Next]_vars => (IInv /\ RInv /\ SInv)'
    BY <1>1, IInvInductivo, RInvInductivo, SInvInductivo
<1>3. Init => IInv /\ RInv /\ SInv
    BY IInvInicial, RInvInicial, SInvInicial
<1> QED
    BY <1>2, <1>3, PTL DEF Spec

\* A transaction the host applied and the totals do not count is being run, or a row
\* asks for its cancellation, or the login that follows the crash makes one.
THEOREM NoSePierdeSiempre ==
    ASSUME EnSerie
    PROVE  Spec => []NoLostInFlight
<1>1. SInv => NoLostInFlight
    BY DEF SInv, NadaPerdido, NoLostInFlight, EnPeligro
<1> QED
    BY <1>1, SerieInvariante, PTL

\* A 98 is always being written or read by the operator, or its process died before
\* giving the row its status back: CDSupd_jnl_caidas of the login after that crash
\* finds every 98, and no batch can reach one (CDSop_marca_cien, CDSupd_ope_caidas).
THEOREM Tomada98Siempre ==
    ASSUME EnSerie
    PROVE  Spec => []Tomada98EnUso
<1>1. IInv /\ SInv => Tomada98EnUso
    <2> SUFFICES ASSUME IInv, SInv, NEW s \in Seq1, cai[s].st = TomadaOperador
                 PROVE  FilaDeOp(s) \/ pc = "fuera"
        BY DEF Tomada98EnUso
    <2>1. HayFila(s) /\ ~EnVuelo(cai[s].st) /\ ~Definitivo(cai[s].st)
        BY NoEnVuelo, EstadosDistintos, EstadosNoVacios DEF HayFila
    <2>2. FilaDelOperador(s)
        BY <2>1, EstadosDistintos
           DEF SInv, FilaSana, FilaLista, FilaSinCerrar, FilaDelLote
    <2> QED
        BY <2>2 DEF FilaDelOperador, FilaDeOp, EnReverso
<1> QED
    BY <1>1, SerieInvariante, PTL

\* Between transactions and batches a row the batch recovers has the status of its
\* journal record, whoever left it there: CDSrec_caidas_batch finds the record.
THEOREM FilaConcuerdaSiempre ==
    ASSUME EnSerie
    PROVE  Spec => []FilaConcuerda
<1>1. IInv /\ SInv => FilaConcuerda
    <2> SUFFICES ASSUME IInv, SInv, pc = "libre", NEW s \in Seq1, EnVuelo(cai[s].st),
                        ~cai[s].solo
                 PROVE  cai[s].st = jnl[s].st
        BY DEF FilaConcuerda
    <2>1. HayFila(s)
        BY NoEnVuelo DEF HayFila
    <2>2. FilaLista(s) \/ FilaSinCerrar(s)
        BY <2>1, NoEnVuelo, EstadosDistintos
           DEF SInv, FilaSana, FilaDelOperador, FilaDelLote
    <2> QED
        BY <2>2 DEF FilaLista, FilaSinCerrar, EnLogin
<1> QED
    BY <1>1, SerieInvariante, PTL

-----------------------------------------------------------------------------
(* What is counted the host has applied, when the teller dies once at most. *)

PasoCuenta == MaxCaidas <= 1 /\ CInv /\ PasoSerie

\* A crash during a login is a second one.
LEMMA SinCaidaEnLogin ==
    ASSUME PasoCuenta, Cae
    PROVE  ~EnLogin
BY DEF PasoCuenta, PasoSerie, IInv, TypeOK, CInv, CuentaFirme, Cae

LEMMA LoginTrasCaida ==
    ASSUME PasoCuenta, EnLogin'
    PROVE  crashes' >= 1
<1> USE DEF PasoCuenta, PasoSerie, IInv, TypeOK
<1>1. CASE EnLogin
    BY <1>1, QuienCuentaCaidas DEF CInv, CuentaFirme, Cae, RtCae
<1>2. CASE Cae
    BY <1>2 DEF Cae
<1>3. CASE ~EnLogin /\ ~Cae
    BY <1>3, QuienMueveSecuencia
       DEF MismaTrx, JNLprelog_tran, MISCjnl_reverso_auto, Cierra, CierraTrx,
           jnl_init_resync, Resincroniza, EnLogin
<1> QED
    BY <1>1, <1>2, <1>3

\* The last sequence of the totals only grows.
LEMMA TotalesCrecen ==
    ASSUME IInv, Next
    PROVE  /\ tots.seq \in Nat /\ tots'.seq \in Nat /\ tots.seq <= tots'.seq
           /\ Cierra => cur <= tots'.seq
           /\ jnl_init_resync => \A s \in Seq1 : HayJnl(s) => s <= tots'.seq
<1> USE DEF IInv, TypeOK, TipoTablas
<1>1. PICK n \in 0 .. MaxSeq : EsUltimo(n) /\ tots.seq <= n /\ (~EnLogin => sequence = n)
    BY DEF JournalAlDia
<1>2. Ultimo = n /\ \A s \in Seq1 : HayJnl(s) => s <= n
    BY <1>1, UltimoUnico DEF EsUltimo, Seq1
<1>3. Cierra => tots'.seq = n /\ cur <= n
    BY <1>1 DEF Cierra, CierraTrx, TrxEnCurso, Transaccion, EnLogin
<1>4. jnl_init_resync => tots'.seq = n
    BY <1>2 DEF jnl_init_resync, Resincroniza
<1>5. tots'.seq \in Nat
    BY TypeOKSigue
<1> QED
    BY <1>1, <1>2, <1>3, <1>4, <1>5, QuienEscribeTots

\* A record that the totals have not passed is MEMO, but for the one a login examines.
LEMMA SinCerrarAunSigue ==
    ASSUME PasoCuenta
    PROVE  SinCerrarAun'
<1> SUFFICES ASSUME NEW s \in Seq1, HayJnl(s)', ~jnl'[s].rev, s > tots'.seq
             PROVE  \/ jnl'[s].st = MEMO
                    \/ EnVuelo(jnl'[s].st) /\ pc' \in {"init", "initjnl"}
    BY DEF SinCerrarAun
<1> USE DEF PasoCuenta, PasoSerie, IInv, RInv, SInv, CInv
<1>1. s > tots.seq /\ tots.seq \in Nat
    BY TotalesCrecen DEF TypeOK, TipoTablas, Seq1
<1>2. ASSUME HayJnl(s), ~jnl[s].rev
      PROVE  jnl[s].st = MEMO \/ (EnVuelo(jnl[s].st) /\ pc \in {"init", "initjnl"})
    BY <1>1, <1>2 DEF SinCerrarAun
<1>3. CASE jnl'[s] = jnl[s]
    <2>1. HayJnl(s) /\ ~jnl[s].rev
        BY <1>3 DEF HayJnl
    <2>2. CASE jnl[s].st = MEMO
        BY <1>3, <2>2
    <2>3. CASE EnVuelo(jnl[s].st) /\ pc \in {"init", "initjnl"}
        <3>1. ~Cae
            BY <2>3, SinCaidaEnLogin DEF EnLogin
        <3>2. ~jnl_init_resync
            BY <2>1, TotalesCrecen DEF TypeOK, TipoTablas, Seq1
        <3>3. pc' \in {"init", "initjnl"}
            BY <2>3, <3>1, <3>2, DesdeLogin
               DEF cajero, jnl_cust_chk_snddwn, ActualizaJournal
        <3> QED
            BY <1>3, <2>3, <3>3
    <2> QED
        BY <1>2, <2>1, <2>2, <2>3
<1>4. CASE ~HayJnl(s) /\ RegistroNuevo(s)
    BY <1>4 DEF RegistroNuevo
<1>5. ~(Cierra /\ s = cur)
    <2>1. Cierra => cur <= tots'.seq /\ tots'.seq \in Nat
        BY TotalesCrecen
    <2> QED
        BY <2>1 DEF Seq1
<1>6. ~(MISCjnl_corregida /\ s = fila)
    <2>1. SUFFICES ASSUME MISCjnl_corregida, s = fila PROVE FALSE
        OBVIOUS
    <2>2. HayFila(s) /\ Debida(s) /\ pc = "revfin"
        BY <2>1 DEF MISCjnl_corregida, FilasTomadas, FilasEnMano, EnReverso
    <2> QED
        BY <1>2, <2>2, DebidaNoMemo DEF FilaConJournal, Reversos
<1>7. ~(MISCjnl_corregida /\ s = rev)
    BY RegistroSigue DEF MISCjnl_corregida, FilasTomadas, Reversos, ConReverso
<1>8. CASE ActualizaJournal /\ s = fila /\ jnl'[s].st = tran_status
    BY <1>8 DEF ActualizaJournal, PasoLogin
<1>9. ~(RtActualiza /\ s = rfila)
    <2>1. SUFFICES ASSUME RtActualiza, s = rfila PROVE FALSE
        OBVIOUS
    <2>2. /\ HayFila(s) /\ EnVuelo(jnl[s].st) /\ pc \in {"libre", "fuera"}
        BY <2>1, EstadosNoVacios
           DEF RtActualiza, FilasTomadas, FilasEnMano, Lote, LoteAparte, HayFila
    <2> QED
        BY <1>2, <2>2, NoEnVuelo DEF FilaConJournal, Reversos
<1> QED
    BY <1>3, <1>4, <1>5, <1>6, <1>7, <1>8, <1>9, JnlEscrito

\* What a login adds to the totals has nothing to send.
LEMMA ResincronizaLocal ==
    ASSUME PasoCuenta, jnl_init_resync, NEW s \in Seq1, tots'.suma[s] # tots.suma[s]
    PROVE  jnl[s].st = MEMO /\ ~jnl[s].viaja
<1> USE DEF PasoCuenta, PasoSerie, IInv, SInv, CInv, TypeOK, TipoTablas
<1>1. /\ s = Ultimo /\ Ultimo > tots.seq /\ ~jnl[Ultimo].rev
      /\ jnl[Ultimo].st < HOST_REJECTED /\ pc = "init" /\ PorExaminar = {}
    BY DEF jnl_init_resync, Resincroniza
<1>2. HayJnl(s)
    <2>1. PICK n \in 0 .. MaxSeq : EsUltimo(n)
        BY DEF JournalAlDia
    <2>2. s = n /\ n # 0
        BY <1>1, <2>1, UltimoUnico DEF Seq1
    <2> QED
        BY <2>1, <2>2 DEF EsUltimo
<1>3. jnl[s].st = MEMO
    <2>1. jnl[s].st = MEMO \/ EnVuelo(jnl[s].st)
        BY <1>1, <1>2 DEF SinCerrarAun
    <2> QED
        BY <1>1, <2>1 DEF EnVuelo, RegJnl, Estado, HOST_REJECTED
<1>4. ~jnl[s].viaja
    <2>1. SUFFICES ASSUME jnl[s].viaja PROVE FALSE
        OBVIOUS
    <2>2. s >= fila /\ ReExamina(s)
        BY <1>1, <1>3, <2>1, EstadosDistintos, SinDesenlace DEF PasoLogin, ReExamina
    <2> QED
        BY <1>1, <2>2 DEF PorExaminar, TipoCajero, Seq1
<1> QED
    BY <1>3, <1>4

\* A transaction is counted by its close, when the host applied it or it is local, or
\* by the login, when it is local.
LEMMA QuienCuenta ==
    ASSUME PasoCuenta, NEW s \in Seq1, tots'.suma[s] # tots.suma[s]
    PROVE  /\ jnl[s].st = MEMO /\ ~HayFila(s)
           /\ jnl[s].viaja => host[s] = "aplicada"
           /\ host' = host /\ net' = net /\ cai' = cai
           /\ HayJnl(s)
<1> USE DEF PasoCuenta, PasoSerie, IInv, RInv, SInv, TypeOK, TipoTablas
<1>1. CASE Cierra
    <2>1. /\ s = cur /\ tran_status < HOST_REJECTED /\ pc = "seguir" /\ Transaccion
          /\ UNCHANGED <<host, net, cai>>
        BY <1>1 DEF Cierra, CierraTrx, Transaccion, EnLogin, red
    <2>2. jnl[s].st = MEMO
        BY <2>1 DEF TrxSinDesenlace
    <2>3. ~HayFila(s)
        BY <2>1 DEF TrxSinDesenlace, EsCaida, TipoCajero, Estado, HOST_REJECTED
    <2>4. jnl[s].viaja => host[s] = "aplicada"
        BY <2>1 DEF PasoTrx, PasoEnvio, EnVuelo, ConDesenlace, TipoCajero, Estado,
                    HOST_REJECTED
    <2> QED
        BY <2>1, <2>2, <2>3, <2>4, EstadosDistintos DEF HayJnl
<1>2. CASE jnl_init_resync
    <2>1. jnl[s].st = MEMO /\ ~jnl[s].viaja
        BY <1>2, ResincronizaLocal
    <2>2. UNCHANGED <<host, net, cai>>
        BY <1>2 DEF jnl_init_resync, Resincroniza, red
    <2>3. ~HayFila(s)
        BY <2>1 DEF FilaSana, ConEnvio
    <2> QED
        BY <2>1, <2>2, <2>3, EstadosDistintos DEF HayJnl
<1> QED
    BY <1>1, <1>2, QuienEscribeTots

\* What is counted gets no row and no cancellation.
LEMMA CuentaFirmeSigue ==
    ASSUME PasoCuenta
    PROVE  CuentaFirme'
<1> USE DEF PasoCuenta, PasoSerie, IInv, RInv, SInv, CInv
<1>1. ASSUME NEW s \in Seq1, s > tots.seq, UNCHANGED tots
      PROVE  tots'.suma[s] = 0
    BY <1>1 DEF CuentaAlDia
<1>2. ASSUME NEW s \in Seq1, HayFila(s)' PROVE tots'.suma[s] = 0
    <2>1. CASE HayFila(s)
        BY <2>1, QuienCuenta DEF CuentaFirme
    <2>2. CASE CDSop_marca_cien /\ s = cur
        <3>1. Transaccion /\ UNCHANGED tots
            BY <2>2 DEF CDSop_marca_cien, Transaccion, EnLogin
        <3>2. s > tots.seq
            BY <2>2, <3>1 DEF TrxEnCurso, TypeOK, TipoTablas, Seq1
        <3> QED
            BY <1>1, <3>1, <3>2
    <2>3. CASE jnl_cust_chk_snddwn(s) /\ ~HayFila(s)
        <3>1. ReExamina(s) /\ UNCHANGED tots
            BY <2>3 DEF jnl_cust_chk_snddwn, PorExaminar
        <3>2. s > tots.seq
            BY <2>3, <3>1 DEF PasoLogin, SinCerrar
        <3> QED
            BY <1>1, <3>1, <3>2
    <2> QED
        BY <1>2, <2>1, <2>2, <2>3, QuienCreaFila
<1>3. ASSUME NEW m \in net', m.tipo = "400" PROVE tots'.suma[m.seq] = 0
    <2>1. CASE m \in net
        <3>1. m.seq \in Seq1 /\ jnl[m.seq].st # MEMO /\ tots.suma[m.seq] = 0
            BY <1>3, <2>1 DEF CorreoSerie, CuentaFirme, TypeOK, TipoRed, Pedido
        <3> QED
            BY <3>1, QuienCuenta
    <2>2. CASE EnviaReverso /\ m = Mensaje("400", fila, "op")
        BY <2>2
           DEF EnviaReverso, FilasTomadas, EnReverso, CuentaFirme, Mensaje, tablas
    <2>3. CASE RtEnvia /\ m = Mensaje("400", rfila, "rt")
        BY <2>3, EstadosNoVacios
           DEF RtEnvia, FilasTomadas, Lote, CuentaFirme, HayFila, Mensaje, tablas
    <2>4. ~(m \in {Mensaje("200", cur, "op")})
        BY <1>3 DEF Mensaje
    <2> QED
        BY <2>1, <2>2, <2>3, <2>4, RedEscrita
<1> QED
    BY <1>2, <1>3, LoginTrasCaida DEF CuentaFirme

\* A new record is past the totals.
LEMMA RegistroSinCuenta ==
    ASSUME PasoCuenta, NEW s \in Seq1, ~HayJnl(s), jnl'[s] # jnl[s]
    PROVE  tots.suma[s] = 0
<1> USE DEF PasoCuenta, PasoSerie, IInv
<1>1. RegistroNuevo(s)
    BY RegistroAparece
<1>2. CASE MISCjnl_reverso_auto /\ s = rev'
    <2>1. s = sequence + 1 /\ ~EnLogin
        BY <1>2 DEF MISCjnl_reverso_auto, EnLogin
    <2>2. s > tots.seq
        BY <2>1 DEF JournalAlDia, TypeOK, TipoTablas
    <2> QED
        BY <2>2 DEF CuentaAlDia
<1>3. CASE \E viaja, solo \in BOOLEAN : (solo => viaja) /\ JNLprelog_tran(viaja, solo)
    <2>1. s > tots'.seq /\ tots' = tots
        BY <1>3, RegistroDePrelog DEF JNLprelog_tran
    <2> QED
        BY <2>1 DEF CuentaAlDia
<1> QED
    BY <1>1, <1>2, <1>3 DEF RegistroNuevo

\* Nor does the host undo what is counted.
LEMMA ContadaAplicadaSigue ==
    ASSUME PasoCuenta
    PROVE  ContadaAplicada'
<1> SUFFICES ASSUME NEW s \in Seq1, tots'.suma[s] > 0, jnl'[s].viaja
             PROVE  host'[s] = "aplicada"
    BY DEF ContadaAplicada
<1> USE DEF PasoCuenta, PasoSerie, IInv, SInv, CInv, TypeOK, TipoTablas
<1>1. CASE tots'.suma[s] # tots.suma[s]
    BY <1>1, QuienCuenta, RegistroSigue
<1>2. CASE tots'.suma[s] = tots.suma[s]
    <2>1. jnl[s].viaja
        <3>1. CASE HayJnl(s)
            BY <3>1, RegistroSigue
        <3>2. CASE ~HayJnl(s)
            BY <1>2, <3>2, RegistroSinCuenta
        <3> QED
            BY <3>1, <3>2
    <2>2. host[s] = "aplicada"
        BY <1>2, <2>1 DEF ContadaAplicada
    <2>3. CASE \E p \in net : net' = net \ {p} /\ (HostAplica(p) \/ HostAnula(p))
        <3>1. PICK p \in net : HostAplica(p) \/ HostAnula(p)
            BY <2>3
        <3>2. p.seq # s
            <4>1. p.tipo = "200" => p.seq # s
                BY <2>2, <3>1, HostAtiende
            <4>2. p.tipo = "400" => p.seq # s
                BY <1>2 DEF CuentaFirme
            <4> QED
                BY <4>1, <4>2 DEF TipoRed, Pedido
        <3> QED
            BY <2>2, <3>1, <3>2, HostAtiende
    <2> QED
        BY <2>2, <2>3, RedEscrita
<1> QED
    BY <1>1, <1>2

LEMMA CInvInicial == Init => CInv
BY DEF Init, NoJnl, NoCai, CInv, SinCerrarAun, CuentaFirme, ContadaAplicada, HayJnl,
       HayFila, EnLogin

LEMMA CInvInductivo ==
    ASSUME EnSerie, MaxCaidas <= 1
    PROVE  IInv /\ RInv /\ SInv /\ CInv /\ [Next]_vars => CInv'
<1> SUFFICES ASSUME IInv, RInv, SInv, CInv, [Next]_vars PROVE CInv'
    OBVIOUS
<1>1. CASE Next
    <2>1. PasoCuenta
        BY <1>1 DEF PasoCuenta, PasoSerie
    <2> QED
        BY <2>1, SinCerrarAunSigue, CuentaFirmeSigue, ContadaAplicadaSigue DEF CInv
<1>2. CASE UNCHANGED vars
    BY <1>2 DEF vars, tablas, cajero, red, CInv, SinCerrarAun, CuentaFirme,
                ContadaAplicada, HayJnl, HayFila, EnLogin
<1> QED
    BY <1>1, <1>2

\* What the totals count the host has applied and not undone: the totals of an
\* operator never count a transaction that was refused or cancelled, whatever the
\* line loses and although jnl_init_resync totals again after the crash.
THEOREM ContadaSiempre ==
    ASSUME EnSerie, MaxCaidas <= 1
    PROVE  Spec => []ContadaAplicada
<1>1. CInv => ContadaAplicada
    BY DEF CInv
<1> QED
    BY <1>1, CInvInicial, CInvInductivo, SerieInvariante, PTL DEF Spec

-----------------------------------------------------------------------------
(* The phases of Desenlace.                                                *)

PasoDesenlace == PasoCuenta /\ DInv

\* The batch that closes a row.
LEMMA DesdeFila ==
    ASSUME Next, EnSerie, rpc = "fila"
    PROVE  UNCHANGED rtbatch \/ RtCierraFila
BY QuienEscribeLote
   DEF RTBatch, RtEmpieza, RtToma, RtAgota, RtEncuentra, RtBorra, RtEnvia, RtRecibe,
       RtSinRespuesta, RtActualiza, RtCaida, RtTermina, RtCae, EnSerie

\* What was corrected has an outcome.
LEMMA CorregidaDefinitiva ==
    ASSUME IInv, RInv, NEW s \in Seq1, HayFila(s), jnl[s].corr # 0
    PROVE  Definitivo(jnl[s].st) /\ HayJnl(s) /\ ~jnl[s].rev
<1>1. ~jnl[s].rev /\ HayJnl(s)
    BY DEF RInv, Reversos, IInv, FilaConJournal
<1>2. Resuelta(jnl[s].st, host[s])
    BY <1>1 DEF RInv, CorregidaSegunHost
<1> QED
    BY <1>1, <1>2, ResueltaUna

\* A row with the mark of one process was taken by it, before or now.
LEMMA TomadaAntes ==
    ASSUME PasoSerie, NEW s \in Seq1
    PROVE  /\ cai'[s].st = TomadaOperador => cai'[s] = cai[s] \/ TomaFila(s)
           /\ cai'[s].st = TomadaBatch => cai'[s] = cai[s] \/ RtToma(s)
<1> USE DEF PasoSerie, IInv, RInv, SInv
<1> DEFINE Marca(e) == e \in {TomadaOperador, TomadaBatch}
<1>1. /\ \A e : EnVuelo(e) \/ EsCaida(e) \/ Definitivo(e) => ~Marca(e)
      /\ TomadaOperador # TomadaBatch /\ ~Marca(SESSION_LOST) /\ ~Marca(SinRegistro)
    BY NoEnVuelo, EstadosDistintos, SiEnVuelo, EstadosNoVacios
       DEF EsCaida, TomadaOperador, TomadaBatch, HOST_REJECTED
<1>2. HayFila(s) /\ Debida(s) => ~Marca(jnl[s].st)
    BY <1>1, DebidaNoMemo
<1>3. ~(CierraFila /\ Marca(tran_status))
    BY <1>1 DEF CierraFila, FilasEnMano
<1>4. ~(CaidaEnReverso /\ s = fila /\ Marca(orig))
    BY <1>2 DEF CaidaEnReverso, FinReversoCaido, FilasEnMano, FilasTomadas, EnReverso
<1>5. ~(/\ TRANlogin \/ RtEmpieza \/ RtTermina
        /\ cai[s].st \in {TomadaOperador, TomadaBatch} /\ Marca(jnl[s].st))
    <2>1. TRANlogin \/ RtEmpieza \/ RtTermina => rpc # "match"
        BY DEF TRANlogin, RtEmpieza, RtTermina, LoteAparte
    <2>2. cai[s].st \in {TomadaOperador, TomadaBatch} => HayFila(s)
        BY EstadosNoVacios DEF HayFila
    <2> QED
        BY <1>2, <2>1, <2>2, FasesDeFila DEF FilaDelOperador, FilaDelLote
<1>6. ~(RtCierraFila /\ s = rfila /\ Marca(rstatus))
    <2>1. RtCierraFila /\ s = rfila => HayFila(s) /\ Debida(s) /\ rstatus = jnl[s].st
        BY EstadosNoVacios DEF RtCierraFila, FilasTomadas, FilasEnMano, Lote, HayFila, Debida
    <2> QED
        BY <1>2, <2>1
<1> QED
    BY <1>1, <1>3, <1>4, <1>5, <1>6, FilaEscrita

\* Every step keeps one row at most with the teller,
LEMMA TomadaUnaSigue ==
    ASSUME PasoSerie, TomadaUna
    PROVE  TomadaUna'
<1> SUFFICES ASSUME NEW s \in Seq1, NEW t \in Seq1, cai'[s].st = TomadaOperador,
                    cai'[t].st = TomadaOperador
             PROVE  s = t
    BY DEF TomadaUna
<1>1. ASSUME NEW u \in Seq1, cai[u].st = TomadaOperador PROVE pc # "rec"
    <2>1. HayFila(u)
        BY <1>1, EstadosNoVacios DEF HayFila
    <2>2. FilaDelOperador(u)
        BY <1>1, <2>1, FasesDeFila DEF PasoSerie
    <2> QED
        BY <2>2 DEF FilaDelOperador, EnReverso
<1>2. \A u \in Seq1 : TomaFila(u) => pc = "rec" /\ fila' = u
    BY DEF TomaFila
<1> QED
    BY <1>1, <1>2, TomadaAntes DEF TomadaUna

\* and none of the batch closed in the journal but the one it is closing.
LEMMA LoteSinCierreSigue ==
    ASSUME PasoSerie, LoteSinCierre
    PROVE  LoteSinCierre'
<1> SUFFICES ASSUME NEW s \in Seq1, cai'[s].st = TomadaBatch, jnl'[s].corr # 0
             PROVE  rpc' = "fila" /\ rfila' = s
    BY DEF LoteSinCierre
<1> USE DEF PasoSerie, IInv, RInv, SInv
<1>1. CASE RtToma(s)
    <2>1. EnVuelo(cai[s].st) /\ ~cai[s].solo /\ jnl' = jnl
        BY <1>1 DEF RtToma, RtPendientes, Pendientes
    <2>2. HayFila(s)
        BY <2>1, NoEnVuelo DEF HayFila
    <2>3. jnl[s].st = cai[s].st \/ jnl[s].st = MEMO
        BY <2>1, <2>2, FasesDeFila DEF FilaLista, FilaSinCerrar, SinCerrar
    <2> QED
        BY <2>1, <2>2, <2>3, CorregidaDefinitiva, EstadosDistintos
<1>2. CASE cai'[s] = cai[s] /\ jnl[s].corr # 0
    <2>1. rpc = "fila" /\ rfila = s
        BY <1>2 DEF LoteSinCierre
    <2>2. ~RtCierraFila
        <3>1. RtCierraFila => cai'[s].st = jnl[s].st
            BY <2>1 DEF RtCierraFila, FilasEnMano, TypeOK, TipoTablas, RegCai
        <3>2. HayFila(s)
            BY <1>2, EstadosNoVacios DEF HayFila
        <3> QED
            BY <1>2, <3>1, <3>2, CorregidaDefinitiva, EstadosDistintos
    <2> QED
        BY <2>1, <2>2, DesdeFila DEF rtbatch
<1>3. CASE cai'[s] = cai[s] /\ jnl[s].corr = 0
    <2>1. HayFila(s) /\ HayJnl(s) /\ ~jnl[s].rev /\ rpc # "duerme"
        BY <1>3, EstadosNoVacios, SinTomadas DEF HayFila, FilaConJournal, Reversos
    <2>2. ~MISCjnl_corregida
        BY <2>1, LoteDuerme DEF MISCjnl_corregida
    <2>3. RtActualiza /\ s = rfila
        BY <1>3, <2>1, <2>2, JnlEscrito
    <2> QED
        BY <2>3 DEF RtActualiza
<1> QED
    BY <1>1, <1>2, <1>3, TomadaAntes

\* The steps that move a transaction from one phase to another, as the programs see
\* them: at most one process moves, and one transaction with it.
Actor(s) ==
    \/ pc = "libre" /\ pc' = "stat_init" /\ s = cur'
    \/ pc = "exit_loop" /\ pc' = "seguir" /\ s = cur
    \/ pc = "seguir" /\ pc' = "libre" /\ s = cur
    \/ pc # "fuera" /\ pc' = "fuera" /\ s = cur
    \/ pc \in {"revrow", "revfin"} /\ pc' \in {"rec", "host_tran"} /\ s = fila
    \/ rpc = "fila" /\ pc' = pc /\ s = rfila
    \/ /\ rpc # "fila" /\ (pc' = pc \/ (pc = "fuera" /\ pc' = "init"))
       /\ cai[s].st = TomadaOperador

LEMMA ActorUnico ==
    ASSUME TomadaUna, NEW s \in Seq1, NEW t \in Seq1, Actor(s), Actor(t)
    PROVE  s = t
BY DEF Actor, TomadaUna

\* A transaction that was sent stays so, and is one since its prelog.
LEMMA EnviadaSigue ==
    ASSUME PasoSerie, NEW s \in Seq1
    PROVE  /\ Enviada(s) <=> HayJnl(s) /\ ConEnvio(s)
           /\ Enviada(s)' <=> HayJnl(s)' /\ ConEnvio(s)'
           /\ Enviada(s) => Enviada(s)'
           /\ ~Enviada(s) /\ Enviada(s)' =>
                 \E viaja, solo \in BOOLEAN : (solo => viaja) /\ JNLprelog_tran(viaja, solo)
           /\ ~Enviada(s) /\ Enviada(s)' => ~HayJnl(s) /\ jnl'[s] # jnl[s]
<1> USE DEF PasoSerie
<1>1. /\ Enviada(s) <=> HayJnl(s) /\ ConEnvio(s)
      /\ Enviada(s)' <=> HayJnl(s)' /\ ConEnvio(s)'
    BY DEF Enviada, HayJnl, ConEnvio
<1>2. HayJnl(s) => (Enviada(s)' <=> Enviada(s))
    BY <1>1, HayJnlSigue, RegistroSigue DEF ConEnvio
<1>3. ASSUME ~HayJnl(s), Enviada(s)'
      PROVE  /\ \E viaja, solo \in BOOLEAN : (solo => viaja) /\ JNLprelog_tran(viaja, solo)
             /\ jnl'[s] # jnl[s]
    <2>1. jnl'[s] # jnl[s]
        BY <1>1, <1>3 DEF HayJnl
    <2>2. ~jnl'[s].rev
        BY <1>1, <1>3 DEF ConEnvio
    <2> QED
        BY <1>3, <2>1, <2>2, RegistroAparece DEF RegistroNuevo
<1> QED
    BY <1>1, <1>2, <1>3

\* A row that nobody owes any more was closed: its record says how it ended.
LEMMA FilaSinDeuda ==
    ASSUME PasoSerie, NEW s \in Seq1, HayFila(s)
    PROVE  /\ Debe(s) => Recuperable(s)
           /\ ~Recuperable(s) => Definitivo(cai[s].st) /\ Definitivo(jnl[s].st)
<1>1. ~Recuperable(s) => Definitivo(cai[s].st) /\ Definitivo(jnl[s].st)
    BY FasesDeFila DEF PasoSerie, RInv, FilaDebida, Recuperable
<1> QED
    BY <1>1 DEF Debe, SeReexamina, ReExamina

\* A transaction that does not owe its cancellation any more was corrected in the
\* journal, and the process that had its row closes it.
LEMMA DebeCierra ==
    ASSUME PasoDesenlace, NEW s \in Seq1, Debe(s), ~Debe(s)'
    PROVE  HayFila(s) /\ jnl[s].corr # 0 /\ Actor(s) /\ host' = host
<1> USE DEF PasoDesenlace, PasoCuenta, PasoSerie, IInv, RInv, SInv
<1>1. HayFila(s)
    <2>1. SUFFICES ASSUME ~HayFila(s) PROVE FALSE
        OBVIOUS
    <2>2. ~Recuperable(s)
        BY <2>1, NoEnVuelo, EstadosNoVacios DEF Recuperable, HayFila
    <2> QED
        BY <2>1, <2>2, SeReexaminaSigue DEF Debe
<1>2. Recuperable(s) /\ ~Recuperable(s)'
    BY <1>1, FilaSinDeuda DEF Debe
<1>3. jnl[s].corr # 0
    BY <1>2, RecuperableSigue DEF Debe
<1>4. Definitivo(jnl[s].st)
    BY <1>1, <1>3, CorregidaDefinitiva
<1>5. ~(cai'[s] = cai[s])
    BY <1>2 DEF Recuperable
<1>6. CASE (CierraFila \/ CaidaEnReverso) /\ s = fila
    BY <1>1, <1>3, <1>6
       DEF CierraFila, CaidaEnReverso, FinReversoCaido, Actor, red
<1>7. CASE /\ TRANlogin \/ RtEmpieza \/ RtTermina
           /\ cai[s].st \in {TomadaOperador, TomadaBatch}
    <2>1. rpc # "fila"
        BY <1>7 DEF TRANlogin, RtEmpieza, RtTermina, LoteAparte
    <2>2. cai[s].st = TomadaOperador
        BY <1>3, <1>7, <2>1 DEF DInv, LoteSinCierre
    <2>3. host' = host
        BY <1>7 DEF TRANlogin, RtEmpieza, RtTermina, red
    <2>4. pc' = pc \/ (pc = "fuera" /\ pc' = "init")
        BY <1>7 DEF TRANlogin, RtEmpieza, RtTermina, cajero
    <2> QED
        BY <1>1, <1>3, <2>1, <2>2, <2>3, <2>4 DEF Actor
<1>8. CASE RtCierraFila /\ s = rfila
    BY <1>1, <1>3, <1>8 DEF RtCierraFila, Actor, cajero, red
<1>9. ~(TomaFila(s) /\ cai'[s].st = TomadaOperador)
    BY <1>2 DEF Recuperable
<1>10. ~(RtToma(s) /\ cai'[s].st = TomadaBatch)
    BY <1>2 DEF Recuperable
<1>11. ~(RtBorra /\ s = rfila)
    BY <1>4, EstadosDistintos DEF RtBorra, FilasEnMano, SinCerrar
<1> QED
    BY <1>1, <1>5, <1>6, <1>7, <1>8, <1>9, <1>10, <1>11, FilaEscrita

\* A transaction comes to owe its cancellation when its row is made, or when the
\* teller dies while it runs.
LEMMA DebeNace ==
    ASSUME PasoDesenlace, NEW s \in Seq1, HayJnl(s), ~Debe(s), Debe(s)'
    PROVE  EnCurso(s) /\ Actor(s) /\ host' = host
<1> USE DEF PasoDesenlace, PasoCuenta, PasoSerie, IInv, RInv, SInv
<1>1. ~Recuperable(s) /\ ~SeReexamina(s)
    BY DEF Debe
<1>2. CASE Recuperable(s)' /\ HayFila(s)
    <2>1. Definitivo(cai[s].st) /\ Definitivo(jnl[s].st)
        BY <1>1, <1>2, FilaSinDeuda
    <2>2. ~EnVuelo(cai[s].st) /\ cai[s].st \notin {TomadaOperador, TomadaBatch}
        BY <1>1 DEF Recuperable
    <2>3. ~EnVuelo(cai'[s].st) => cai'[s].st \in {TomadaOperador, TomadaBatch}
        BY <1>2 DEF Recuperable
    <2>4. ~Definitivo(cai'[s].st) /\ cai'[s].st # SinRegistro
        BY <2>3, EstadosDistintos, EstadosNoVacios, NoEnVuelo
    <2>5. cai'[s] # cai[s]
        BY <2>1, <2>4
    <2>6. ~TomaFila(s) /\ ~RtToma(s)
        BY <2>2 DEF TomaFila, PorRecuperar, RtToma, RtPendientes, Pendientes
    <2>7. ~(CierraFila /\ s = fila /\ cai'[s].st = tran_status)
        BY <2>4 DEF CierraFila, FilasEnMano
    <2>8. ~(CaidaEnReverso /\ s = fila /\ cai'[s].st = orig)
        BY <2>1, <2>4 DEF CaidaEnReverso, FinReversoCaido, FilasEnMano, EnReverso
    <2>9. ~(RtCierraFila /\ s = rfila)
        BY <2>2 DEF RtCierraFila, FilasTomadas, Lote
    <2> QED
        BY <1>2, <2>2, <2>4, <2>5, <2>6, <2>7, <2>8, <2>9, FilaEscrita
<1>3. CASE Recuperable(s)' /\ ~HayFila(s)
    <2>1. HayFila(s)'
        BY <1>3, NoEnVuelo, EstadosNoVacios DEF Recuperable, HayFila
    <2>2. ~jnl_cust_chk_snddwn(s)
        BY <1>1 DEF jnl_cust_chk_snddwn, PorExaminar, SeReexamina, EnLogin, TypeOK,
                    TipoCajero, Seq1
    <2>3. CDSop_marca_cien /\ s = cur
        BY <1>3, <2>1, <2>2, QuienCreaFila
    <2> QED
        BY <2>3 DEF CDSop_marca_cien, EnCurso, EnLogin, Actor, red
<1>4. CASE SeReexamina(s)'
    <2>1. EnLogin' /\ ReExamina(s)'
        BY <1>4 DEF SeReexamina
    <2>2. ReExamina(s)
        BY <2>1, ReExaminaAntes
    <2>3. ~HayFila(s)
        BY <1>1, <2>2, FilaSinDeuda DEF ReExamina
    <2>4. SinCerrar(s) /\ (EnLogin \/ (Transaccion /\ cur = s))
        BY <2>2, <2>3 DEF PasoLogin
    <2>5. ~EnLogin
        <3>1. SUFFICES ASSUME EnLogin PROVE FALSE
            OBVIOUS
        <3>2. CASE pc = "fuera"
            BY <1>1, <2>2, <2>4, <3>2
               DEF SeReexamina, EnLogin, SinCerrar, TypeOK, TipoTablas, Seq1
        <3>3. CASE pc \in {"init", "initjnl"}
            BY <1>1, <2>2, <2>4, <3>3
               DEF SeReexamina, EnLogin, SinCerrar, PasoLogin, ReExamina, TypeOK,
                   TipoCajero, Seq1
        <3> QED
            BY <3>1, <3>2, <3>3 DEF EnLogin
    <2>6. Cae
        BY <2>1, <2>5, QuienMueveSecuencia
           DEF MismaTrx, JNLprelog_tran, MISCjnl_reverso_auto, Cierra, CierraTrx,
               jnl_init_resync, Resincroniza, EnLogin
    <2> QED
        BY <2>4, <2>5, <2>6 DEF Cae, EnCurso, Transaccion, EnLogin, Actor
<1> QED
    BY <1>2, <1>3, <1>4 DEF Debe

\* A transaction that begins has no journal record before.
LEMMA EnCursoNace ==
    ASSUME PasoSerie, NEW s \in Seq1, HayJnl(s), EnCurso(s)'
    PROVE  EnCurso(s)
<1> USE DEF PasoSerie, IInv
<1>1. ~\E viaja, solo \in BOOLEAN : (solo => viaja) /\ JNLprelog_tran(viaja, solo)
    <2>1. SUFFICES ASSUME NEW viaja \in BOOLEAN, NEW solo \in BOOLEAN,
                          JNLprelog_tran(viaja, solo)
                   PROVE  FALSE
        OBVIOUS
    <2>2. pc = "libre" /\ cur' = sequence + 1 /\ sequence \in Nat
        BY <2>1 DEF JNLprelog_tran, TypeOK, TipoCajero
    <2>3. s = sequence + 1
        BY <2>2 DEF EnCurso
    <2> QED
        BY <2>2, <2>3 DEF JournalAlDia, EsUltimo, EnLogin
<1> QED
    BY <1>1, QuienMueveSecuencia
       DEF MismaTrx, MISCjnl_reverso_auto, Cierra, CierraTrx, jnl_init_resync, Resincroniza,
           Cae, EnCurso, EnLogin

\* The moves of Desenlace, for one transaction.
Mueve(s) ==
    \/ FaseDe(s) = "nueva" /\ FaseDe(s)' = "abierta"
    \/ FaseDe(s) = "abierta" /\ FaseDe(s)' = "debe"
    \/ FaseDe(s) = "abierta" /\ host[s] = "aplicada" /\ FaseDe(s)' = "contada"
    \/ FaseDe(s) \in {"abierta", "debe"} /\ host[s] # "aplicada" /\ FaseDe(s)' = "cerrada"

\* From its prelog,
LEMMA DesdeNueva ==
    ASSUME PasoDesenlace, NEW s \in Seq1, ~Enviada(s)
    PROVE  FaseDe(s)' = FaseDe(s) \/ (Mueve(s) /\ Actor(s) /\ host' = host)
<1> USE DEF PasoDesenlace, PasoCuenta, PasoSerie, IInv
<1>1. CASE ~Enviada(s)'
    BY <1>1 DEF FaseDe
<1>2. CASE Enviada(s)'
    <2>1. PICK viaja \in BOOLEAN, solo \in BOOLEAN : JNLprelog_tran(viaja, solo)
        BY <1>2, EnviadaSigue
    <2>2. pc = "libre" /\ UNCHANGED <<cai, tots, host>>
        BY <2>1 DEF JNLprelog_tran, red
    <2>3. s = cur' /\ Transaccion' /\ pc' = "stat_init" /\ ~HayJnl(s)
        BY <1>2, EnviadaSigue, RegistroDePrelog
    <2>4. tots'.suma[s] = 0
        BY <1>2, <2>2, EnviadaSigue, RegistroSinCuenta
    <2>5. ~Recuperable(s)'
        BY <2>2, <2>3, NoEnVuelo, EstadosNoVacios DEF Recuperable, FilaConJournal, HayFila
    <2>6. ~SeReexamina(s)' /\ EnCurso(s)'
        BY <2>3 DEF SeReexamina, EnCurso, Transaccion, EnLogin
    <2>7. FaseDe(s) = "nueva" /\ FaseDe(s)' = "abierta"
        BY <1>2, <2>4, <2>5, <2>6 DEF FaseDe, Debe
    <2> QED
        BY <2>2, <2>3, <2>7 DEF Mueve, Actor
<1> QED
    BY <1>1, <1>2

\* from the debt of its cancellation,
LEMMA DesdeDebe ==
    ASSUME PasoDesenlace, NEW s \in Seq1, Enviada(s), tots.suma[s] = 0, Debe(s)
    PROVE  FaseDe(s)' = FaseDe(s) \/ (Mueve(s) /\ Actor(s) /\ host' = host)
<1> USE DEF PasoDesenlace, PasoCuenta, PasoSerie, IInv, RInv, SInv
<1>1. Enviada(s)' /\ FaseDe(s) = "debe" /\ jnl[s].viaja /\ HayJnl(s)
    BY EnviadaSigue DEF FaseDe, Enviada, HayJnl
<1>2. tots'.suma[s] = 0
    <2>1. SUFFICES ASSUME tots'.suma[s] # tots.suma[s] PROVE FALSE
        OBVIOUS
    <2>2. ~HayFila(s) /\ ~Recuperable(s)
        BY <2>1, QuienCuenta, NoEnVuelo, EstadosNoVacios DEF Recuperable, HayFila
    <2>3. EnLogin
        BY <2>2 DEF Debe, SeReexamina
    <2>4. jnl_init_resync
        BY <2>1, <2>3, QuienEscribeTots DEF Cierra, CierraTrx, EnLogin
    <2> QED
        BY <1>1, <2>1, <2>4, ResincronizaLocal
<1>3. CASE Debe(s)'
    BY <1>1, <1>2, <1>3 DEF FaseDe
<1>4. CASE ~Debe(s)'
    <2>1. HayFila(s) /\ jnl[s].corr # 0 /\ Actor(s) /\ host' = host
        BY <1>4, DebeCierra
    <2>2. host[s] # "aplicada"
        BY <2>1, CorregidaSinPeligro DEF EnPeligro
    <2>3. ~EnCurso(s)'
        <3>1. EnCurso(s)' => EnCurso(s)
            BY <1>1, EnCursoNace
        <3>2. EnCurso(s) => jnl[s].corr = 0
            BY DEF EnCurso, TrxSinDesenlace, Transaccion
        <3> QED
            BY <2>1, <3>1, <3>2
    <2>4. FaseDe(s)' = "cerrada"
        BY <1>1, <1>2, <1>4, <2>3 DEF FaseDe
    <2> QED
        BY <1>1, <2>1, <2>2, <2>4 DEF Mueve
<1> QED
    BY <1>3, <1>4

\* while it runs,
LEMMA DesdeAbierta ==
    ASSUME PasoDesenlace, NEW s \in Seq1, Enviada(s), tots.suma[s] = 0, ~Debe(s), EnCurso(s)
    PROVE  FaseDe(s)' = FaseDe(s) \/ (Mueve(s) /\ Actor(s) /\ host' = host)
<1> USE DEF PasoDesenlace, PasoCuenta, PasoSerie, IInv, RInv, SInv
<1>1. Enviada(s)' /\ FaseDe(s) = "abierta" /\ jnl[s].viaja /\ HayJnl(s)
    BY EnviadaSigue DEF FaseDe, Enviada, HayJnl
<1>2. Transaccion /\ cur = s
    BY DEF EnCurso, Transaccion
<1>3. Cierra => Actor(s) /\ host' = host
    BY <1>2 DEF Cierra, CierraTrx, Actor, red
<1>4. CASE tots'.suma[s] # tots.suma[s]
    <2>1. host[s] = "aplicada"
        BY <1>1, <1>4, QuienCuenta
    <2>2. Cierra
        BY <1>2, <1>4, QuienEscribeTots
           DEF jnl_init_resync, Resincroniza, Transaccion, EnLogin
    <2>3. tots'.suma[s] > 0
        <3>1. tots'.suma[s] \in Nat
            BY TypeOKSigue DEF TypeOK, TipoTablas
        <3> QED
            BY <1>4, <3>1
    <2>4. FaseDe(s)' = "contada"
        BY <1>1, <2>3 DEF FaseDe
    <2> QED
        BY <1>1, <1>3, <2>1, <2>2, <2>4 DEF Mueve
<1>5. CASE tots'.suma[s] = 0 /\ Debe(s)'
    <2>1. FaseDe(s)' = "debe"
        BY <1>1, <1>5 DEF FaseDe
    <2> QED
        BY <1>1, <1>5, <2>1, DebeNace DEF Mueve
<1>6. CASE tots'.suma[s] = 0 /\ ~Debe(s)' /\ EnCurso(s)'
    BY <1>1, <1>6 DEF FaseDe
<1>7. CASE tots'.suma[s] = 0 /\ ~Debe(s)' /\ ~EnCurso(s)'
    <2>1. host[s] # "aplicada"
        BY <1>7, EnCursoSigue DEF EnPeligro, Debe
    <2>2. ~Cae
        <3>1. SUFFICES ASSUME Cae PROVE FALSE
            OBVIOUS
        <3>2. pc' = "fuera" /\ UNCHANGED <<jnl, tots>>
            BY <3>1 DEF Cae, tablas
        <3>3. SinCerrar(s)
            BY <1>2 DEF TrxSinDesenlace, TrxEnCurso, SinCerrar, TypeOK, TipoTablas, Seq1
        <3> QED
            BY <1>1, <1>7, <3>2, <3>3, SeReexaminara DEF SinCerrar, EnLogin, Debe
    <2>3. Cierra
        BY <1>2, <1>7, <2>2, TrxContinua DEF EnCurso, Transaccion
    <2>4. FaseDe(s)' = "cerrada"
        BY <1>1, <1>7 DEF FaseDe
    <2> QED
        BY <1>1, <1>3, <2>1, <2>3, <2>4 DEF Mueve
<1> QED
    BY <1>4, <1>5, <1>6, <1>7

\* and at its end, which is for good.
LEMMA DesdeElFinal ==
    ASSUME PasoDesenlace, NEW s \in Seq1, Enviada(s),
           tots.suma[s] > 0 \/ (~Debe(s) /\ ~EnCurso(s))
    PROVE  FaseDe(s)' = FaseDe(s)
<1> USE DEF PasoDesenlace, PasoCuenta, PasoSerie, IInv, RInv, SInv
<1>1. Enviada(s)' /\ jnl[s].viaja /\ HayJnl(s)
    BY EnviadaSigue DEF Enviada, HayJnl
<1>2. tots.suma[s] \in Nat /\ tots'.suma[s] \in Nat /\ tots.suma[s] <= tots'.suma[s]
    BY SumaCrece, TypeOKSigue DEF TypeOK, TipoTablas
<1>3. CASE tots.suma[s] > 0
    BY <1>1, <1>2, <1>3 DEF FaseDe
<1>4. CASE tots.suma[s] = 0 /\ ~Debe(s) /\ ~EnCurso(s)
    <2>1. host[s] # "aplicada"
        BY <1>4 DEF NadaPerdido, EnPeligro, Debe
    <2>2. tots'.suma[s] = 0
        BY <1>1, <1>4, <2>1, QuienCuenta
    <2>3. ~Debe(s)' /\ ~EnCurso(s)'
        BY <1>1, <1>4, DebeNace, EnCursoNace
    <2> QED
        BY <1>1, <1>4, <2>2, <2>3 DEF FaseDe
<1> QED
    BY <1>2, <1>3, <1>4

LEMMA FaseSigue ==
    ASSUME PasoDesenlace, NEW s \in Seq1
    PROVE  FaseDe(s)' = FaseDe(s) \/ (Mueve(s) /\ Actor(s) /\ host' = host)
<1>1. tots.suma[s] = 0 \/ tots.suma[s] > 0
    BY DEF PasoDesenlace, PasoCuenta, PasoSerie, IInv, TypeOK, TipoTablas
<1> QED
    BY <1>1, DesdeNueva, DesdeDebe, DesdeAbierta, DesdeElFinal

\* What the host does to a transaction the branch still runs, or owes the cancellation
\* of: nothing else of the branch moves.
LEMMA HostMueve ==
    ASSUME PasoDesenlace, NEW p \in net, HostAplica(p) \/ HostAnula(p),
           NEW s \in Seq1, (host'[s] = "aplicada") # (host[s] = "aplicada")
    PROVE  /\ s = p.seq
           /\ FaseDe(s) = "debe" \/ (FaseDe(s) = "abierta" /\ host[s] # "aplicada")
<1> USE DEF PasoDesenlace, PasoCuenta, PasoSerie, IInv, RInv, SInv, CInv, TypeOK,
            TipoTablas, TipoRed, Pedido
<1>1. s = p.seq
    BY HostAtiende
<1>2. CASE p.tipo = "200"
    <2>1. host[s] = "nada" /\ Mensaje("200", s, "op") \in net
        BY <1>1, <1>2, HostAtiende
    <2>2. EnPeligro(s)
        BY <2>1 DEF EnPeligro
    <2>3. Enviada(s) /\ jnl[s].viaja
        BY <2>2, PeligroConRegistro, EnviadaSigue DEF ConEnvio
    <2>4. tots.suma[s] = 0
        BY <2>1, <2>3 DEF ContadaAplicada
    <2>5. EnCurso(s) \/ Debe(s)
        BY <2>2, <2>4 DEF NadaPerdido, Debe
    <2> QED
        BY <1>1, <2>1, <2>3, <2>4, <2>5 DEF FaseDe
<1>3. CASE p.tipo = "400"
    <2>1. host[s] = "aplicada"
        BY <1>1, <1>3, HostAtiende
    <2>2. tots.suma[s] = 0 /\ jnl[s].st # MEMO
        BY <1>1, <1>3 DEF CuentaFirme, CorreoSerie
    <2>3. EnPeligro(s)
        BY <2>1 DEF EnPeligro
    <2>4. ~EnCurso(s)
        BY <2>2 DEF EnCurso, Transaccion, TrxSinDesenlace
    <2>5. Debe(s)
        BY <2>2, <2>3, <2>4 DEF NadaPerdido, Debe
    <2> QED
        BY <1>1, <2>2, <2>3, <2>5, PeligroConRegistro, EnviadaSigue DEF FaseDe
<1> QED
    BY <1>2, <1>3

LEMMA FaseQuieta ==
    ASSUME UNCHANGED <<tablas, cajero>>, NEW s \in Seq1
    PROVE  FaseDe(s)' = FaseDe(s)
BY DEF tablas, cajero, FaseDe, Enviada, Debe, Recuperable, SeReexamina, ReExamina, EnCurso,
       EnLogin

\* Every step is one of Desenlace, or none.
LEMMA RefinaPaso ==
    ASSUME PasoDesenlace
    PROVE  D!Next \/ UNCHANGED D!dvars
<1> USE DEF PasoDesenlace, PasoCuenta, PasoSerie
<1>1. CASE \E s \in Seq1 : FaseDe(s)' # FaseDe(s)
    <2>1. PICK s \in Seq1 : FaseDe(s)' # FaseDe(s)
        BY <1>1
    <2>2. Mueve(s) /\ Actor(s) /\ host' = host
        BY <2>1, FaseSigue
    <2>3. \A t \in Seq1 : t # s => FaseDe(t)' = FaseDe(t)
        BY <2>2, FaseSigue, ActorUnico DEF DInv
    <2>4. D!Cambia(s)
        BY <2>1 DEF D!Cambia
    <2>5. ASSUME NEW f, FaseDe(s)' = f PROVE D!Pasa(s, f)
        BY <2>2, <2>3, <2>5 DEF D!Pasa
    <2>6. D!Abre(s) \/ D!Cae(s) \/ D!Cuenta(s) \/ D!Cierra(s)
        BY <2>2, <2>5 DEF Mueve, D!Abre, D!Cae, D!Cuenta, D!Cierra
    <2> QED
        BY <2>4, <2>6 DEF D!Next
<1>2. CASE /\ \A s \in Seq1 : FaseDe(s)' = FaseDe(s)
           /\ \E s \in Seq1 : (host'[s] = "aplicada") # (host[s] = "aplicada")
    <2>1. PICK s \in Seq1 : (host'[s] = "aplicada") # (host[s] = "aplicada")
        BY <1>2
    <2>2. PICK p \in net : HostAplica(p) \/ HostAnula(p)
        BY <2>1, RedEscrita
    <2>3. /\ s = p.seq
          /\ FaseDe(s) = "debe" \/ (FaseDe(s) = "abierta" /\ host[s] # "aplicada")
        BY <2>1, <2>2, HostMueve
    <2>4. \A t \in Seq1 : t # s => host'[t] = host[t]
        BY <2>2, <2>3, HostAtiende
    <2>5. D!Cambia(s)
        BY <2>1 DEF D!Cambia
    <2>6. [t \in Seq1 |-> FaseDe(t)]' = [t \in Seq1 |-> FaseDe(t)]
        BY <1>2
    <2>7. [t \in Seq1 |-> host[t] = "aplicada"]'
            = [[t \in Seq1 |-> host[t] = "aplicada"] EXCEPT ![s] = host'[s] = "aplicada"]
        BY <2>4
    <2>8. D!Aplica(s) \/ D!Anula(s)
        BY <2>1, <2>3, <2>6, <2>7 DEF D!Aplica, D!Anula
    <2> QED
        BY <2>5, <2>8 DEF D!Next
<1>3. CASE /\ \A s \in Seq1 : FaseDe(s)' = FaseDe(s)
           /\ \A s \in Seq1 : (host'[s] = "aplicada") = (host[s] = "aplicada")
    BY <1>3 DEF D!dvars
<1> QED
    BY <1>1, <1>2, <1>3

LEMMA DInvInicial == Init => DInv
BY EstadosNoVacios DEF Init, NoCai, DInv, TomadaUna, LoteSinCierre

LEMMA RefinaInicial == Init => D!Init
<1> SUFFICES ASSUME Init PROVE D!Init
    OBVIOUS
<1>1. \A s \in Seq1 : FaseDe(s) = "nueva"
    BY DEF Init, NoJnl, FaseDe, Enviada
<1> QED
    BY <1>1 DEF Init, D!Init

\* Every step of the teller, the batch, the host and the line is a step of Desenlace or
\* none: a transaction the branch sends ends counted, and then the host keeps it; or
\* closed, and then the host has nothing of it and nobody takes it up again.
THEOREM DesenlaceSiempre ==
    ASSUME EnSerie, MaxCaidas <= 1
    PROVE  Spec => ImplementaDesenlace
<1>1. IInv /\ RInv /\ SInv /\ CInv /\ DInv /\ [Next]_vars => DInv'
    <2> SUFFICES ASSUME IInv, RInv, SInv, CInv, DInv, [Next]_vars PROVE DInv'
        OBVIOUS
    <2>1. CASE Next
        BY <2>1, TomadaUnaSigue, LoteSinCierreSigue DEF PasoSerie, DInv
    <2>2. CASE UNCHANGED vars
        BY <2>2 DEF vars, tablas, rtbatch, DInv, TomadaUna, LoteSinCierre
    <2> QED
        BY <2>1, <2>2
<1>2. IInv /\ RInv /\ SInv /\ CInv /\ DInv /\ [Next]_vars => [D!Next]_(D!dvars)
    <2> SUFFICES ASSUME IInv, RInv, SInv, CInv, DInv, [Next]_vars
                 PROVE  [D!Next]_(D!dvars)
        OBVIOUS
    <2>1. CASE Next
        BY <2>1, RefinaPaso DEF PasoDesenlace, PasoCuenta, PasoSerie
    <2>2. CASE UNCHANGED vars
        <3>1. \A s \in Seq1 : FaseDe(s)' = FaseDe(s)
            BY <2>2, FaseQuieta DEF vars
        <3>2. host' = host
            BY <2>2 DEF vars, red
        <3> QED
            BY <3>1, <3>2 DEF D!dvars
    <2> QED
        BY <2>1, <2>2
<1> QED
    BY <1>1, <1>2, DInvInicial, RefinaInicial, CInvInicial, CInvInductivo,
       SerieInvariante, PTL DEF Spec, ImplementaDesenlace, D!Spec

=============================================================================
