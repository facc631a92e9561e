--------------------------- MODULE TotalesJournal ---------------------------
(* The totals of an operator against its journal.  Every accepted           *)
(* transaction adds to the buckets of the totals record by its list         *)
(* (csr:total_list); a correction subtracts, a reentry that the host        *)
(* rejects takes back what was added, and at any time the operator may      *)
(* rebuild the totals of the day from the journal (siaf:SVAL_rtot_dia).     *)
(* The rebuild skips a corrected transaction and its correction by the      *)
(* number each holds of the other; the original gets it after the close,    *)
(* in a unit of work of its own (siaf:MISCmarca_corregida).                 *)
EXTENDS Estados, Integers, Sequences, FiniteSetsExt

CONSTANTS
    Importes,        \* amounts of a transaction
    MaxReg,          \* journal records of the operator
    MaxCaidas        \* crashes of the station

ASSUME TotalesAssumption == Importes \subseteq Nat /\ MaxReg \in Nat /\ MaxCaidas \in Nat

VARIABLES
    jnl,        \* journal of the operator's day, by jnl_sequence
    tots,       \* buckets of the totals record (the station holds the same)
    porMarcar,  \* original whose correction closed and is not marked, or 0
    linea,      \* hcomm:state_flags, on_line
    caidas

vars == <<jnl, tots, porMarcar, linea, caidas>>

\* venta: a sale with its list; inicial: initial cash (8800);
\* sesion: end of session (99023); nc: one that ends as a credit note.
Tipos == {"venta", "inicial", "sesion", "nc"}

Indices == DOMAIN jnl

\* corr is jnl_sequence_corr: 0 when the field is empty.
Registro ==
    [tipo : Tipos, imp : Importes \cup {0}, st : Estado, rev : BOOLEAN, corr : 0 .. MaxReg]

\* Buckets: sales, cash, initial cash, cash control of the sessions.
Baldes == {"vta", "efe", "ini", "gral"}
TotsVacios == [b \in Baldes |-> 0]          \* MISCcustom_clear

Init ==
    /\ jnl = <<>> /\ tots = TotsVacios /\ porMarcar = 0 /\ caidas = 0
    /\ linea = TRUE

-----------------------------------------------------------------------------
(* Lists of totals and csr:total_list.                                     *)

\* MEMBER source "sign" bucket modifier.  The list of 8800 takes from the
\* bucket what the bucket holds and adds the new amount.
Miembro(fuente, signo, balde) == [fuente |-> fuente, signo |-> signo, balde |-> balde]

Lista(tipo) ==
    CASE tipo = "venta"   -> <<Miembro("importe", "+", "vta"), Miembro("importe", "-", "efe")>>
      [] tipo = "inicial" -> <<Miembro("balde", "-", "ini"), Miembro("importe", "+", "ini")>>
      [] tipo = "sesion"  -> <<Miembro("importe", "+", "gral")>>
      [] tipo = "nc"      -> <<Miembro("importe", "-", "gral")>>

\* 8800 asks for an amount; MODstandard for an accepted transaction, or for a
\* rejected one when it is a reentry.  r.st stands for hcomm:tran_status.
Modificador(r, reentry) ==
    IF r.tipo = "inicial" THEN r.imp # 0 ELSE reentry <=> r.st >= HOST_REJECTED

Suma(b, m, r, rev) ==
    LET fuente == IF m.fuente = "balde" THEN b[m.balde] ELSE r.imp
        sumar  == IF rev THEN m.signo = "-" ELSE m.signo = "+"
    IN  [b EXCEPT ![m.balde] = IF sumar THEN @ + fuente ELSE @ - fuente]

\* The members in their order, each on what the ones before it left.
Sumas(t, lista, r, rev, reentry) ==
    LET b[n \in 0 .. Len(lista)] ==
          IF n = 0 THEN t
          ELSE IF Modificador(r, reentry) THEN Suma(b[n - 1], lista[n], r, rev)
          ELSE b[n - 1]
    IN  b

total_list(t, lista, r, rev, reentry) == Sumas(t, lista, r, rev, reentry)[Len(lista)]

\* A plausible fault: the general list is always that of the end of session.
SiempreSuma(t, r, rev, reentry) ==
    total_list(t, Lista(IF r.tipo = "nc" THEN "sesion" ELSE r.tipo), r, rev, reentry)

TOTScommit(t, r, rev, reentry) == total_list(t, Lista(r.tipo), r, rev, reentry)

-----------------------------------------------------------------------------
(* The rebuild of the day.                                                 *)

\* A plausible fault: the rejected transactions are read too.
ConRechazadas == {i \in Indices : jnl[i].corr < 1}

PorReconstruir == {i \in Indices : jnl[i].st < HOST_REJECTED /\ jnl[i].corr < 1}

\* 99023 is rebuilt with the list of the end of session, credit note or not.
ListaReconstruida(tipo) == Lista(IF tipo = "nc" THEN "sesion" ELSE tipo)

\* tran_status is cleared before the reading.
Relee(t, i) ==
    total_list(t, ListaReconstruida(jnl[i].tipo), [jnl[i] EXCEPT !.st = 0], jnl[i].rev, FALSE)

\* What the records up to each one give.
Releidos ==
    LET b[n \in 0 .. Len(jnl)] ==
          IF n = 0 THEN TotsVacios
          ELSE IF n \in PorReconstruir THEN Relee(b[n - 1], n) ELSE b[n - 1]
    IN  b

Reconstruccion == Releidos[Len(jnl)]

SVAL_rtot_dia ==
    /\ porMarcar = 0
    /\ tots' = Reconstruccion
    /\ UNCHANGED <<jnl, porMarcar, linea, caidas>>

-----------------------------------------------------------------------------
(* Transactions.                                                           *)

\* The states in which the close journals a transaction: the answer of the
\* host, or UNPOSTED without it.
Respuestas == IF linea THEN {HOST_ACCEPTED, HOST_REJECTED} ELSE {UNPOSTED}

\* JNLupdate_commit totalises, JNLupdate_backout (rejected) does not.
Asienta(r) ==
    /\ Len(jnl) < MaxReg
    /\ jnl' = Append(jnl, r)
    /\ tots' = IF r.st < HOST_REJECTED THEN TOTScommit(tots, r, r.rev, FALSE) ELSE tots

Hace ==
    /\ porMarcar = 0
    /\ \E imp \in Importes, st \in Respuestas :
          Asienta([tipo |-> "venta", imp |-> imp, st |-> st, rev |-> FALSE, corr |-> 0])
    /\ UNCHANGED <<porMarcar, linea, caidas>>

\* Transactions that do not go to the host.
HaceLocal ==
    /\ porMarcar = 0
    /\ \E tipo \in {"inicial", "sesion", "nc"},
          imp \in Importes \cup {0} :
          /\ imp = 0 => tipo = "inicial"
          /\ Asienta([tipo |-> tipo, imp |-> imp, st |-> HOST_ACCEPTED, rev |-> FALSE, corr |-> 0])
    /\ UNCHANGED <<porMarcar, linea, caidas>>

\* A plausible fault: a transaction already corrected is corrected again.
AunqueCorregida(i) ==
    ~jnl[i].rev /\ ~(jnl[i].st = UNPOSTED /\ linea) /\ jnl[i].st < HOST_REJECTED

\* What the operator may correct, from the scan of its journal.
Reversible(i) ==
    /\ ~jnl[i].rev
    /\ jnl[i].corr = 0
    /\ ~(jnl[i].st = UNPOSTED /\ linea)
    /\ jnl[i].st < HOST_REJECTED

KEYScorrection(i) ==
    /\ porMarcar = 0
    /\ jnl[i].tipo \in {"venta", "sesion"}    \* tiene_reverso
    /\ Reversible(i)
    /\ \E st \in Respuestas :
          /\ Asienta([jnl[i] EXCEPT !.st = st, !.rev = TRUE, !.corr = i])
          /\ porMarcar' = IF st < HOST_REJECTED THEN i ELSE 0
    /\ UNCHANGED <<linea, caidas>>

\* The close goes on: the original takes the number of its correction.
\* A plausible fault: the record before the correction takes it.
MarcaLaAnterior(i) == [jnl EXCEPT ![Len(jnl) - 1].corr = Len(jnl)]
Marcada(i) == [jnl EXCEPT ![i].corr = Len(jnl)]

MISCmarca_corregida ==
    /\ porMarcar # 0
    /\ jnl' = Marcada(porMarcar)
    /\ porMarcar' = 0
    /\ UNCHANGED <<tots, linea, caidas>>

-----------------------------------------------------------------------------
(* Reentry of what was done without the host, in the order of the journal. *)

Pendientes == {i \in Indices : jnl[i].st = UNPOSTED}

JNLreentry_upd ==
    /\ porMarcar = 0 /\ linea /\ Pendientes # {}
    /\ \E st \in {HOST_ACCEPTED, HOST_REJECTED} :
          LET i == Min(Pendientes)
              r == [jnl[i] EXCEPT !.st = st]
          IN  /\ jnl' = [jnl EXCEPT ![i] = r]
              /\ tots' = IF st >= HOST_REJECTED
                         THEN TOTScommit(tots, r, ~r.rev, TRUE) ELSE tots
    /\ UNCHANGED <<porMarcar, linea, caidas>>

\* JNLreentry_sel_all: the supervisor's station updates the journal only.
ReentraSupervisor ==
    /\ Pendientes # {}
    /\ \E st \in {HOST_ACCEPTED, HOST_REJECTED} :
          jnl' = [jnl EXCEPT ![Min(Pendientes)].st = st]
    /\ UNCHANGED <<tots, porMarcar, linea, caidas>>

CambiaLinea ==
    /\ porMarcar = 0
    /\ linea' = ~linea
    /\ UNCHANGED <<jnl, tots, porMarcar, caidas>>

\* The station restarts: TOTSinitialize reads the buckets of the record; the
\* mark that was to follow the close is not made.
Cae ==
    /\ caidas < MaxCaidas
    /\ caidas' = caidas + 1
    /\ porMarcar' = 0
    /\ UNCHANGED <<jnl, tots, linea>>

Next ==
    \/ Hace \/ HaceLocal \/ (\E i \in Indices : KEYScorrection(i)) \/ MISCmarca_corregida
    \/ SVAL_rtot_dia \/ JNLreentry_upd \/ ReentraSupervisor \/ CambiaLinea \/ Cae

Spec == Init /\ [][Next]_vars

-----------------------------------------------------------------------------
(* Properties.                                                             *)

\* Journal, totals and pending mark are of their types; only the initial cash
\* cannot be negative, and the pending mark is that of the last record.
TypeOK ==
    /\ jnl \in Seq(Registro) /\ Len(jnl) <= MaxReg
    /\ tots \in [Baldes -> Int] /\ tots["ini"] >= 0
    /\ porMarcar \in 0 .. Len(jnl) /\ (porMarcar # 0 => jnl[Len(jnl)].corr = porMarcar)
    /\ linea \in BOOLEAN /\ caidas \in 0 .. MaxCaidas

\* The accepted corrections of a transaction (a pending one counts).
Reversas(i) == {j \in Indices : jnl[j].rev /\ jnl[j].corr = i /\ jnl[j].st < HOST_REJECTED}

\* The transactions that stand: accepted, and not corrected.
Valen(tipo) ==
    {i \in Indices : /\ jnl[i].tipo = tipo /\ ~jnl[i].rev
                     /\ jnl[i].st < HOST_REJECTED /\ Reversas(i) = {}}

\* The sums of the first 0, 1, ... N elements of w.
Parciales(w, N) ==
    LET s[n \in 0 .. N] == IF n = 0 THEN 0 ELSE s[n - 1] + w[n] IN s

Importe(S) == Parciales([i \in Indices |-> IF i \in S THEN jnl[i].imp ELSE 0], Len(jnl))[Len(jnl)]

Iniciales == {i \in Valen("inicial") : jnl[i].imp # 0}

\* What the totals of the day should be.
Contado ==
    [b \in Baldes |->
        CASE b = "vta"  -> Importe(Valen("venta"))
          [] b = "efe"  -> -Importe(Valen("venta"))
          [] b = "ini"  -> IF Iniciales = {} THEN 0 ELSE jnl[Max(Iniciales)].imp
          [] b = "gral" -> Importe(Valen("sesion")) - Importe(Valen("nc"))]

\* Corrections made without the host that wait for the reentry.
ReversaPendiente == \E j \in Pendientes : jnl[j].rev

\* Every step moves each bucket by what it changes of the transactions that stand:
\* over corrections, work without the host and rejections at the reentry, what a
\* TOTScommit added another one takes back, and nothing twice.  Left out are the
\* rebuild (ReconstruccionExacta), the reentry of a supervisor, which leaves the
\* totals alone, what follows a crash, which can repeat a correction, and the
\* reentry of a transaction and its correction, which the host may answer apart.
CadaPaso ==
    [][\/ SVAL_rtot_dia \/ ReentraSupervisor \/ caidas > 0 \/ ReversaPendiente
       \/ \A b \in Baldes : tots'[b] - tots[b] = Contado'[b] - Contado[b]]_vars

\* A correction made without the host and rejected at the reentry: the number
\* of the correction stays in its original (JNLreentry_upd:88).
ReversaRechazada(i) == \E j \in Indices : jnl[j].rev /\ jnl[j].corr = i /\ jnl[j].st >= HOST_REJECTED

\* "RECONSTRUCCION DE TOTALES DEL DIA": the rebuild from the journal gives the
\* totals of the transactions that stand, whoever sent them.  A credit note is an
\* exception (SVAL_rtot_dia:57 adds it to the cash control, TOTScommit:35 subtracts
\* it), and so is the number a rejected correction leaves.
ReconstruccionExacta ==
    porMarcar = 0 /\ caidas = 0 /\ ~(\E i \in Indices : ReversaRechazada(i)) =>
        \A b \in Baldes \ (IF Valen("nc") = {} THEN {} ELSE {"gral"}) :
            Reconstruccion[b] = Contado[b]

\* A transaction is corrected once ("Transaccion Ya Reversada"); only a crash
\* between a close and its mark lets it be corrected again.
UnaReversa == \A i \in Indices : Cardinality(Reversas(i)) <= 1 + caidas

\* A transaction with the number of a correction has one that stands, or the
\* reentry rejected it: the operator is not told "Transaccion Ya Reversada" of one
\* nobody corrected.
MarcaCierta ==
    \A i \in Indices : ~jnl[i].rev /\ jnl[i].corr # 0 =>
        Reversas(i) # {} \/ ReversaRechazada(i)

\* Without crashes the number is in every corrected transaction too, but for
\* the one whose mark is pending.
MarcaFiel ==
    caidas = 0 => \A i \in Indices \ {porMarcar} :
                      ~jnl[i].rev /\ Reversas(i) # {} => jnl[i].corr # 0

\* A correction repeats an earlier transaction, and the reentry, which takes the
\* records in their order, does not answer it before the one it corrects.
ReversaDeAnterior ==
    \A j \in Indices : jnl[j].rev =>
        /\ jnl[j].corr \in 1 .. j - 1 /\ ~jnl[jnl[j].corr].rev
        /\ jnl[j].tipo = jnl[jnl[j].corr].tipo /\ jnl[j].imp = jnl[jnl[j].corr].imp
        /\ jnl[jnl[j].corr].st = UNPOSTED => jnl[j].st = UNPOSTED

\* What does not go to the host is accepted, and of it only the end of a session
\* is corrected.
LocalAceptada ==
    \A i \in Indices :
        /\ jnl[i].tipo # "venta" /\ ~jnl[i].rev => jnl[i].st = HOST_ACCEPTED
        /\ jnl[i].tipo \in {"inicial", "nc"} => ~jnl[i].rev /\ jnl[i].corr = 0

\* The mark that is to follow the close is that of a transaction, and its
\* correction is the last record.
MarcaPendiente ==
    porMarcar # 0 => ~jnl[porMarcar].rev /\ jnl[Len(jnl)].rev

\* What may be corrected still has a crash to its credit for every correction.
Corregible ==
    \A i \in Indices : jnl[i].corr = 0 /\ i # porMarcar => Cardinality(Reversas(i)) <= caidas

\* The list of 8800 replaces what its bucket holds, so that the bucket is right
\* after crashes and in the middle of a correction too.
InicialAlDia == tots["ini"] = Contado["ini"]

\* The number in a transaction is there when, and only when, a correction is, the
\* supervisor's station, the reentry and the close of the correction taken together.
MarcasInv ==
    /\ TypeOK /\ MarcaCierta /\ MarcaFiel /\ ReversaDeAnterior /\ LocalAceptada
    /\ MarcaPendiente /\ Corregible /\ InicialAlDia
=============================================================================
