-------------------------- MODULE CaidasDesenlace --------------------------
(***************************************************************************)
(* CaidasEnVuelo implements Desenlace: the phase of a transaction is read   *)
(* off the journal, jnl_caidas, the totals and the process that runs it.    *)
(***************************************************************************)
EXTENDS CaidasEnVuelo

Enviada(s) == jnl[s].st # SinRegistro /\ jnl[s].viaja /\ ~jnl[s].rev
Debe(s) == Recuperable(s) \/ SeReexamina(s)

FaseDe(s) ==
    IF ~Enviada(s) THEN "nueva"
    ELSE IF tots.suma[s] > 0 THEN "contada"
    ELSE IF Debe(s) THEN "debe"
    ELSE IF EnCurso(s) THEN "abierta" ELSE "cerrada"

D == INSTANCE Desenlace WITH
        Trx <- Seq1,
        fase <- [s \in Seq1 |-> FaseDe(s)],
        aplicada <- [s \in Seq1 |-> host[s] = "aplicada"]

\* Every step of the teller, the batch, the host and the line is a step of
\* Desenlace or none: no transaction is counted and undone, closed while the host
\* keeps it, or taken up again once it is closed.
ImplementaDesenlace == D!Spec
=============================================================================
