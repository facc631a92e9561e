----------------------------- MODULE Desenlace -----------------------------
(***************************************************************************)
(* What the branch promises about a transaction it sends to the host,      *)
(* whatever is lost on the way: it ends counted, and then the host keeps    *)
(* it applied; or closed, and then the host has nothing of it.  In between  *)
(* it may owe a cancellation; only then can the host undo it.               *)
(***************************************************************************)
CONSTANT Trx
VARIABLES fase, aplicada

dvars == <<fase, aplicada>>

Init == fase = [s \in Trx |-> "nueva"] /\ aplicada = [s \in Trx |-> FALSE]

Pasa(s, f) == fase' = [fase EXCEPT ![s] = f] /\ UNCHANGED aplicada

Abre(s) == fase[s] = "nueva" /\ Pasa(s, "abierta")

\* The answer did not come, or the process died: a cancellation is owed.
Cae(s) == fase[s] = "abierta" /\ Pasa(s, "debe")

Cuenta(s) == fase[s] = "abierta" /\ aplicada[s] /\ Pasa(s, "contada")

Cierra(s) == fase[s] \in {"abierta", "debe"} /\ ~aplicada[s] /\ Pasa(s, "cerrada")

\* The host: a request may arrive late, even when its cancellation is owed.
Aplica(s) ==
    /\ fase[s] \in {"abierta", "debe"} /\ ~aplicada[s]
    /\ aplicada' = [aplicada EXCEPT ![s] = TRUE] /\ UNCHANGED fase

Anula(s) ==
    /\ fase[s] = "debe" /\ aplicada[s]
    /\ aplicada' = [aplicada EXCEPT ![s] = FALSE] /\ UNCHANGED fase

\* One transaction moves at a time.
Cambia(s) == fase'[s] # fase[s] \/ aplicada'[s] # aplicada[s]

Next == \E s \in Trx :
            /\ Cambia(s)
            /\ Abre(s) \/ Cae(s) \/ Cuenta(s) \/ Cierra(s) \/ Aplica(s) \/ Anula(s)

Spec == Init /\ [][Next]_dvars
=============================================================================
