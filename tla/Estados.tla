------------------------------ MODULE Estados ------------------------------
(***************************************************************************)
(* The transaction states shared by the teller, the journal and the table  *)
(* of in-flight falls (jnl_caidas).  The program compares them as numbers  *)
(* ("tran_status > HOST_REJECTED"), so they are numbers here.              *)
(***************************************************************************)
EXTENDS Naturals

SinRegistro == 0           \* no record in the table (not a code of the program)

UNPOSTED           == 1
MEMO               == 2    \* journaled, not (yet) answered by the host
HOST_ACCEPTED      == 3
TomadaOperador     == 98   \* the operator is recovering this fall
TomadaBatch        == 99   \* the RT batch is recovering this fall
HOST_REJECTED      == 100
SEND_ERROR         == 101
SEND_RESET         == 102
RCV_RESET          == 103
LiberadaPorEspera  == 104  \* an abandoned 99, freed by the operator
HOST_RCV_DOWN      == 105
SESSION_LOST       == 106
HOST_COMMSRVR_DOWN == 108
RECH_REV_AUTO      == 111

Estado == 0 .. RECH_REV_AUTO

\* The filter of every recovery: the journal does not know the outcome.
EnVuelo(st) == HOST_REJECTED < st /\ st < RECH_REV_AUTO

\* What jnl_cust_chk_snddwn calls a definitive state.
Definitivo(st) == st \in {HOST_ACCEPTED, HOST_REJECTED}
=============================================================================
