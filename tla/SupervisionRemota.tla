------------------------- MODULE SupervisionRemota -------------------------
(***************************************************************************)
(* Remote supervision.  A teller whose transaction needs it chooses a      *)
(* supervisor signed on at another workstation, sends an override request  *)
(* (REM_OVR_REQ) and waits for the decision; the supervisor's station      *)
(* keeps the requests in a list, shows an indicator while there are any,   *)
(* and answers them from a menu.  The teller can give the wait up (reset   *)
(* key or time-out) and then sends a cancel.  Messages carry the operator  *)
(* and the workstation and no number of request, and the event script of   *)
(* a station runs whenever a message arrives, between any two calls of the *)
(* program it interrupts: each action below is the code between two places *)
(* where it can.                                                           *)
(***************************************************************************)
EXTENDS Naturals, SequencesExt

CONSTANTS
    Cajeros,        \* tellers that ask
    Supervisores,   \* operators with supervisor authority
    Ciclo,          \* values of the 16 bits of seq_num: 65536
    MaxPedidos,     \* bound: requests of all tellers
    MaxCanal,       \* bound: messages on their way when a supervisor opens a request
    MaxFallos,      \* bound: messages the communications server cannot take
    Retiros         \* TRUE: a teller may give a request up

ASSUME CajerosAssumption == Cajeros # {}
ASSUME SupervisoresAssumption == Supervisores # {}
ASSUME CicloAssumption == Ciclo \in Nat /\ Ciclo > 1
ASSUME PedidosAssumption == MaxPedidos \in Nat
ASSUME CanalAssumption == MaxCanal \in Nat
ASSUME FallosAssumption == MaxFallos \in Nat
ASSUME RetirosAssumption == Retiros \in BOOLEAN

VARIABLES
    \* a teller: place, supervisor chosen (op:adt_operator_id), its last request
    pc, adt, n,
    \* its event flags and the fields an event overwrites
    primary, ovr_acknowledge, ovr_response, ro_resp, host_srv_resp,
    \* a supervisor's station: list of requests, next number, flag, indicator
    lista, item_count, ovr_request, stat_ovr_pending,
    \* the menu of the supervisor
    spc, ro_seq_num, ro_ovr_count, vista,
    \* messages from a teller to a supervisor and back, in order
    ida, vuelta,
    \* history: requests made, granted, and grants the tellers used; tellers that
    \* gave a request up; failures
    hechos, concedidos, cobrados, retiros, fallos

cajero == <<pc, adt, n>>
eventos == <<primary, ovr_acknowledge, ovr_response, ro_resp, host_srv_resp>>
estacion == <<lista, item_count, ovr_request, stat_ovr_pending>>
menu == <<spc, ro_seq_num, ro_ovr_count, vista>>
canales == <<ida, vuelta>>
historia == <<hechos, concedidos, cobrados, retiros, fallos>>
vars == <<cajero, eventos, estacion, menu, canales, historia>>

Numero == 0 .. MaxPedidos
SeqNum == 0 .. Ciclo - 1
Decision == {"grant", "no"}      \* "no": ro_deny or ro_hold, both return 1
SrvResp == {"ok", "MOA_ERR"}

Nadie == [hay |-> FALSE, oper |-> CHOOSE c \in Cajeros : TRUE, ped |-> 0]
Vista == [hay : BOOLEAN, oper : Cajeros, ped : Numero]
OVR_REQ == [seq_num : SeqNum, oper : Cajeros, ped : Numero]
MsgIda == [tipo : {"REQ", "CANCEL"}, ped : Numero]
MsgVuelta == [tipo : {"MOA_RSP", "ACKN", "RESP", "ERROR"},
              resp : Decision \cup {"nada"}]

Msg(t) == [tipo |-> t, resp |-> "nada"]

-----------------------------------------------------------------------------
Init ==
    /\ pc = [c \in Cajeros |-> "libre"]
    /\ adt = [c \in Cajeros |-> CHOOSE s \in Supervisores : TRUE]
    /\ n = [c \in Cajeros |-> 0]
    /\ primary = [c \in Cajeros |-> FALSE]
    /\ ovr_acknowledge = [c \in Cajeros |-> FALSE]
    /\ ovr_response = [c \in Cajeros |-> FALSE]
    /\ ro_resp = [c \in Cajeros |-> "nada"]
    /\ host_srv_resp = [c \in Cajeros |-> "ok"]
    /\ lista = [s \in Supervisores |-> <<>>]
    /\ item_count = [s \in Supervisores |-> 1]
    /\ ovr_request = [s \in Supervisores |-> FALSE]
    /\ stat_ovr_pending = [s \in Supervisores |-> FALSE]
    /\ spc = [s \in Supervisores |-> "menu"]
    /\ ro_seq_num = [s \in Supervisores |-> 0]
    /\ ro_ovr_count = [s \in Supervisores |-> 0]
    /\ vista = [s \in Supervisores |-> Nadie]
    /\ ida = [c \in Cajeros |-> [s \in Supervisores |-> <<>>]]
    /\ vuelta = [c \in Cajeros |-> [s \in Supervisores |-> <<>>]]
    /\ hechos = 0 /\ concedidos = {} /\ cobrados = {} /\ retiros = {} /\ fallos = 0

-----------------------------------------------------------------------------
(* The teller: OVRro_ovr_proc and the routines it calls.                   *)

\* The flags an answer sets are reset before the request leaves.
ReiniciaEventos(c) ==
    /\ primary' = [primary EXCEPT ![c] = FALSE]
    /\ ovr_acknowledge' = [ovr_acknowledge EXCEPT ![c] = FALSE]
    /\ ovr_response' = [ovr_response EXCEPT ![c] = FALSE]

\* The teller chooses a supervisor signed on, types a message and sends.
SRQ_ro_send_req(c, s) ==
    /\ pc[c] = "libre" /\ hechos < MaxPedidos
    /\ adt' = [adt EXCEPT ![c] = s]
    /\ hechos' = hechos + 1
    /\ n' = [n EXCEPT ![c] = hechos + 1]
    /\ ReiniciaEventos(c)
    /\ host_srv_resp' = [host_srv_resp EXCEPT ![c] = "ok"]
    /\ ro_resp' = [ro_resp EXCEPT ![c] = "nada"]
    /\ \/ /\ ida' = [ida EXCEPT ![c][s] =
                        Append(@, [tipo |-> "REQ", ped |-> hechos + 1])]
          /\ pc' = [pc EXCEPT ![c] = "espera"]
          /\ UNCHANGED fallos
       \/ /\ fallos < MaxFallos /\ fallos' = fallos + 1
          /\ UNCHANGED <<pc, ida>>
    /\ UNCHANGED <<estacion, menu, vuelta, concedidos, cobrados, retiros>>

\* SRQ_wait_for_resp returns 0 or 1, and the loop looks at the flags.
Rechazado(c) == host_srv_resp[c] = "MOA_ERR"
Acusado(c) == ~Rechazado(c) /\ ovr_acknowledge[c]
Contestado(c) == ~Rechazado(c) /\ ~ovr_acknowledge[c] /\ ovr_response[c]

\* Mutant: any answer is taken for a grant.
ConcedeTodo(c) == Contestado(c)

Concede(c) == Contestado(c) /\ ro_resp[c] = "grant"

Despierta(c) ==
    /\ pc[c] = "espera" /\ primary[c]
    /\ primary' = [primary EXCEPT ![c] = FALSE]
    /\ ovr_acknowledge' = [ovr_acknowledge EXCEPT ![c] = @ /\ ~Acusado(c)]
    /\ ovr_response' = [ovr_response EXCEPT ![c] = @ /\ ~Contestado(c)]
    /\ pc' = [pc EXCEPT ![c] =
                 IF Rechazado(c) \/ Contestado(c) THEN "libre" ELSE @]
    /\ cobrados' = IF Concede(c) THEN cobrados \cup {<<c, n[c], adt[c]>>}
                   ELSE cobrados
    /\ UNCHANGED <<adt, n, ro_resp, host_srv_resp, estacion, menu, canales,
                   hechos, concedidos, retiros, fallos>>

\* Mutant: the time is only looked at after an event.
AgotaConEvento(c) == Retiros /\ pc[c] = "espera" /\ primary[c]

\* It returns 2 or 3, reset key or time-out, when no event was marked,
Agota(c) == Retiros /\ pc[c] = "espera" /\ ~primary[c]

\* and a cancel leaves.
Vence(c) ==
    /\ Agota(c)
    /\ pc' = [pc EXCEPT ![c] = "libre"]
    /\ host_srv_resp' = [host_srv_resp EXCEPT ![c] = "ok"]
    /\ retiros' = retiros \cup {c}
    /\ \/ /\ ida' = [ida EXCEPT ![c][adt[c]] =
                        Append(@, [tipo |-> "CANCEL", ped |-> n[c]])]
          /\ UNCHANGED fallos
       \/ /\ fallos < MaxFallos /\ fallos' = fallos + 1
          /\ UNCHANGED ida
    /\ UNCHANGED <<adt, n, primary, ovr_acknowledge, ovr_response,
                   ro_resp, estacion, menu, vuelta, hechos, concedidos, cobrados>>

-----------------------------------------------------------------------------
(* SRQ_service_moa at the station of a teller.                             *)

\* The fields an answer sets matter from the request on: between two requests
\* nobody reads them, and the next one resets them all before it leaves.
EventoCajero(c, s) ==
    LET m == Head(vuelta[c][s])
        espera == pc[c] = "espera"
    IN /\ vuelta[c][s] # <<>>
       /\ vuelta' = [vuelta EXCEPT ![c][s] = Tail(@)]
       /\ primary' = [primary EXCEPT ![c] = espera]
       /\ IF espera
          THEN /\ host_srv_resp' = [host_srv_resp EXCEPT ![c] =
                                       IF m.tipo = "ERROR" THEN "MOA_ERR"
                                       ELSE IF m.tipo = "MOA_RSP" THEN "ok" ELSE @]
               /\ ovr_acknowledge' = [ovr_acknowledge EXCEPT ![c] = @ \/ m.tipo = "ACKN"]
               /\ ovr_response' = [ovr_response EXCEPT ![c] = @ \/ m.tipo = "RESP"]
               /\ ro_resp' = [ro_resp EXCEPT ![c] = IF m.tipo = "RESP" THEN m.resp ELSE @]
          ELSE UNCHANGED <<host_srv_resp, ovr_acknowledge, ovr_response, ro_resp>>
       /\ UNCHANGED <<cajero, estacion, menu, ida, historia>>

-----------------------------------------------------------------------------
(* The station of a supervisor: removr.c and SRQ_service_moa.              *)

\* seq_num := item_count++, with 0 skipped when the counter wraps.
Asigna(s) == IF item_count[s] = 0 THEN 1 ELSE item_count[s]
Siguiente(s) == (Asigna(s) + 1) % Ciclo

\* REM_OVR_REQ: insert, flag, indicator, and MOA_RSP to the sender.
RecibePedido(s, c, m) ==
    /\ m.tipo = "REQ"
    /\ lista' = [lista EXCEPT ![s] =
                    Append(@, [seq_num |-> Asigna(s), oper |-> c, ped |-> m.ped])]
    /\ item_count' = [item_count EXCEPT ![s] = Siguiente(s)]
    /\ ovr_request' = [ovr_request EXCEPT ![s] = TRUE]
    /\ stat_ovr_pending' = [stat_ovr_pending EXCEPT ![s] = TRUE]
    /\ vuelta' = [vuelta EXCEPT ![c][s] = Append(@, Msg("MOA_RSP"))]

\* REM_OVR_CANCEL: delete by operator; the indicator goes with the last one.
RecibeCancel(s, c, m) ==
    LET DelCajero(e) == e.oper = c
        resto == RemoveFirstMatch(lista[s], DelCajero)
        hallado == resto # lista[s]
    IN /\ m.tipo = "CANCEL"
       /\ lista' = [lista EXCEPT ![s] = resto]
       /\ ovr_request' = [ovr_request EXCEPT ![s] = @ /\ ~hallado]
       /\ stat_ovr_pending' = [stat_ovr_pending EXCEPT
                                  ![s] = @ /\ ~(hallado /\ resto = <<>>)]
       /\ UNCHANGED <<item_count, vuelta>>

EventoSupervisor(s, c) ==
    /\ ida[c][s] # <<>>
    /\ ida' = [ida EXCEPT ![c][s] = Tail(@)]
    /\ RecibePedido(s, c, Head(ida[c][s])) \/ RecibeCancel(s, c, Head(ida[c][s]))
    /\ UNCHANGED <<cajero, eventos, menu, historia>>

-----------------------------------------------------------------------------
(* The menu of the supervisor.                                             *)

\* The fields of the screen, from an element of the list; and ACKN to its owner.
Muestra(s, i) ==
    LET e == lista[s][i]
    IN /\ Len(vuelta[e.oper][s]) < MaxCanal
       /\ vista' = [vista EXCEPT ![s] = [hay |-> TRUE, oper |-> e.oper, ped |-> e.ped]]
       /\ ro_seq_num' = [ro_seq_num EXCEPT ![s] = e.seq_num]
       /\ vuelta' = [vuelta EXCEPT ![e.oper][s] = Append(@, Msg("ACKN"))]
       /\ spc' = [spc EXCEPT ![s] = "pantalla"]

\* After the menu nobody reads the fields of the screen before they are written:
\* they are cleared.
SaleDelMenu(s) ==
    /\ spc' = [spc EXCEPT ![s] = "menu"]
    /\ vista' = [vista EXCEPT ![s] = Nadie]
    /\ ro_ovr_count' = [ro_ovr_count EXCEPT ![s] = 0]
    /\ ro_seq_num' = [ro_seq_num EXCEPT ![s] = 0]

\* PDISoverride: clear the fields, count.
PDISoverride(s) ==
    /\ spc[s] = "menu" /\ lista[s] # <<>>
    /\ vista' = [vista EXCEPT ![s] = Nadie]
    /\ ro_ovr_count' = [ro_ovr_count EXCEPT ![s] = Len(lista[s])]
    /\ spc' = [spc EXCEPT ![s] = IF Len(lista[s]) = 1 THEN "unico" ELSE "elige"]
    /\ UNCHANGED <<cajero, eventos, estacion, ro_seq_num, canales, historia>>

\* ... and with one request get the first; if it is gone the picklist follows.
PDISoverride_unico(s) ==
    /\ spc[s] = "unico"
    /\ IF lista[s] = <<>>
       THEN /\ spc' = [spc EXCEPT ![s] = "elige"]
            /\ ro_seq_num' = [ro_seq_num EXCEPT ![s] = 0]
            /\ UNCHANGED <<vista, vuelta>>
       ELSE Muestra(s, 1)
    /\ UNCHANGED <<cajero, eventos, estacion, ro_ovr_count, ida, historia>>

\* saovreq_pldisp: nothing to show, nothing chosen, or a number of the list.
PCOLoverride(s) ==
    /\ spc[s] = "elige"
    /\ \/ SaleDelMenu(s)
       \/ \E i \in 1 .. Len(lista[s]) :
             /\ ro_seq_num' = [ro_seq_num EXCEPT ![s] = lista[s][i].seq_num]
             /\ spc' = [spc EXCEPT ![s] = IF ro_ovr_count[s] = 1 THEN "pantalla"
                                          ELSE "trae"]
             /\ UNCHANGED <<ro_ovr_count, vista>>
    /\ UNCHANGED <<cajero, eventos, estacion, canales, historia>>

\* saovreq_get after the picklist: the request may have gone meanwhile.
PCOLoverride_trae(s) ==
    LET Elegido(e) == e.seq_num = ro_seq_num[s]
        i == SelectInSeq(lista[s], Elegido)
    IN /\ spc[s] = "trae"
       /\ IF i = 0
          THEN SaleDelMenu(s) /\ UNCHANGED vuelta
          ELSE Muestra(s, i) /\ UNCHANGED ro_ovr_count
       /\ UNCHANGED <<cajero, eventos, estacion, ida, historia>>

\* Escape from the screen: the request stays in the list.
ESCoverride(s) ==
    /\ spc[s] = "pantalla"
    /\ \/ ro_ovr_count[s] = 1 /\ SaleDelMenu(s)
       \/ /\ ro_ovr_count[s] # 1
          /\ spc' = [spc EXCEPT ![s] = "elige"]
          /\ UNCHANGED <<ro_seq_num, ro_ovr_count, vista>>
    /\ UNCHANGED <<cajero, eventos, estacion, canales, historia>>

\* PBgrant_request, PBdeny_request, PBhold_request: the answer is sent first.
PBrequest(s, d) ==
    LET v == vista[s]
    IN /\ spc[s] = "pantalla"
       /\ spc' = [spc EXCEPT ![s] = "borra"]
       /\ IF v.hay
          THEN /\ vuelta' = [vuelta EXCEPT ![v.oper][s] =
                                Append(@, [tipo |-> "RESP", resp |-> d])]
               /\ concedidos' = IF d = "grant"
                                THEN concedidos \cup {<<v.oper, v.ped, s>>}
                                ELSE concedidos
          ELSE UNCHANGED <<vuelta, concedidos>>
       /\ UNCHANGED <<cajero, eventos, estacion, ro_seq_num, ro_ovr_count, vista,
                      ida, hechos, cobrados, retiros, fallos>>

\* Mutants: the first one is deleted, the first one of the operator is.
BorraLaPrimera(s) == IF lista[s] = <<>> THEN <<>> ELSE Tail(lista[s])
BorraDelCajero(s) ==
    LET Suyo(e) == e.oper = vista[s].oper IN RemoveFirstMatch(lista[s], Suyo)

\* saovreq_delete with one argument, the number.
saovreq_delete(s) ==
    LET Tratado(e) == e.seq_num = ro_seq_num[s] IN RemoveFirstMatch(lista[s], Tratado)

\* Mutant: the flag is left as it is.
SinReinicio(s) == UNCHANGED ovr_request

ReiniciaPedido(s) == ovr_request' = [ovr_request EXCEPT ![s] = FALSE]

\* OVRro_pic_or_exit: delete by number and reset the flag,
OVRro_pic_or_exit(s) ==
    /\ spc[s] = "borra"
    /\ lista' = [lista EXCEPT ![s] = saovreq_delete(s)]
    /\ ReiniciaPedido(s)
    /\ spc' = [spc EXCEPT ![s] = "recuenta"]
    /\ UNCHANGED <<cajero, eventos, item_count, stat_ovr_pending, ro_seq_num,
                   ro_ovr_count, vista, canales, historia>>

\* count: back to the picklist, or clear the indicator and leave,
OVRro_pic_or_exit_cuenta(s) ==
    /\ spc[s] = "recuenta"
    /\ spc' = [spc EXCEPT ![s] = IF lista[s] # <<>> /\ ro_ovr_count[s] # 1
                                 THEN "elige" ELSE "limpia"]
    /\ UNCHANGED <<cajero, eventos, estacion, ro_seq_num, ro_ovr_count, vista,
                   canales, historia>>

\* and OVRro_clr_ovr_pend, unless a request arrived since the reset.
OVRro_clr_ovr_pend(s) ==
    /\ spc[s] = "limpia"
    /\ stat_ovr_pending' = [stat_ovr_pending EXCEPT ![s] = @ /\ ovr_request[s]]
    /\ SaleDelMenu(s)
    /\ UNCHANGED <<cajero, eventos, lista, item_count, ovr_request, canales, historia>>

-----------------------------------------------------------------------------
(* External: the communications server of the branch.                      *)

\* A message for a station that is not there comes back as an error verb.
NoEntrega(c, s) ==
    /\ fallos < MaxFallos /\ fallos' = fallos + 1
    /\ ida[c][s] # <<>>
    /\ ida' = [ida EXCEPT ![c][s] = Tail(@)]
    /\ vuelta' = [vuelta EXCEPT ![c][s] = Append(@, Msg("ERROR"))]
    /\ UNCHANGED <<cajero, eventos, estacion, menu, hechos, concedidos, cobrados,
                   retiros>>

\* An answer nobody can take is lost; the supervisor's station ignores the error.
PierdeRespuesta(c, s) ==
    /\ fallos < MaxFallos /\ fallos' = fallos + 1
    /\ vuelta[c][s] # <<>>
    /\ vuelta' = [vuelta EXCEPT ![c][s] = Tail(@)]
    /\ UNCHANGED <<cajero, eventos, estacion, menu, ida, hechos, concedidos, cobrados,
                   retiros>>

-----------------------------------------------------------------------------
PasoCajero(c) ==
    \/ \E s \in Supervisores : SRQ_ro_send_req(c, s)
    \/ Despierta(c)
    \/ Vence(c)

PasoMenu(s) ==
    \/ PDISoverride(s)
    \/ PDISoverride_unico(s)
    \/ PCOLoverride(s)
    \/ PCOLoverride_trae(s)
    \/ ESCoverride(s)
    \/ \E d \in Decision : PBrequest(s, d)
    \/ OVRro_pic_or_exit(s)
    \/ OVRro_pic_or_exit_cuenta(s)
    \/ OVRro_clr_ovr_pend(s)

PasoMensaje(c, s) ==
    \/ EventoCajero(c, s)
    \/ EventoSupervisor(s, c)
    \/ NoEntrega(c, s)
    \/ PierdeRespuesta(c, s)

Next ==
    \/ \E c \in Cajeros : PasoCajero(c)
    \/ \E s \in Supervisores : PasoMenu(s)
    \/ \E c \in Cajeros, s \in Supervisores : PasoMensaje(c, s)

Spec == Init /\ [][Next]_vars

\* The teller's routine runs on, and its wait has a time-out (OVR_WAIT_TIME).
Fairness == \A c \in Cajeros :
    WF_vars(Despierta(c) \/ Vence(c))

FairSpec == Spec /\ Fairness

-----------------------------------------------------------------------------
TypeOK ==
    /\ pc \in [Cajeros -> {"libre", "espera"}]
    /\ adt \in [Cajeros -> Supervisores]
    /\ n \in [Cajeros -> Numero]
    /\ primary \in [Cajeros -> BOOLEAN]
    /\ ovr_acknowledge \in [Cajeros -> BOOLEAN]
    /\ ovr_response \in [Cajeros -> BOOLEAN]
    /\ ro_resp \in [Cajeros -> Decision \cup {"nada"}]
    /\ host_srv_resp \in [Cajeros -> SrvResp]
    /\ lista \in [Supervisores -> Seq(OVR_REQ)]
    /\ item_count \in [Supervisores -> SeqNum]
    /\ ovr_request \in [Supervisores -> BOOLEAN]
    /\ stat_ovr_pending \in [Supervisores -> BOOLEAN]
    /\ spc \in [Supervisores -> {"menu", "unico", "elige", "trae", "pantalla",
                                 "borra", "recuenta", "limpia"}]
    /\ ro_seq_num \in [Supervisores -> SeqNum]
    /\ ro_ovr_count \in [Supervisores -> Nat]
    /\ vista \in [Supervisores -> Vista]
    /\ ida \in [Cajeros -> [Supervisores -> Seq(MsgIda)]]
    /\ vuelta \in [Cajeros -> [Supervisores -> Seq(MsgVuelta)]]
    /\ hechos \in Numero
    /\ concedidos \subseteq Cajeros \X Numero \X Supervisores
    /\ cobrados \subseteq Cajeros \X Numero \X Supervisores
    /\ retiros \subseteq Cajeros
    /\ fallos \in 0 .. MaxFallos

\* Every grant a teller uses was given by the supervisor it names as the one who
\* authorized, and for that request (OVRro_ovr_proc:115 writes adt_operator_id,
\* which jnl_header stores as jnl_supervisor), as long as the teller waits for its
\* answers: after a request given up, a late grant is taken by the next request.
ConcedePedido == \A p \in cobrados : p[1] \notin retiros => p \in concedidos

\* A teller never uses more grants than the supervisors gave it: no answer is
\* taken twice, although answers carry no number and the flags of one request
\* are those of the next.
UnaPorConcesion ==
    \A c \in Cajeros : Cardinality({p \in cobrados : p[1] = c})
                         <= Cardinality({p \in concedidos : p[1] = c})

\* The indicator of a station is never left on with nothing to answer, except
\* while the supervisor's routine is about to clear it: the event script and the
\* menu both clear it, and each may run between two calls of the other.
IndicadorConPendientes ==
    \A s \in Supervisores :
        stat_ovr_pending[s] => lista[s] # <<>> \/ spc[s] \in {"recuenta", "limpia"}

\* The counts of what was given and used, the indicator and the types of the two
\* stations hold together, over late answers and lost messages.
SupervisionInv == TypeOK /\ UnaPorConcesion /\ IndicadorConPendientes

\* "Now assign unique sequence number for override request" (removr.c:164): no two
\* requests of a list have the same number.  The code bumps a counter of 16 bits and
\* never looks at the list: a request nobody answers is still there when the counter
\* comes round, and an answer deletes by number (saovreq_delete).
NumeroUnico ==
    \A s \in Supervisores : \A i, j \in DOMAIN lista[s] :
        lista[s][i].seq_num = lista[s][j].seq_num => i = j

\* What a supervisor's answer takes off the list is the request the screen showed
\* and not another one of the same teller or with the same number, whatever was
\* cancelled or arrived while the answer was typed.
BorraLoDecidido ==
    [][\A s \in Supervisores :
         (spc[s] = "borra" /\ spc'[s] = "recuenta" /\ vista[s].hay) =>
             \A e \in Range(lista[s]) \ Range(lista'[s]) :
                 e.oper = vista[s].oper /\ e.ped = vista[s].ped]_vars

\* A teller that waits has something to wait for: a message on its way, a request
\* in a list, a flag that wakes it up, or an answer already there (one that came in
\* the same wait as the acknowledge is only seen when the time is over).  Claimed
\* while the server delivers what it takes and nobody gave a request up: when one goes while
\* the menu fetches it, the supervisor gets a blank screen (OVR/OVR.OFB/PCOLoverride)
\* whose answer deletes, unanswered, the request picked next.
NadieEsperaEnVano ==
    \A c \in Cajeros : pc[c] = "espera" /\ retiros = {} /\ fallos = 0 =>
        \/ primary[c] \/ ovr_response[c]
        \/ \E s \in Supervisores :
              \/ vuelta[c][s] # <<>>
              \/ \E i \in 1 .. Len(ida[c][s]) : ida[c][s][i].tipo = "REQ"
              \/ \E i \in 1 .. Len(lista[s]) : lista[s][i].oper = c

\* A teller that asked for supervision gets out of the wait, answered or not: the
\* only thing that can hold it is a supervisor who opens a request and leaves it
\* for ever, since each acknowledge starts the time of the wait again.
PedidoTermina ==
    \/ []<><<\E s \in Supervisores : ESCoverride(s)>>_vars
    \/ \A c \in Cajeros : pc[c] = "espera" ~> pc[c] = "libre"

=============================================================================
