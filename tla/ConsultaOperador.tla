-------------------------- MODULE ConsultaOperador --------------------------
(***************************************************************************)
(* Before the record of an operator is freed ("Eliminar estacion de        *)
(* ingreso"), SRQ_op_status asks the workstation the record names whether  *)
(* the operator is signed on there.  The answer is YES or NO, with no name *)
(* and no number: it sets a flag, and the flag is what the wait looks at.  *)
(***************************************************************************)
EXTENDS Naturals, Sequences

CONSTANTS
    Operadores,     \* operators whose record names a station
    MaxConsultas    \* bound: questions asked

ASSUME ConsultasAssumption == MaxConsultas \in Nat /\ Operadores # {}

VARIABLES
    firmado,        \* op:op_login_id at the station of each operator
    adt_node_id,    \* the record of the operator names a station
    pc, adt_login_id, op_status_on, op_status_off,
    ida, vuelta,    \* messages with each station
    num,            \* history: number of the question asked now
    leida,          \* history: question asked and question of the answer used last
    sueltas         \* history: questions whose wait ended without their answer

vars == <<firmado, adt_node_id, pc, adt_login_id, op_status_on, op_status_off,
          ida, vuelta, num, leida, sueltas>>

Respuesta == [res : {"YES", "NO"}, num : 1 .. MaxConsultas]
Ninguna == [num |-> 0, marca |-> 0, suelta |-> FALSE]

Init ==
    /\ firmado \in [Operadores -> BOOLEAN]
    /\ adt_node_id = [o \in Operadores |-> TRUE]
    /\ pc = "libre" /\ adt_login_id = CHOOSE o \in Operadores : TRUE
    /\ op_status_on = 0 /\ op_status_off = 0
    /\ ida = [o \in Operadores |-> <<>>] /\ vuelta = [o \in Operadores |-> <<>>]
    /\ num = 0 /\ leida = Ninguna /\ sueltas = {}

\* A flag is the number of the answer that set it; 0 is reset.
Reinicia == op_status_on' = 0 /\ op_status_off' = 0

\* Mutant: the question is sent again without a wait in between.
PreguntaDosVeces(q) == q \o <<num', num'>>

Pregunta(q) == Append(q, num')

SRQ_op_status(o) ==
    /\ pc = "libre" /\ adt_node_id[o] /\ num < MaxConsultas
    /\ num' = num + 1 /\ adt_login_id' = o
    /\ Reinicia
    /\ ida' = [ida EXCEPT ![o] = Pregunta(@)]
    /\ pc' = "espera"
    /\ UNCHANGED <<firmado, adt_node_id, vuelta, leida, sueltas>>

Contesta(o) == IF firmado[o] THEN "YES" ELSE "NO"

\* SRQ_service_moa at the station: case OP_STATUS.
OP_STATUS(o) ==
    /\ ida[o] # <<>>
    /\ ida' = [ida EXCEPT ![o] = Tail(@)]
    /\ vuelta' = [vuelta EXCEPT ![o] =
                    Append(@, [res |-> Contesta(o), num |-> Head(ida[o])])]
    /\ UNCHANGED <<firmado, adt_node_id, pc, adt_login_id, op_status_on,
                   op_status_off, num, leida, sueltas>>

\* SRQ_service_moa of the one who asked: case OP_STATUS_REP, whenever it comes.
OP_STATUS_REP(o) ==
    /\ vuelta[o] # <<>>
    /\ vuelta' = [vuelta EXCEPT ![o] = Tail(@)]
    /\ LET m == Head(vuelta[o])
       IN /\ op_status_off' = IF m.res = "NO" THEN m.num ELSE op_status_off
          /\ op_status_on' = IF m.res = "NO" THEN op_status_on ELSE m.num
    /\ UNCHANGED <<firmado, adt_node_id, pc, adt_login_id, ida, num, leida,
                   sueltas>>

TomaRespuesta(marca) ==
    /\ leida' = [num |-> num, marca |-> marca, suelta |-> marca \in sueltas]
    /\ sueltas' = IF marca = num THEN sueltas ELSE (sueltas \ {marca}) \cup {num}

\* The wait ends with -1: "El Operador Debe Salir de Su Estacion".
Presente ==
    /\ pc = "espera" /\ op_status_on # 0
    /\ pc' = "libre" /\ op_status_on' = 0
    /\ TomaRespuesta(op_status_on)
    /\ UNCHANGED <<firmado, adt_node_id, adt_login_id, op_status_off, ida, vuelta, num>>

\* It ends with 0: the record is freed.
Ausente ==
    /\ pc = "espera" /\ op_status_on = 0 /\ op_status_off # 0
    /\ pc' = "libre" /\ op_status_off' = 0
    /\ TomaRespuesta(op_status_off)
    /\ adt_node_id' = [adt_node_id EXCEPT ![adt_login_id] = FALSE]
    /\ UNCHANGED <<firmado, adt_login_id, op_status_on, ida, vuelta, num>>

\* It ends by time-out or reset, also with 0.
Vence ==
    /\ pc = "espera" /\ op_status_on = 0 /\ op_status_off = 0
    /\ pc' = "libre"
    /\ sueltas' = sueltas \cup {num}
    /\ adt_node_id' = [adt_node_id EXCEPT ![adt_login_id] = FALSE]
    /\ UNCHANGED <<firmado, adt_login_id, op_status_on, op_status_off, ida, vuelta,
                   num, leida>>

\* External: the operator signs on or off at the station.
Firma(o) ==
    /\ firmado' = [firmado EXCEPT ![o] = ~@]
    /\ adt_node_id' = [adt_node_id EXCEPT ![o] = firmado'[o]]
    /\ UNCHANGED <<pc, adt_login_id, op_status_on, op_status_off, ida, vuelta, num,
                   leida, sueltas>>

Next ==
    \/ \E o \in Operadores :
          SRQ_op_status(o) \/ OP_STATUS(o) \/ OP_STATUS_REP(o) \/ Firma(o)
    \/ Presente \/ Ausente \/ Vence

Spec == Init /\ [][Next]_vars

-----------------------------------------------------------------------------
TypeOK ==
    /\ firmado \in [Operadores -> BOOLEAN]
    /\ adt_node_id \in [Operadores -> BOOLEAN]
    /\ pc \in {"libre", "espera"} /\ adt_login_id \in Operadores
    /\ op_status_on \in 0 .. MaxConsultas /\ op_status_off \in 0 .. MaxConsultas
    /\ ida \in [Operadores -> Seq(1 .. MaxConsultas)]
    /\ vuelta \in [Operadores -> Seq(Respuesta)]
    /\ num \in 0 .. MaxConsultas
    /\ leida \in [num : 0 .. MaxConsultas, marca : 0 .. MaxConsultas, suelta : BOOLEAN]
    /\ sueltas \subseteq 1 .. MaxConsultas

\* The answer that ends a wait is the one to the question asked or, from the first
\* time-out on, a late one to a question whose wait had ended without it: no answer
\* is taken twice, although it carries no number and lines 83-84 of SRQ_op_status
\* take for granted that the messages for somebody else are told apart.
RespuestaDelConsultado == leida.marca = leida.num \/ leida.suelta

=============================================================================
