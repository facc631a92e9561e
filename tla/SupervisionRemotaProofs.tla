---------------------- MODULE SupervisionRemotaProofs ----------------------
(***************************************************************************)
(* Remote supervision, for every number of tellers, supervisors, requests  *)
(* and failures, as long as the numbers a station gives its requests have  *)
(* not come round: 65535 of them since the workstation was started.  IInv  *)
(* follows a request from the teller to the list, the screen and the       *)
(* answer: where it is, it is nowhere else.                                *)
(***************************************************************************)
EXTENDS SupervisionRemota, FiniteSetTheorems, SequenceTheorems,
        WellFoundedInduction, TLAPS

USE CicloAssumption, PedidosAssumption, CanalAssumption, FallosAssumption,
    RetirosAssumption, CajerosAssumption, SupervisoresAssumption

\* The numbers of a station have not come round.
SinVuelta == MaxPedidos < Ciclo

-----------------------------------------------------------------------------
(* The inductive invariant.                                                *)

\* What arrived while a routine is about to clear the indicator is in the list.
Indicador ==
    /\ IndicadorConPendientes
    /\ \A s \in Supervisores :
          spc[s] \in {"recuenta", "limpia"} /\ ovr_request[s] => lista[s] # <<>>

\* The requests a station was given a number for, and those on their way to it.
Llegados(s) == IF item_count[s] = 0 THEN Ciclo - 1 ELSE item_count[s] - 1
EnCamino(c, s, i) == i \in 1 .. Len(ida[c][s]) /\ ida[c][s][i].tipo = "REQ"
Enviados(s) == {p \in 1 .. hechos :
                  \E c \in Cajeros : \E i \in Nat : EnCamino(c, s, i) /\ ida[c][s][i].ped = p}

\* A request is on its way to a station, or the station has seen it.
Camino(s) ==
    /\ Llegados(s) + Cardinality(Enviados(s)) <= hechos
    /\ \A c \in Cajeros, i \in Nat : EnCamino(c, s, i) => ida[c][s][i].ped \in 1 .. hechos
    /\ \A c, d \in Cajeros, i, j \in Nat :
          EnCamino(c, s, i) /\ EnCamino(d, s, j) /\ ida[c][s][i].ped = ida[d][s][j].ped
             => c = d /\ i = j
    /\ \A p \in Enviados(s) :
          /\ \A i \in 1 .. Len(lista[s]) : lista[s][i].ped # p
          /\ vista[s].hay => vista[s].ped # p
          /\ \A c \in Cajeros : <<c, p, s>> \notin concedidos
    /\ \A c \in Cajeros, p \in Numero : <<c, p, s>> \in concedidos => p \in 1 .. hechos
    /\ \A c \in Cajeros : \A i \in 1 .. Len(ida[c][s]) :
          ida[c][s][i].tipo = "CANCEL" => c \in retiros

\* In a list a number, and a request, is there once.
Numeros(s) ==
    /\ \A i \in 1 .. Len(lista[s]) : lista[s][i].seq_num \in 1 .. Llegados(s)
                                    /\ lista[s][i].ped \in 1 .. hechos
    /\ \A i, j \in 1 .. Len(lista[s]) :
          lista[s][i].seq_num = lista[s][j].seq_num \/ lista[s][i].ped = lista[s][j].ped
             => i = j

\* The screen shows the request whose number it keeps, and nobody answered it yet.
Mostrada(s) == spc[s] \in {"pantalla", "borra"} /\ vista[s].hay
Pantalla(s) ==
    /\ vista[s].hay => vista[s].ped \in 1 .. hechos
    /\ spc[s] = "unico" => ~vista[s].hay
    /\ spc[s] = "elige" /\ ro_ovr_count[s] = 1 => ~vista[s].hay
    /\ Mostrada(s) =>
          /\ ro_seq_num[s] \in 1 .. Llegados(s)
          /\ \A i \in 1 .. Len(lista[s]) :
                /\ lista[s][i].seq_num = ro_seq_num[s] <=> lista[s][i].ped = vista[s].ped
                /\ lista[s][i].ped = vista[s].ped => lista[s][i].oper = vista[s].oper
    /\ spc[s] = "pantalla" /\ vista[s].hay =>
          /\ <<vista[s].oper, vista[s].ped, s>> \notin concedidos
          /\ vista[s].oper \notin retiros =>
                \E i \in 1 .. Len(lista[s]) : lista[s][i].ped = vista[s].ped
    /\ \A i \in 1 .. Len(lista[s]) :
          <<lista[s][i].oper, lista[s][i].ped, s>> \in concedidos
             => spc[s] = "borra" /\ vista[s].hay /\ lista[s][i].ped = vista[s].ped

\* Without cancels no screen is blank.
SinBlanco(s) ==
    retiros = {} =>
        /\ spc[s] = "unico" => lista[s] # <<>>
        /\ spc[s] = "elige" => ro_ovr_count[s] # 1
        /\ spc[s] \in {"pantalla", "borra"} => vista[s].hay

\* An element of the list nobody has decided on yet.
Viva(s, c, i) ==
    /\ i \in 1 .. Len(lista[s]) /\ lista[s][i].oper = c
    /\ ~(spc[s] = "borra" /\ vista[s].hay /\ lista[s][i].ped = vista[s].ped)
SinVivas(c, s) == \A i \in Nat : ~Viva(s, c, i)
Quieto(c, s) == ida[c][s] = <<>> /\ vuelta[c][s] = <<>> /\ SinVivas(c, s)

\* The answer of the supervisor, or of the server, that ends a wait.
Final(m) == m.tipo \in {"RESP", "ERROR"}
Avisado(c) == ovr_response[c] \/ host_srv_resp[c] = "MOA_ERR"
Previos(c, s, k) == \A i \in 1 .. k : ~Final(vuelta[c][s][i])

\* A teller waits: the request is on its way,
EsperaCamino(c, s) ==
    /\ Len(ida[c][s]) = 1 /\ ida[c][s][1] = [tipo |-> "REQ", ped |-> n[c]]
    /\ vuelta[c][s] = <<>> /\ SinVivas(c, s) /\ ~Avisado(c)

\* in the list,
EsperaLista(c, s) ==
    /\ ida[c][s] = <<>> /\ ~Avisado(c)
    /\ Previos(c, s, Len(vuelta[c][s]))
    /\ \A i \in Nat : Viva(s, c, i) => lista[s][i].ped = n[c]
    /\ retiros = {} => ~SinVivas(c, s)

\* or decided, and the answer on its way back, there, or lost.
EsperaRespuesta(c, s) ==
    LET k == Len(vuelta[c][s])
    IN /\ ida[c][s] = <<>> /\ SinVivas(c, s)
       /\ Previos(c, s, k - 1)
       /\ k # 0 => ~Avisado(c)
       /\ k # 0 /\ vuelta[c][s][k].resp = "grant" => <<c, n[c], s>> \in concedidos
       /\ ovr_response[c] /\ ro_resp[c] = "grant" => <<c, n[c], s>> \in concedidos
       /\ fallos = 0 => IF k = 0 THEN ovr_response[c] ELSE vuelta[c][s][k].tipo = "RESP"

Esperas(c) ==
    c \notin retiros =>
        /\ \A s \in Supervisores : pc[c] = "libre" \/ s # adt[c] => Quieto(c, s)
        /\ pc[c] = "espera" => \/ EsperaCamino(c, adt[c])
                               \/ EsperaLista(c, adt[c])
                               \/ EsperaRespuesta(c, adt[c])

\* The grants a teller has not used yet: on their way, and the one it was told of.
PorCobrar(c) ==
    {x \in Supervisores \X Nat :
        \/ x[2] \in 1 .. Len(vuelta[c][x[1]]) /\ vuelta[c][x[1]][x[2]].resp = "grant"
        \/ x = <<adt[c], 0>> /\ pc[c] = "espera" /\ ovr_response[c] /\ ro_resp[c] = "grant"}
De(S, c) == {p \in S : p[1] = c}
Cuenta(c) ==
    /\ IsFiniteSet(PorCobrar(c))
    /\ Cardinality(De(cobrados, c)) + Cardinality(PorCobrar(c))
          <= Cardinality(De(concedidos, c))

\* A grant is an answer; what was granted and used is finite.
Respuestas ==
    /\ \A c \in Cajeros, s \in Supervisores : \A i \in 1 .. Len(vuelta[c][s]) :
          vuelta[c][s][i].resp = "grant" => vuelta[c][s][i].tipo = "RESP"
    /\ IsFiniteSet(concedidos) /\ IsFiniteSet(cobrados)

IInv ==
    /\ TypeOK /\ Indicador /\ Respuestas /\ ConcedePedido
    /\ \A s \in Supervisores : Camino(s) /\ Numeros(s) /\ Pantalla(s) /\ SinBlanco(s)
    /\ \A c \in Cajeros : Esperas(c) /\ Cuenta(c)

-----------------------------------------------------------------------------
(* Sequences: the end of one, all but the first, and all but one.          *)

LEMMA AlFinal ==
    ASSUME NEW S, NEW L \in Seq(S), NEW x \in S
    PROVE  /\ Append(L, x) \in Seq(S)
           /\ Len(Append(L, x)) = Len(L) + 1 /\ Len(L) \in Nat
           /\ \A i \in 1 .. Len(L) : Append(L, x)[i] = L[i]
           /\ Append(L, x)[Len(L) + 1] = x
OBVIOUS

LEMMA SinPrimero ==
    ASSUME NEW S, NEW L \in Seq(S), L # <<>>
    PROVE  /\ Tail(L) \in Seq(S)
           /\ Len(L) \in Nat \ {0} /\ Len(Tail(L)) = Len(L) - 1
           /\ \A i \in 1 .. Len(L) - 1 : Tail(L)[i] = L[i + 1]
           /\ Head(L) = L[1] /\ L[1] \in S
OBVIOUS

LEMMA SinUno ==
    ASSUME NEW S, NEW L \in Seq(S), NEW k \in 1 .. Len(L)
    PROVE  /\ RemoveAt(L, k) \in Seq(S)
           /\ Len(L) \in Nat \ {0} /\ Len(RemoveAt(L, k)) = Len(L) - 1
           /\ \A i \in 1 .. Len(L) - 1 :
                 RemoveAt(L, k)[i] = IF i < k THEN L[i] ELSE L[i + 1]
<1> DEFINE A == SubSeq(L, 1, k - 1)
           B == SubSeq(L, k + 1, Len(L))
<1>1. Len(L) \in Nat \ {0} /\ k \in Nat
  OBVIOUS
<1>2. /\ A \in Seq(S) /\ Len(A) = k - 1
      /\ \A i \in 1 .. k - 1 : A[i] = L[i]
  <2>1. \A i \in 1 .. k - 1 : L[i] \in S
    BY <1>1
  <2> QED BY <1>1, <2>1, SubSeqProperties
<1>3. /\ B \in Seq(S) /\ Len(B) = Len(L) - k
      /\ \A i \in 1 .. Len(L) - k : B[i] = L[k + i]
  <2>1. \A i \in k + 1 .. Len(L) : L[i] \in S
    BY <1>1
  <2>2. k + 1 \in Int /\ Len(L) \in Int
    BY <1>1
  <2>3. /\ B \in Seq(S) /\ Len(B) = (IF k + 1 <= Len(L) THEN Len(L) - (k + 1) + 1 ELSE 0)
        /\ \A i \in 1 .. Len(L) - (k + 1) + 1 : B[i] = L[(k + 1) + i - 1]
    BY <2>1, <2>2, SubSeqProperties
  <2> QED BY <1>1, <2>3
<1> HIDE DEF A, B
<1>4. /\ A \o B \in Seq(S) /\ Len(A \o B) = Len(L) - 1
      /\ \A i \in 1 .. Len(L) - 1 : (A \o B)[i] = IF i <= k - 1 THEN A[i] ELSE B[i - (k - 1)]
  <2>1. /\ A \o B \in Seq(S) /\ Len(A \o B) = Len(A) + Len(B)
        /\ \A i \in 1 .. Len(A) + Len(B) :
              (A \o B)[i] = IF i <= Len(A) THEN A[i] ELSE B[i - Len(A)]
    BY <1>2, <1>3, ConcatProperties
  <2>2. Len(A) + Len(B) = Len(L) - 1
    BY <1>1, <1>2, <1>3
  <2> QED BY <1>2, <2>1, <2>2
<1>5. \A i \in 1 .. Len(L) - 1 : (A \o B)[i] = IF i < k THEN L[i] ELSE L[i + 1]
  <2> TAKE i \in 1 .. Len(L) - 1
  <2>1. CASE i < k
    BY <2>1, <1>1, <1>2, <1>4
  <2>2. CASE ~(i < k)
    <3>1. i - (k - 1) \in 1 .. Len(L) - k /\ k + (i - (k - 1)) = i + 1
      BY <2>2, <1>1
    <3> QED BY <2>2, <3>1, <1>1, <1>3, <1>4
  <2> QED BY <2>1, <2>2
<1> QED
  BY <1>1, <1>4, <1>5 DEF RemoveAt, A, B

\* The least of a set of positions.
LEMMA MinEsta ==
    ASSUME NEW S \in SUBSET Nat, S # {}
    PROVE  Min(S) \in S /\ \A x \in S : Min(S) <= x
<1> DEFINE T == {0 .. x : x \in S}
<1>1. T \subseteq FiniteSubsetsOf(Nat) /\ T # {}
  <2>1. ASSUME NEW x \in S PROVE 0 .. x \in FiniteSubsetsOf(Nat)
    BY FS_Interval DEF FiniteSubsetsOf
  <2> QED
    BY <2>1
<1>2. PICK X \in T : \A Y \in T : <<Y, X>> \notin StrictSubsetOrdering(Nat)
  BY <1>1, FS_StrictSubsetOrderingWellFounded, WFMin
<1>3. PICK x \in S : X = 0 .. x
  BY <1>2
<1>4. \A z \in S : x <= z
  <2> SUFFICES ASSUME NEW z \in S, z < x PROVE FALSE
    OBVIOUS
  <2>1. 0 .. z \in SUBSET X /\ 0 .. z # X
    BY <1>3
  <2>2. <<0 .. z, X>> \in StrictSubsetOrdering(Nat)
    BY <1>1, <2>1 DEF StrictSubsetOrdering, FiniteSubsetsOf
  <2> QED BY <1>2, <2>2
<1> QED
  BY <1>4 DEF Min

\* What the two deletions take off the list: the first match, or nothing.
LEMMA BorraUno ==
    ASSUME TypeOK, NEW s \in Supervisores
    PROVE  \/ /\ saovreq_delete(s) = lista[s]
              /\ \A i \in 1 .. Len(lista[s]) : lista[s][i].seq_num # ro_seq_num[s]
           \/ \E k \in 1 .. Len(lista[s]) :
                 /\ saovreq_delete(s) = RemoveAt(lista[s], k)
                 /\ lista[s][k].seq_num = ro_seq_num[s]
<1> DEFINE L == lista[s]
           I == {i \in 1 .. Len(L) : L[i].seq_num = ro_seq_num[s]}
<1>1. L \in Seq(OVR_REQ) /\ Len(L) \in Nat
  BY DEF TypeOK
<1>2. CASE I = {}
  BY <1>2 DEF saovreq_delete, RemoveFirstMatch
<1>3. CASE I # {}
  <2>1. Min(I) \in I
    <3>1. I \in SUBSET Nat
      BY <1>1
    <3> HIDE DEF I
    <3> QED BY <3>1, <1>3, MinEsta
  <2>2. saovreq_delete(s) = RemoveAt(L, Min(I))
    BY <1>3 DEF saovreq_delete, RemoveFirstMatch, SelectInSeq
  <2> QED BY <2>1, <2>2
<1> QED
  BY <1>2, <1>3

RestoDe(s, c) == LET DelCajero(e) == e.oper = c IN RemoveFirstMatch(lista[s], DelCajero)

LEMMA CancelaUno ==
    ASSUME TypeOK, NEW s \in Supervisores, NEW c \in Cajeros
    PROVE  \/ /\ RestoDe(s, c) = lista[s]
              /\ \A i \in 1 .. Len(lista[s]) : lista[s][i].oper # c
           \/ \E k \in 1 .. Len(lista[s]) :
                 /\ RestoDe(s, c) = RemoveAt(lista[s], k) /\ RestoDe(s, c) # lista[s]
                 /\ lista[s][k].oper = c
<1> DEFINE L == lista[s]
           I == {i \in 1 .. Len(L) : L[i].oper = c}
<1>1. L \in Seq(OVR_REQ) /\ Len(L) \in Nat
  BY DEF TypeOK
<1>2. CASE I = {}
  BY <1>2 DEF RestoDe, RemoveFirstMatch
<1>3. CASE I # {}
  <2>1. Min(I) \in I
    <3>1. I \in SUBSET Nat
      BY <1>1
    <3> HIDE DEF I
    <3> QED BY <3>1, <1>3, MinEsta
  <2>2. RestoDe(s, c) = RemoveAt(L, Min(I))
    BY <1>3 DEF RestoDe, RemoveFirstMatch, SelectInSeq
  <2>3. RemoveAt(L, Min(I)) # L
    <3>1. Min(I) \in 1 .. Len(L)
      BY <2>1
    <3> HIDE DEF I
    <3> QED BY <1>1, <3>1, SinUno
  <2> QED BY <2>1, <2>2, <2>3
<1> QED
  BY <1>2, <1>3


LEMMA CancelaHace ==
    ASSUME NEW s \in Supervisores, NEW c \in Cajeros, NEW m, RecibeCancel(s, c, m)
    PROVE  /\ m.tipo = "CANCEL"
           /\ lista' = [lista EXCEPT ![s] = RestoDe(s, c)]
           /\ ovr_request' = [ovr_request EXCEPT ![s] = @ /\ ~(RestoDe(s, c) # lista[s])]
           /\ stat_ovr_pending' = [stat_ovr_pending EXCEPT ![s] =
                  @ /\ ~(RestoDe(s, c) # lista[s] /\ RestoDe(s, c) = <<>>)]
           /\ UNCHANGED <<item_count, vuelta>>
BY DEF RecibeCancel, RestoDe, RemoveFirstMatch, SelectInSeq, RemoveAt

-----------------------------------------------------------------------------
(* Types.                                                                  *)

LEMMA TipoMensajes ==
    /\ \A p \in Numero : /\ [tipo |-> "REQ", ped |-> p] \in MsgIda
                         /\ [tipo |-> "CANCEL", ped |-> p] \in MsgIda
    /\ \A t \in {"MOA_RSP", "ACKN", "ERROR"} : Msg(t) \in MsgVuelta
    /\ \A d \in Decision : [tipo |-> "RESP", resp |-> d] \in MsgVuelta
BY DEF MsgIda, MsgVuelta, Msg, Decision

LEMMA TipoNadie == Nadie \in Vista /\ ~Nadie.hay /\ \A s \in Supervisores : 0 \in SeqNum
BY DEF Nadie, Vista, Numero, SeqNum

LEMMA TipoInicial == Init => TypeOK
<1> SUFFICES ASSUME Init PROVE TypeOK
  OBVIOUS
<1>1. (CHOOSE s \in Supervisores : TRUE) \in Supervisores
  OBVIOUS
<1>2. 0 \in Numero /\ 0 \in SeqNum /\ 1 \in SeqNum /\ 0 \in 0 .. MaxFallos /\ 0 \in Nat
  BY DEF Numero, SeqNum
<1>3. <<>> \in Seq(OVR_REQ) /\ <<>> \in Seq(MsgIda) /\ <<>> \in Seq(MsgVuelta)
  OBVIOUS
<1>4. "ok" \in SrvResp
  BY DEF SrvResp
<1>5. /\ n \in [Cajeros -> Numero] /\ pc \in [Cajeros -> {"libre", "espera"}]
      /\ adt \in [Cajeros -> Supervisores]
  BY <1>1, <1>2 DEF Init
<1>6. /\ primary \in [Cajeros -> BOOLEAN] /\ ovr_acknowledge \in [Cajeros -> BOOLEAN]
      /\ ovr_response \in [Cajeros -> BOOLEAN]
      /\ ro_resp \in [Cajeros -> Decision \cup {"nada"}]
      /\ host_srv_resp \in [Cajeros -> SrvResp]
  BY <1>4 DEF Init
<1>7. /\ lista \in [Supervisores -> Seq(OVR_REQ)] /\ item_count \in [Supervisores -> SeqNum]
      /\ ovr_request \in [Supervisores -> BOOLEAN]
      /\ stat_ovr_pending \in [Supervisores -> BOOLEAN]
  BY <1>2, <1>3 DEF Init
<1>8. /\ spc \in [Supervisores -> {"menu", "unico", "elige", "trae", "pantalla",
                                   "borra", "recuenta", "limpia"}]
      /\ ro_seq_num \in [Supervisores -> SeqNum]
      /\ ro_ovr_count \in [Supervisores -> Nat]
      /\ vista \in [Supervisores -> Vista]
  BY <1>2, TipoNadie DEF Init
<1>9. /\ ida \in [Cajeros -> [Supervisores -> Seq(MsgIda)]]
      /\ vuelta \in [Cajeros -> [Supervisores -> Seq(MsgVuelta)]]
  BY <1>3 DEF Init
<1>10. /\ hechos \in Numero /\ concedidos = {} /\ cobrados = {} /\ retiros = {}
       /\ fallos \in 0 .. MaxFallos
  BY <1>2 DEF Init
<1> QED
  BY <1>5, <1>6, <1>7, <1>8, <1>9, <1>10 DEF TypeOK

\* What an action may do to a channel, a list, a screen.
LEMMA TipoPone ==
    ASSUME TypeOK, NEW c \in Cajeros, NEW s \in Supervisores
    PROVE  /\ \A m \in MsgIda : [ida EXCEPT ![c][s] = Append(@, m)]
                                    \in [Cajeros -> [Supervisores -> Seq(MsgIda)]]
           /\ \A m \in MsgVuelta : [vuelta EXCEPT ![c][s] = Append(@, m)]
                                    \in [Cajeros -> [Supervisores -> Seq(MsgVuelta)]]
           /\ ida[c][s] # <<>> =>
                /\ [ida EXCEPT ![c][s] = Tail(@)] \in [Cajeros -> [Supervisores -> Seq(MsgIda)]]
                /\ Head(ida[c][s]) \in MsgIda
           /\ vuelta[c][s] # <<>> =>
                /\ [vuelta EXCEPT ![c][s] = Tail(@)]
                      \in [Cajeros -> [Supervisores -> Seq(MsgVuelta)]]
                /\ Head(vuelta[c][s]) \in MsgVuelta
<1>1. ida[c][s] \in Seq(MsgIda) /\ vuelta[c][s] \in Seq(MsgVuelta)
  BY DEF TypeOK
<1>2. /\ \A m \in MsgIda : Append(ida[c][s], m) \in Seq(MsgIda)
      /\ \A m \in MsgVuelta : Append(vuelta[c][s], m) \in Seq(MsgVuelta)
  BY <1>1, AlFinal
<1>3. /\ ida[c][s] # <<>> => Tail(ida[c][s]) \in Seq(MsgIda) /\ Head(ida[c][s]) \in MsgIda
      /\ vuelta[c][s] # <<>> => Tail(vuelta[c][s]) \in Seq(MsgVuelta)
                                /\ Head(vuelta[c][s]) \in MsgVuelta
  BY <1>1, SinPrimero
<1> QED
  BY <1>2, <1>3 DEF TypeOK

LEMMA TipoCajero ==
    ASSUME TypeOK, NEW c \in Cajeros, PasoCajero(c)
    PROVE  TypeOK'
<1>1. ASSUME NEW s \in Supervisores, SRQ_ro_send_req(c, s) PROVE TypeOK'
  <2>1. hechos + 1 \in Numero
    BY <1>1 DEF TypeOK, Numero, SRQ_ro_send_req
  <2>2. ida' \in [Cajeros -> [Supervisores -> Seq(MsgIda)]]
    <3>1. [tipo |-> "REQ", ped |-> hechos + 1] \in MsgIda
      BY <2>1, TipoMensajes
    <3>2. \A m \in MsgIda : [ida EXCEPT ![c][s] = Append(@, m)]
                               \in [Cajeros -> [Supervisores -> Seq(MsgIda)]]
      BY TipoPone
    <3>3. \/ ida' = ida
          \/ ida' = [ida EXCEPT ![c][s] = Append(@, [tipo |-> "REQ", ped |-> hechos + 1])]
      BY <1>1 DEF SRQ_ro_send_req
    <3>4. ida \in [Cajeros -> [Supervisores -> Seq(MsgIda)]]
      BY DEF TypeOK
    <3> QED BY <3>1, <3>2, <3>3, <3>4
  <2>3. fallos' \in 0 .. MaxFallos
    <3>1. fallos' = fallos \/ (fallos < MaxFallos /\ fallos' = fallos + 1)
      BY <1>1 DEF SRQ_ro_send_req
    <3>2. fallos \in 0 .. MaxFallos
      BY DEF TypeOK
    <3> QED BY <3>1, <3>2
  <2>4. /\ pc' \in [Cajeros -> {"libre", "espera"}] /\ adt' \in [Cajeros -> Supervisores]
        /\ n' \in [Cajeros -> Numero] /\ hechos' \in Numero
    BY <1>1, <2>1 DEF TypeOK, SRQ_ro_send_req
  <2>5. /\ primary' \in [Cajeros -> BOOLEAN] /\ ovr_acknowledge' \in [Cajeros -> BOOLEAN]
        /\ ovr_response' \in [Cajeros -> BOOLEAN]
    BY <1>1 DEF TypeOK, SRQ_ro_send_req, ReiniciaEventos
  <2>6. /\ ro_resp' \in [Cajeros -> Decision \cup {"nada"}]
        /\ host_srv_resp' \in [Cajeros -> SrvResp]
    BY <1>1 DEF TypeOK, SRQ_ro_send_req, SrvResp
  <2> QED
    BY <1>1, <2>2, <2>3, <2>4, <2>5, <2>6
    DEF TypeOK, SRQ_ro_send_req, estacion, menu
<1>2. CASE Despierta(c)
  <2>1. <<c, n[c], adt[c]>> \in Cajeros \X Numero \X Supervisores
    BY DEF TypeOK
  <2>2. cobrados' \subseteq Cajeros \X Numero \X Supervisores
    BY <1>2, <2>1 DEF TypeOK, Despierta
  <2>3. pc' \in [Cajeros -> {"libre", "espera"}]
    BY <1>2 DEF TypeOK, Despierta
  <2>4. /\ primary' \in [Cajeros -> BOOLEAN] /\ ovr_acknowledge' \in [Cajeros -> BOOLEAN]
        /\ ovr_response' \in [Cajeros -> BOOLEAN]
    <3>1. /\ ovr_acknowledge[c] \in BOOLEAN /\ ovr_response[c] \in BOOLEAN
          /\ Acusado(c) \in BOOLEAN /\ Contestado(c) \in BOOLEAN
      BY DEF TypeOK, Acusado, Contestado
    <3>2. /\ (ovr_acknowledge[c] /\ ~Acusado(c)) \in BOOLEAN
          /\ (ovr_response[c] /\ ~Contestado(c)) \in BOOLEAN
      OBVIOUS
    <3> QED BY <1>2, <3>2 DEF TypeOK, Despierta
  <2> QED
    BY <1>2, <2>2, <2>3, <2>4 DEF TypeOK, Despierta, estacion, menu, canales
<1>3. CASE Vence(c)
  <2>1. n[c] \in Numero /\ adt[c] \in Supervisores
    BY DEF TypeOK
  <2>2. ida' \in [Cajeros -> [Supervisores -> Seq(MsgIda)]]
    <3>1. [tipo |-> "CANCEL", ped |-> n[c]] \in MsgIda
      BY <2>1, TipoMensajes
    <3>2. \A m \in MsgIda : [ida EXCEPT ![c][adt[c]] = Append(@, m)]
                               \in [Cajeros -> [Supervisores -> Seq(MsgIda)]]
      BY <2>1, TipoPone
    <3>3. \/ ida' = ida
          \/ ida' = [ida EXCEPT ![c][adt[c]] = Append(@, [tipo |-> "CANCEL", ped |-> n[c]])]
      BY <1>3 DEF Vence
    <3> QED BY <3>1, <3>2, <3>3 DEF TypeOK
  <2>3. fallos' \in 0 .. MaxFallos
    <3>1. fallos' = fallos \/ (fallos < MaxFallos /\ fallos' = fallos + 1)
      BY <1>3 DEF Vence
    <3>2. fallos \in 0 .. MaxFallos
      BY DEF TypeOK
    <3> QED BY <3>1, <3>2
  <2>4. /\ retiros' \subseteq Cajeros
        /\ pc' \in [Cajeros -> {"libre", "espera"}] /\ host_srv_resp' \in [Cajeros -> SrvResp]
    BY <1>3 DEF TypeOK, Vence, SrvResp
  <2> QED
    BY <1>3, <2>2, <2>3, <2>4 DEF TypeOK, Vence, estacion, menu
<1> QED
  BY <1>1, <1>2, <1>3 DEF PasoCajero

LEMMA TipoSaleMuestra ==
    ASSUME TypeOK, NEW s \in Supervisores
    PROVE  /\ SaleDelMenu(s) =>
                /\ spc' \in [Supervisores -> {"menu", "unico", "elige", "trae", "pantalla",
                                             "borra", "recuenta", "limpia"}]
                /\ vista' \in [Supervisores -> Vista]
                /\ ro_ovr_count' \in [Supervisores -> Nat]
                /\ ro_seq_num' \in [Supervisores -> SeqNum]
           /\ \A i \in 1 .. Len(lista[s]) : Muestra(s, i) =>
                /\ lista[s][i] \in OVR_REQ
                /\ spc' \in [Supervisores -> {"menu", "unico", "elige", "trae", "pantalla",
                                             "borra", "recuenta", "limpia"}]
                /\ vista' \in [Supervisores -> Vista]
                /\ ro_seq_num' \in [Supervisores -> SeqNum]
                /\ vuelta' \in [Cajeros -> [Supervisores -> Seq(MsgVuelta)]]
<1>1. ASSUME SaleDelMenu(s)
      PROVE  /\ spc' \in [Supervisores -> {"menu", "unico", "elige", "trae", "pantalla",
                                             "borra", "recuenta", "limpia"}]
             /\ vista' \in [Supervisores -> Vista]
             /\ ro_ovr_count' \in [Supervisores -> Nat]
             /\ ro_seq_num' \in [Supervisores -> SeqNum]
  BY <1>1, TipoNadie DEF SaleDelMenu, TypeOK
<1>2. ASSUME NEW i \in 1 .. Len(lista[s]), Muestra(s, i)
      PROVE  /\ lista[s][i] \in OVR_REQ
             /\ spc' \in [Supervisores -> {"menu", "unico", "elige", "trae", "pantalla",
                                             "borra", "recuenta", "limpia"}]
             /\ vista' \in [Supervisores -> Vista]
             /\ ro_seq_num' \in [Supervisores -> SeqNum]
             /\ vuelta' \in [Cajeros -> [Supervisores -> Seq(MsgVuelta)]]
  <2>1. lista[s] \in Seq(OVR_REQ)
    BY DEF TypeOK
  <2>2. lista[s][i] \in OVR_REQ
    BY <2>1, ElementOfSeq
  <2>3. PICK e \in OVR_REQ : e = lista[s][i]
    BY <2>2
  <2>4. /\ e.oper \in Cajeros /\ e.ped \in Numero /\ e.seq_num \in SeqNum
        /\ [hay |-> TRUE, oper |-> e.oper, ped |-> e.ped] \in Vista
    BY DEF OVR_REQ, Vista
  <2>5. /\ vista' = [vista EXCEPT ![s] = [hay |-> TRUE, oper |-> e.oper, ped |-> e.ped]]
        /\ ro_seq_num' = [ro_seq_num EXCEPT ![s] = e.seq_num]
        /\ vuelta' = [vuelta EXCEPT ![e.oper][s] = Append(@, Msg("ACKN"))]
        /\ spc' = [spc EXCEPT ![s] = "pantalla"]
    BY <1>2, <2>3 DEF Muestra
  <2>6. vuelta' \in [Cajeros -> [Supervisores -> Seq(MsgVuelta)]]
    <3>1. Msg("ACKN") \in MsgVuelta
      BY TipoMensajes
    <3> QED BY <2>4, <2>5, <3>1, TipoPone
  <2> QED
    BY <2>2, <2>4, <2>5, <2>6 DEF TypeOK
<1> QED
  BY <1>1, <1>2

LEMMA Elegido ==
    ASSUME TypeOK, NEW s \in Supervisores, PCOLoverride_trae(s)
    PROVE  /\ spc[s] = "trae"
           /\ \/ SaleDelMenu(s) /\ UNCHANGED vuelta
              \/ \E i \in 1 .. Len(lista[s]) : Muestra(s, i) /\ UNCHANGED ro_ovr_count
<1> DEFINE L == lista[s]
           I == {i \in 1 .. Len(L) : L[i].seq_num = ro_seq_num[s]}
           k == IF I # {} THEN Min(I) ELSE 0
<1>1. L \in Seq(OVR_REQ) /\ Len(L) \in Nat
  BY DEF TypeOK
<1>2. I # {} => Min(I) \in I
  <2>1. I \in SUBSET Nat
    BY <1>1
  <2> HIDE DEF I
  <2> QED BY <2>1, MinEsta
<1>3. /\ spc[s] = "trae"
      /\ IF k = 0 THEN SaleDelMenu(s) /\ UNCHANGED vuelta
         ELSE Muestra(s, k) /\ UNCHANGED ro_ovr_count
  BY DEF PCOLoverride_trae, SelectInSeq
<1>4. CASE I # {}
  <2>1. k \in 1 .. Len(L)
    BY <1>2, <1>4
  <2> QED
    <3> HIDE DEF k
    <3> QED BY <1>1, <1>3, <2>1
<1>5. CASE I = {}
  BY <1>3, <1>5
<1> QED
  BY <1>4, <1>5

LEMMA TipoMenu ==
    ASSUME TypeOK, NEW s \in Supervisores, PasoMenu(s)
    PROVE  TypeOK'
<1>1. CASE PDISoverride(s)
  <2>1. Len(lista[s]) \in Nat
    BY DEF TypeOK
  <2>2. /\ ro_ovr_count' \in [Supervisores -> Nat] /\ vista' \in [Supervisores -> Vista]
        /\ spc' \in [Supervisores -> {"menu", "unico", "elige", "trae", "pantalla",
                                     "borra", "recuenta", "limpia"}]
    BY <1>1, <2>1, TipoNadie DEF TypeOK, PDISoverride
  <2> QED
    BY <1>1, <2>2 DEF TypeOK, PDISoverride, cajero, eventos, estacion, canales, historia
<1>2. CASE PDISoverride_unico(s)
  <2>1. CASE lista[s] = <<>>
    BY <1>2, <2>1, TipoNadie
    DEF TypeOK, PDISoverride_unico, cajero, eventos, estacion, historia
  <2>2. CASE lista[s] # <<>>
    <3>1. 1 \in 1 .. Len(lista[s])
      BY <2>2 DEF TypeOK
    <3>2. Muestra(s, 1)
      BY <1>2, <2>2 DEF PDISoverride_unico
    <3> QED
      BY <1>2, <3>1, <3>2, TipoSaleMuestra
      DEF TypeOK, PDISoverride_unico, cajero, eventos, estacion, historia
  <2> QED BY <2>1, <2>2
<1>3. CASE PCOLoverride(s)
  <2>1. CASE SaleDelMenu(s)
    BY <1>3, <2>1, TipoSaleMuestra
    DEF TypeOK, PCOLoverride, cajero, eventos, estacion, canales, historia
  <2>2. ASSUME NEW i \in 1 .. Len(lista[s]),
               ro_seq_num' = [ro_seq_num EXCEPT ![s] = lista[s][i].seq_num],
               spc' = [spc EXCEPT ![s] = IF ro_ovr_count[s] = 1 THEN "pantalla" ELSE "trae"],
               UNCHANGED <<ro_ovr_count, vista>>
        PROVE  TypeOK'
    <3>1. lista[s][i].seq_num \in SeqNum
      <4>1. lista[s] \in Seq(OVR_REQ)
        BY DEF TypeOK
      <4>2. lista[s][i] \in OVR_REQ
        BY <4>1, ElementOfSeq
      <4> QED BY <4>2 DEF OVR_REQ
    <3> QED
      BY <1>3, <2>2, <3>1
      DEF TypeOK, PCOLoverride, cajero, eventos, estacion, canales, historia
  <2> QED BY <1>3, <2>1, <2>2 DEF PCOLoverride
<1>4. CASE PCOLoverride_trae(s)
  BY <1>4, Elegido, TipoSaleMuestra
  DEF TypeOK, PCOLoverride_trae, cajero, eventos, estacion, historia
<1>5. CASE ESCoverride(s)
  <2>1. CASE SaleDelMenu(s)
    BY <1>5, <2>1, TipoSaleMuestra
    DEF TypeOK, ESCoverride, cajero, eventos, estacion, canales, historia
  <2>2. CASE /\ spc' = [spc EXCEPT ![s] = "elige"]
             /\ UNCHANGED <<ro_seq_num, ro_ovr_count, vista>>
    BY <1>5, <2>2 DEF TypeOK, ESCoverride, cajero, eventos, estacion, canales, historia
  <2> QED BY <1>5, <2>1, <2>2 DEF ESCoverride
<1>6. ASSUME NEW d \in Decision, PBrequest(s, d) PROVE TypeOK'
  <2>1. PICK v \in Vista : v = vista[s]
    BY DEF TypeOK
  <2>2. v.oper \in Cajeros /\ v.ped \in Numero
    BY DEF Vista
  <2>3. vuelta' \in [Cajeros -> [Supervisores -> Seq(MsgVuelta)]]
    <3>1. [tipo |-> "RESP", resp |-> d] \in MsgVuelta
      BY TipoMensajes
    <3>2. \/ vuelta' = vuelta
          \/ vuelta' = [vuelta EXCEPT ![v.oper][s] =
                            Append(@, [tipo |-> "RESP", resp |-> d])]
      BY <1>6, <2>1 DEF PBrequest
    <3>3. \A m \in MsgVuelta : [vuelta EXCEPT ![v.oper][s] = Append(@, m)]
                               \in [Cajeros -> [Supervisores -> Seq(MsgVuelta)]]
      BY <2>2, TipoPone
    <3>4. vuelta \in [Cajeros -> [Supervisores -> Seq(MsgVuelta)]]
      BY DEF TypeOK
    <3> QED BY <3>1, <3>2, <3>3, <3>4
  <2>4. concedidos' \subseteq Cajeros \X Numero \X Supervisores
    <3>1. concedidos' = concedidos \/ concedidos' = concedidos \cup {<<v.oper, v.ped, s>>}
      BY <1>6, <2>1 DEF PBrequest
    <3>2. <<v.oper, v.ped, s>> \in Cajeros \X Numero \X Supervisores
      BY <2>2
    <3>3. concedidos \subseteq Cajeros \X Numero \X Supervisores
      BY DEF TypeOK
    <3> QED BY <3>1, <3>2, <3>3
  <2>5. spc' \in [Supervisores -> {"menu", "unico", "elige", "trae", "pantalla",
                                   "borra", "recuenta", "limpia"}]
    BY <1>6 DEF TypeOK, PBrequest
  <2> QED
    BY <1>6, <2>3, <2>4, <2>5 DEF TypeOK, PBrequest, cajero, eventos, estacion
<1>7. CASE OVRro_pic_or_exit(s)
  <2>1. saovreq_delete(s) \in Seq(OVR_REQ)
    <3>1. lista[s] \in Seq(OVR_REQ)
      BY DEF TypeOK
    <3>2. \A k \in 1 .. Len(lista[s]) : RemoveAt(lista[s], k) \in Seq(OVR_REQ)
      BY <3>1, SinUno
    <3> QED BY <3>1, <3>2, BorraUno
  <2> QED
    BY <1>7, <2>1
    DEF TypeOK, OVRro_pic_or_exit, ReiniciaPedido, cajero, eventos, canales, historia
<1>8. CASE OVRro_pic_or_exit_cuenta(s)
  BY <1>8
  DEF TypeOK, OVRro_pic_or_exit_cuenta, cajero, eventos, estacion, canales, historia
<1>9. CASE OVRro_clr_ovr_pend(s)
  BY <1>9, TipoSaleMuestra
  DEF TypeOK, OVRro_clr_ovr_pend, cajero, eventos, canales, historia
<1> QED
  BY <1>1, <1>2, <1>3, <1>4, <1>5, <1>6, <1>7, <1>8, <1>9 DEF PasoMenu

LEMMA TipoMensaje ==
    ASSUME TypeOK, NEW c \in Cajeros, NEW s \in Supervisores, PasoMensaje(c, s)
    PROVE  TypeOK'
<1>1. CASE EventoCajero(c, s)
  <2>1. PICK m \in MsgVuelta : m = Head(vuelta[c][s])
    BY <1>1, TipoPone DEF EventoCajero
  <2>2. vuelta' \in [Cajeros -> [Supervisores -> Seq(MsgVuelta)]]
    BY <1>1, TipoPone DEF EventoCajero
  <2>3. /\ m.resp \in Decision \cup {"nada"} 
        /\ (ovr_acknowledge[c] \/ m.tipo = "ACKN") \in BOOLEAN
        /\ (ovr_response[c] \/ m.tipo = "RESP") \in BOOLEAN
    BY DEF MsgVuelta
  <2>4. primary' = [primary EXCEPT ![c] = (pc[c] = "espera")]
    BY <1>1 DEF EventoCajero
  <2>5. CASE pc[c] = "espera"
    <3>1. /\ host_srv_resp' = [host_srv_resp EXCEPT ![c] =
                                       IF m.tipo = "ERROR" THEN "MOA_ERR"
                                       ELSE IF m.tipo = "MOA_RSP" THEN "ok" ELSE @]
          /\ ovr_acknowledge' = [ovr_acknowledge EXCEPT ![c] = @ \/ m.tipo = "ACKN"]
          /\ ovr_response' = [ovr_response EXCEPT ![c] = @ \/ m.tipo = "RESP"]
          /\ ro_resp' = [ro_resp EXCEPT ![c] = IF m.tipo = "RESP" THEN m.resp ELSE @]
      BY <1>1, <2>1, <2>5 DEF EventoCajero
    <3>2. host_srv_resp' \in [Cajeros -> SrvResp]
      BY <3>1 DEF TypeOK, SrvResp
    <3>3. ro_resp' \in [Cajeros -> Decision \cup {"nada"}]
      BY <2>3, <3>1 DEF TypeOK
    <3>4. ovr_acknowledge' \in [Cajeros -> BOOLEAN] /\ ovr_response' \in [Cajeros -> BOOLEAN]
      BY <2>3, <3>1 DEF TypeOK
    <3>5. primary' \in [Cajeros -> BOOLEAN]
      BY <2>4, <2>5 DEF TypeOK
    <3> QED
      BY <1>1, <2>2, <3>2, <3>3, <3>4, <3>5
      DEF TypeOK, EventoCajero, cajero, estacion, menu, historia
  <2>6. CASE pc[c] # "espera"
    <3>1. primary' \in [Cajeros -> BOOLEAN]
      BY <2>4, <2>6 DEF TypeOK
    <3> QED
      BY <1>1, <2>2, <2>6, <3>1
      DEF TypeOK, EventoCajero, cajero, estacion, menu, historia
  <2> QED BY <2>5, <2>6
<1>2. CASE EventoSupervisor(s, c)
  <2>1. PICK m \in MsgIda : m = Head(ida[c][s])
    BY <1>2, TipoPone DEF EventoSupervisor
  <2>2. ida' \in [Cajeros -> [Supervisores -> Seq(MsgIda)]] /\ m.ped \in Numero
    BY <1>2, TipoPone DEF EventoSupervisor, MsgIda
  <2>3. CASE RecibePedido(s, c, m)
    <3>1. Asigna(s) \in SeqNum /\ Siguiente(s) \in SeqNum
      <4>1. item_count[s] \in 0 .. Ciclo - 1
        BY DEF TypeOK, SeqNum
      <4>2. Asigna(s) \in 1 .. Ciclo - 1
        BY <4>1 DEF Asigna
      <4>3. (Asigna(s) + 1) % Ciclo \in 0 .. Ciclo - 1
        BY <4>2
      <4> QED BY <4>2, <4>3 DEF SeqNum, Siguiente
    <3>2. lista' \in [Supervisores -> Seq(OVR_REQ)]
      <4>1. [seq_num |-> Asigna(s), oper |-> c, ped |-> m.ped] \in OVR_REQ
        BY <2>2, <3>1 DEF OVR_REQ
      <4>2. Append(lista[s], [seq_num |-> Asigna(s), oper |-> c, ped |-> m.ped]) \in Seq(OVR_REQ)
        BY <4>1, AlFinal DEF TypeOK
      <4> QED BY <2>3, <4>2 DEF TypeOK, RecibePedido
    <3>3. vuelta' \in [Cajeros -> [Supervisores -> Seq(MsgVuelta)]]
      <4>1. Msg("MOA_RSP") \in MsgVuelta
        BY TipoMensajes
      <4> QED BY <2>3, <4>1, TipoPone DEF RecibePedido
    <3> QED
      BY <1>2, <2>2, <2>3, <3>1, <3>2, <3>3
      DEF TypeOK, EventoSupervisor, RecibePedido, cajero, eventos, menu, historia
  <2>4. CASE RecibeCancel(s, c, m)
    <3>1. RestoDe(s, c) \in Seq(OVR_REQ)
      <4>1. lista[s] \in Seq(OVR_REQ)
        BY DEF TypeOK
      <4>2. \A k \in 1 .. Len(lista[s]) : RemoveAt(lista[s], k) \in Seq(OVR_REQ)
        BY <4>1, SinUno
      <4> QED BY <4>1, <4>2, CancelaUno
    <3>2. lista' \in [Supervisores -> Seq(OVR_REQ)]
      <4>1. lista' = [lista EXCEPT ![s] = RestoDe(s, c)]
        BY <2>4, CancelaHace
      <4> QED BY <3>1, <4>1 DEF TypeOK
    <3>3. /\ ovr_request' \in [Supervisores -> BOOLEAN]
          /\ stat_ovr_pending' \in [Supervisores -> BOOLEAN]
      <4>0. /\ ovr_request \in [Supervisores -> BOOLEAN]
            /\ stat_ovr_pending \in [Supervisores -> BOOLEAN]
        BY DEF TypeOK
      <4> DEFINE x == ~(RestoDe(s, c) # lista[s])
                 y == ~(RestoDe(s, c) # lista[s] /\ RestoDe(s, c) = <<>>)
      <4>1. x \in BOOLEAN /\ y \in BOOLEAN
        OBVIOUS
      <4>2. /\ ovr_request' = [ovr_request EXCEPT ![s] = @ /\ x]
            /\ stat_ovr_pending' = [stat_ovr_pending EXCEPT ![s] = @ /\ y]
        BY <2>4, CancelaHace
      <4> HIDE DEF x, y
      <4>3. (ovr_request[s] /\ x) \in BOOLEAN /\ (stat_ovr_pending[s] /\ y) \in BOOLEAN
        BY <4>0, <4>1
      <4> QED BY <4>0, <4>2, <4>3
    <3> QED
      BY <1>2, <2>2, <2>4, <3>2, <3>3, CancelaHace
      DEF TypeOK, EventoSupervisor, cajero, eventos, menu, historia
  <2> QED BY <1>2, <2>1, <2>3, <2>4 DEF EventoSupervisor
<1>3. CASE NoEntrega(c, s)
  <2>1. Msg("ERROR") \in MsgVuelta
    BY TipoMensajes
  <2>2. /\ ida' \in [Cajeros -> [Supervisores -> Seq(MsgIda)]]
        /\ vuelta' \in [Cajeros -> [Supervisores -> Seq(MsgVuelta)]]
    BY <1>3, <2>1, TipoPone DEF NoEntrega
  <2>3. fallos' \in 0 .. MaxFallos
    BY <1>3 DEF TypeOK, NoEntrega
  <2> QED
    BY <1>3, <2>2, <2>3 DEF TypeOK, NoEntrega, cajero, eventos, estacion, menu
<1>4. CASE PierdeRespuesta(c, s)
  <2>1. vuelta' \in [Cajeros -> [Supervisores -> Seq(MsgVuelta)]]
    BY <1>4, TipoPone DEF PierdeRespuesta
  <2>2. fallos' \in 0 .. MaxFallos
    BY <1>4 DEF TypeOK, PierdeRespuesta
  <2> QED
    BY <1>4, <2>1, <2>2 DEF TypeOK, PierdeRespuesta, cajero, eventos, estacion, menu
<1> QED
  BY <1>1, <1>2, <1>3, <1>4 DEF PasoMensaje

LEMMA TipoPaso == TypeOK /\ [Next]_vars => TypeOK'
<1>1. ASSUME TypeOK, UNCHANGED vars PROVE TypeOK'
  BY <1>1 DEF TypeOK, vars, cajero, eventos, estacion, menu, canales, historia
<1> QED
  BY <1>1, TipoCajero, TipoMenu, TipoMensaje DEF Next

-----------------------------------------------------------------------------
(* The indicator.                                                          *)

LEMMA IndicadorPaso ==
    ASSUME TypeOK, Indicador, Next
    PROVE  Indicador'
<1> USE DEF Indicador, IndicadorConPendientes
<1>1. ASSUME NEW c \in Cajeros, PasoCajero(c) PROVE Indicador'
  BY <1>1 DEF PasoCajero, SRQ_ro_send_req, Despierta, Vence, estacion, menu
<1>2. ASSUME NEW s \in Supervisores, PasoMenu(s) PROVE Indicador'
  <2>1. CASE PDISoverride(s)
    BY <2>1 DEF TypeOK, PDISoverride, estacion
  <2>2. CASE PDISoverride_unico(s)
    BY <2>2 DEF TypeOK, PDISoverride_unico, Muestra, estacion
  <2>P. ASSUME NEW x, x \notin {"recuenta", "limpia"}, spc[s] \notin {"recuenta", "limpia"},
               spc' = [spc EXCEPT ![s] = x], UNCHANGED estacion
        PROVE  Indicador'
    <3>1. UNCHANGED <<lista, ovr_request, stat_ovr_pending>>
      BY <2>P DEF estacion
    <3>2. \A t \in Supervisores : spc'[t] \in {"recuenta", "limpia"} <=> spc[t] \in {"recuenta", "limpia"}
      BY <2>P DEF TypeOK
    <3> QED BY <3>1, <3>2
  <2>3. CASE PCOLoverride(s)
    <3>1. /\ UNCHANGED estacion /\ spc[s] = "elige"
          /\ \E x \in {"menu", "pantalla", "trae"} : spc' = [spc EXCEPT ![s] = x]
      BY <2>3 DEF PCOLoverride, SaleDelMenu
    <3> QED BY <2>P, <3>1
  <2>4. CASE PCOLoverride_trae(s)
    <3>1. /\ UNCHANGED estacion /\ spc[s] = "trae"
          /\ spc' = [spc EXCEPT ![s] = "menu"] \/ spc' = [spc EXCEPT ![s] = "pantalla"]
      BY <2>4, Elegido DEF PCOLoverride_trae, Muestra, SaleDelMenu
    <3> QED BY <3>1 DEF TypeOK, estacion
  <2>5. CASE ESCoverride(s)
    <3>1. /\ UNCHANGED estacion /\ spc[s] = "pantalla"
          /\ \E x \in {"menu", "elige"} : spc' = [spc EXCEPT ![s] = x]
      BY <2>5 DEF ESCoverride, SaleDelMenu
    <3> QED BY <2>P, <3>1
  <2>6. ASSUME NEW d \in Decision, PBrequest(s, d) PROVE Indicador'
    BY <2>6 DEF TypeOK, PBrequest, estacion
  <2>7. CASE OVRro_pic_or_exit(s)
    BY <2>7 DEF TypeOK, OVRro_pic_or_exit, ReiniciaPedido
  <2>8. CASE OVRro_pic_or_exit_cuenta(s)
    BY <2>8 DEF TypeOK, OVRro_pic_or_exit_cuenta, estacion
  <2>9. CASE OVRro_clr_ovr_pend(s)
    BY <2>9 DEF TypeOK, OVRro_clr_ovr_pend, SaleDelMenu
  <2> QED
    BY <1>2, <2>1, <2>2, <2>3, <2>4, <2>5, <2>6, <2>7, <2>8, <2>9 DEF PasoMenu
<1>3. ASSUME NEW c \in Cajeros, NEW s \in Supervisores, PasoMensaje(c, s) PROVE Indicador'
  <2>1. CASE EventoCajero(c, s)
    BY <2>1 DEF EventoCajero, estacion, menu
  <2>2. CASE EventoSupervisor(s, c)
    <3>1. PICK m \in MsgIda : m = Head(ida[c][s])
      BY <2>2, TipoPone DEF EventoSupervisor
    <3>2. UNCHANGED spc
      BY <2>2 DEF EventoSupervisor, menu
    <3>3. CASE RecibePedido(s, c, m)
      <4> DEFINE x == [seq_num |-> Asigna(s), oper |-> c, ped |-> m.ped]
      <4>1. lista' = [lista EXCEPT ![s] = Append(@, x)] /\ lista \in [Supervisores -> Seq(OVR_REQ)]
        BY <3>3 DEF RecibePedido, TypeOK
      <4> HIDE DEF x
      <4>2. lista'[s] # <<>>
        <5>1. lista'[s] = Append(lista[s], x) /\ lista[s] \in Seq(OVR_REQ)
          BY <4>1
        <5> QED BY <5>1
      <4>3. /\ \A z \in Supervisores : z # s => /\ lista'[z] = lista[z]
                                                /\ ovr_request'[z] = ovr_request[z]
                                                /\ stat_ovr_pending'[z] = stat_ovr_pending[z]
            /\ lista'[s] # <<>>
        <5>1. /\ ovr_request' = [ovr_request EXCEPT ![s] = TRUE]
              /\ stat_ovr_pending' = [stat_ovr_pending EXCEPT ![s] = TRUE]
              /\ ovr_request \in [Supervisores -> BOOLEAN]
              /\ stat_ovr_pending \in [Supervisores -> BOOLEAN]
          BY <3>3 DEF RecibePedido, TypeOK
        <5>2. \A z \in Supervisores : z # s => /\ ovr_request'[z] = ovr_request[z]
                                               /\ stat_ovr_pending'[z] = stat_ovr_pending[z]
          BY <5>1
        <5> QED BY <4>1, <4>2, <5>2
      <4>4. spc' = spc
        BY <3>2
      <4>5. ASSUME NEW z \in Supervisores
            PROVE  /\ stat_ovr_pending'[z] => lista'[z] # <<>> \/ spc'[z] \in {"recuenta", "limpia"}
                   /\ spc'[z] \in {"recuenta", "limpia"} /\ ovr_request'[z] => lista'[z] # <<>>
        <5>1. CASE z = s
          BY <4>3, <5>1
        <5>2. CASE z # s
          <6>1. /\ stat_ovr_pending[z] => lista[z] # <<>> \/ spc[z] \in {"recuenta", "limpia"}
                /\ spc[z] \in {"recuenta", "limpia"} /\ ovr_request[z] => lista[z] # <<>>
            BY DEF Indicador, IndicadorConPendientes
          <6> QED BY <4>3, <4>4, <5>2, <6>1
        <5> QED BY <5>1, <5>2, Zenon
      <4> QED BY <4>5, Zenon DEF Indicador, IndicadorConPendientes
    <3>4. CASE RecibeCancel(s, c, m)
      <4> DEFINE r == RestoDe(s, c)
      <4>1. /\ lista' = [lista EXCEPT ![s] = r]
            /\ ovr_request' = [ovr_request EXCEPT ![s] = @ /\ ~(r # lista[s])]
            /\ stat_ovr_pending' = [stat_ovr_pending EXCEPT ![s] =
                                        @ /\ ~(r # lista[s] /\ r = <<>>)]
        BY <3>4, CancelaHace
      <4> HIDE DEF r
      <4>2. /\ lista'[s] = r /\ (ovr_request'[s] => ovr_request[s] /\ r = lista[s])
            /\ (stat_ovr_pending'[s] => stat_ovr_pending[s] /\ ~(r # lista[s] /\ r = <<>>))
        BY <4>1 DEF TypeOK
      <4>3. \A t \in Supervisores \ {s} :
                /\ lista'[t] = lista[t] /\ ovr_request'[t] = ovr_request[t]
                /\ stat_ovr_pending'[t] = stat_ovr_pending[t]
        BY <4>1 DEF TypeOK
      <4> QED BY <3>2, <4>2, <4>3
    <3> QED BY <2>2, <3>1, <3>3, <3>4 DEF EventoSupervisor
  <2>3. CASE NoEntrega(c, s)
    BY <2>3 DEF NoEntrega, estacion, menu
  <2>4. CASE PierdeRespuesta(c, s)
    BY <2>4 DEF PierdeRespuesta, estacion, menu
  <2> QED BY <1>3, <2>1, <2>2, <2>3, <2>4 DEF PasoMensaje
<1> QED
  BY <1>1, <1>2, <1>3 DEF Next

-----------------------------------------------------------------------------
(* Channels: a message more, a message less.                               *)

Anade(c, s, m) == vuelta' = [vuelta EXCEPT ![c][s] = Append(@, m)]

LEMMA VueltaMas ==
    ASSUME TypeOK, NEW c \in Cajeros, NEW s \in Supervisores, NEW m \in MsgVuelta,
           Anade(c, s, m)
    PROVE  /\ \A d \in Cajeros, t \in Supervisores :
                 d # c \/ t # s => vuelta'[d][t] = vuelta[d][t]
           /\ Len(vuelta'[c][s]) = Len(vuelta[c][s]) + 1 /\ Len(vuelta[c][s]) \in Nat
           /\ \A i \in 1 .. Len(vuelta[c][s]) : vuelta'[c][s][i] = vuelta[c][s][i]
           /\ vuelta'[c][s][Len(vuelta[c][s]) + 1] = m
<1>1. vuelta[c][s] \in Seq(MsgVuelta) /\ vuelta \in [Cajeros -> [Supervisores -> Seq(MsgVuelta)]]
  BY DEF TypeOK
<1>2. /\ vuelta'[c][s] = Append(vuelta[c][s], m)
      /\ \A d \in Cajeros, t \in Supervisores :
            d # c \/ t # s => vuelta'[d][t] = vuelta[d][t]
  BY <1>1 DEF Anade
<1> QED
  BY <1>1, <1>2, AlFinal

LEMMA VueltaMenos ==
    ASSUME TypeOK, NEW c \in Cajeros, NEW s \in Supervisores, vuelta[c][s] # <<>>,
           vuelta' = [vuelta EXCEPT ![c][s] = Tail(@)]
    PROVE  /\ \A d \in Cajeros, t \in Supervisores :
                 d # c \/ t # s => vuelta'[d][t] = vuelta[d][t]
           /\ Len(vuelta'[c][s]) = Len(vuelta[c][s]) - 1 /\ Len(vuelta[c][s]) \in Nat \ {0}
           /\ \A i \in 1 .. Len(vuelta[c][s]) - 1 : vuelta'[c][s][i] = vuelta[c][s][i + 1]
           /\ Head(vuelta[c][s]) = vuelta[c][s][1] /\ vuelta[c][s][1] \in MsgVuelta
<1>1. vuelta[c][s] \in Seq(MsgVuelta) /\ vuelta \in [Cajeros -> [Supervisores -> Seq(MsgVuelta)]]
  BY DEF TypeOK
<1>2. /\ vuelta'[c][s] = Tail(vuelta[c][s])
      /\ \A d \in Cajeros, t \in Supervisores :
            d # c \/ t # s => vuelta'[d][t] = vuelta[d][t]
  BY <1>1
<1> QED
  BY <1>1, <1>2, SinPrimero

Envia(c, s, m) == ida' = [ida EXCEPT ![c][s] = Append(@, m)]

LEMMA IdaMas ==
    ASSUME TypeOK, NEW c \in Cajeros, NEW s \in Supervisores, NEW m \in MsgIda, Envia(c, s, m)
    PROVE  /\ \A d \in Cajeros, t \in Supervisores :
                 d # c \/ t # s => ida'[d][t] = ida[d][t]
           /\ Len(ida'[c][s]) = Len(ida[c][s]) + 1 /\ Len(ida[c][s]) \in Nat
           /\ \A i \in 1 .. Len(ida[c][s]) : ida'[c][s][i] = ida[c][s][i]
           /\ ida'[c][s][Len(ida[c][s]) + 1] = m
<1>1. ida[c][s] \in Seq(MsgIda) /\ ida \in [Cajeros -> [Supervisores -> Seq(MsgIda)]]
  BY DEF TypeOK
<1>2. /\ ida'[c][s] = Append(ida[c][s], m)
      /\ \A d \in Cajeros, t \in Supervisores :
            d # c \/ t # s => ida'[d][t] = ida[d][t]
  BY <1>1 DEF Envia
<1> QED
  BY <1>1, <1>2, AlFinal

LEMMA IdaMenos ==
    ASSUME TypeOK, NEW c \in Cajeros, NEW s \in Supervisores, ida[c][s] # <<>>,
           ida' = [ida EXCEPT ![c][s] = Tail(@)]
    PROVE  /\ \A d \in Cajeros, t \in Supervisores :
                 d # c \/ t # s => ida'[d][t] = ida[d][t]
           /\ Len(ida'[c][s]) = Len(ida[c][s]) - 1 /\ Len(ida[c][s]) \in Nat \ {0}
           /\ \A i \in 1 .. Len(ida[c][s]) - 1 : ida'[c][s][i] = ida[c][s][i + 1]
           /\ Head(ida[c][s]) = ida[c][s][1] /\ ida[c][s][1] \in MsgIda
<1>1. ida[c][s] \in Seq(MsgIda) /\ ida \in [Cajeros -> [Supervisores -> Seq(MsgIda)]]
  BY DEF TypeOK
<1>2. /\ ida'[c][s] = Tail(ida[c][s])
      /\ \A d \in Cajeros, t \in Supervisores :
            d # c \/ t # s => ida'[d][t] = ida[d][t]
  BY <1>1
<1> QED
  BY <1>1, <1>2, SinPrimero

\* What a screen does to the answers: one ACKN for the teller of the element.
LEMMA MuestraHace ==
    ASSUME TypeOK, NEW s \in Supervisores, NEW i \in 1 .. Len(lista[s]), Muestra(s, i)
    PROVE  \E e \in OVR_REQ :
              /\ e = lista[s][i] /\ e.oper \in Cajeros /\ e.ped \in Numero
              /\ vista' = [vista EXCEPT ![s] = [hay |-> TRUE, oper |-> e.oper, ped |-> e.ped]]
              /\ ro_seq_num' = [ro_seq_num EXCEPT ![s] = e.seq_num]
              /\ vuelta' = [vuelta EXCEPT ![e.oper][s] = Append(@, Msg("ACKN"))]
              /\ spc' = [spc EXCEPT ![s] = "pantalla"]
<1>1. lista[s] \in Seq(OVR_REQ)
  BY DEF TypeOK
<1>2. lista[s][i] \in OVR_REQ
  BY <1>1, ElementOfSeq
<1> QED
  BY <1>2 DEF Muestra, OVR_REQ

\* What any step does to the answers.
Calla == UNCHANGED vuelta
Saca(c, s) == vuelta[c][s] # <<>> /\ vuelta' = [vuelta EXCEPT ![c][s] = Tail(@)]

LEMMA VueltaPaso ==
    ASSUME TypeOK, Next
    PROVE  \/ Calla
           \/ \E c \in Cajeros, s \in Supervisores : Saca(c, s)
           \/ \E c \in Cajeros, s \in Supervisores : \E m \in MsgVuelta :
                 Anade(c, s, m) /\ (m.resp = "grant" => m.tipo = "RESP")
<1> DEFINE G == \/ Calla
                \/ \E c \in Cajeros, s \in Supervisores : Saca(c, s)
                \/ \E c \in Cajeros, s \in Supervisores : \E m \in MsgVuelta :
                      Anade(c, s, m) /\ (m.resp = "grant" => m.tipo = "RESP")
<1>0. /\ \A t \in {"MOA_RSP", "ACKN", "ERROR"} : Msg(t) \in MsgVuelta /\ Msg(t).resp # "grant"
      /\ \A d \in Decision : LET m == [tipo |-> "RESP", resp |-> d]
                             IN m \in MsgVuelta /\ m.tipo = "RESP"
  BY TipoMensajes DEF Msg
<1>1. ASSUME NEW c \in Cajeros, PasoCajero(c) PROVE G
  BY <1>1 DEF Calla, PasoCajero, SRQ_ro_send_req, Despierta, Vence, canales
<1>2. ASSUME NEW s \in Supervisores, NEW i \in 1 .. Len(lista[s]), Muestra(s, i) PROVE G
  <2>1. PICK e \in OVR_REQ :
           /\ e.oper \in Cajeros
           /\ vuelta' = [vuelta EXCEPT ![e.oper][s] = Append(@, Msg("ACKN"))]
    BY <1>2, MuestraHace
  <2>2. Anade(e.oper, s, Msg("ACKN"))
    BY <2>1 DEF Anade
  <2> QED BY <1>0, <2>1, <2>2
<1>3. ASSUME NEW s \in Supervisores, PasoMenu(s) PROVE G
  <2>2. CASE PDISoverride_unico(s)
    <3>1. CASE lista[s] = <<>>
      BY <2>2, <3>1 DEF PDISoverride_unico, Calla
    <3>2. CASE lista[s] # <<>>
      <4>1. 1 \in 1 .. Len(lista[s])
        BY <3>2 DEF TypeOK
      <4> QED BY <2>2, <3>2, <4>1, <1>2 DEF PDISoverride_unico
    <3> QED BY <3>1, <3>2
  <2>4. CASE PCOLoverride_trae(s)
    BY <2>4, <1>2, Elegido DEF Calla
  <2>6. ASSUME NEW d \in Decision, PBrequest(s, d) PROVE G
    <3>1. vista[s].oper \in Cajeros
      BY DEF TypeOK, Vista
    <3>2. \/ Calla
          \/ Anade(vista[s].oper, s, [tipo |-> "RESP", resp |-> d])
      BY <2>6 DEF PBrequest, Calla, Anade
    <3> QED BY <1>0, <3>1, <3>2
  <2> QED
    BY <1>3, <2>2, <2>4, <2>6
    DEF PasoMenu, Calla, PDISoverride, PCOLoverride, ESCoverride, OVRro_pic_or_exit,
        OVRro_pic_or_exit_cuenta, OVRro_clr_ovr_pend, canales
<1>4. ASSUME NEW c \in Cajeros, NEW s \in Supervisores, PasoMensaje(c, s) PROVE G
  <2>1. CASE EventoSupervisor(s, c)
    <3>1. Anade(c, s, Msg("MOA_RSP")) \/ Calla
      BY <2>1 DEF EventoSupervisor, RecibePedido, RecibeCancel, Anade, Calla
    <3> QED BY <1>0, <3>1
  <2>2. CASE NoEntrega(c, s)
    BY <1>0, <2>2 DEF NoEntrega, Anade
  <2> QED
    BY <1>4, <2>1, <2>2 DEF PasoMensaje, EventoCajero, PierdeRespuesta, Saca
<1> QED
  BY <1>1, <1>3, <1>4 DEF Next

LEMMA HistoriaPaso ==
    ASSUME TypeOK, Next
    PROVE  /\ concedidos' = concedidos \/ \E x : concedidos' = concedidos \cup {x}
           /\ cobrados' = cobrados \/ \E x : cobrados' = cobrados \cup {x}
           /\ retiros \subseteq retiros' /\ hechos' \in Nat /\ hechos' >= hechos
           /\ fallos' >= fallos
<1> DEFINE G == /\ concedidos' = concedidos \/ \E x : concedidos' = concedidos \cup {x}
                /\ cobrados' = cobrados \/ \E x : cobrados' = cobrados \cup {x}
                /\ retiros \subseteq retiros' /\ hechos' \in Nat /\ hechos' >= hechos
                /\ fallos' >= fallos
<1>0. hechos \in Nat /\ fallos \in Nat
  BY DEF TypeOK, Numero
<1>1. ASSUME NEW c \in Cajeros, PasoCajero(c) PROVE G
  <2>1. ASSUME NEW s \in Supervisores, SRQ_ro_send_req(c, s) PROVE G
    BY <1>0, <2>1 DEF SRQ_ro_send_req
  <2>2. CASE Despierta(c)
    <3>1. cobrados' = cobrados \/ cobrados' = cobrados \cup {<<c, n[c], adt[c]>>}
      BY <2>2 DEF Despierta
    <3>2. /\ concedidos' = concedidos /\ retiros' = retiros
          /\ hechos' = hechos /\ fallos' = fallos
      BY <2>2 DEF Despierta
    <3>3. cobrados' = cobrados \/ \E x : cobrados' = cobrados \cup {x}
      BY <3>1
    <3> QED BY <1>0, <3>2, <3>3
  <2>3. CASE Vence(c)
    BY <1>0, <2>3 DEF Vence
  <2> QED BY <1>1, <2>1, <2>2, <2>3 DEF PasoCajero
<1>2. ASSUME NEW s \in Supervisores, PasoMenu(s) PROVE G
  <2>1. ASSUME NEW d \in Decision, PBrequest(s, d) PROVE G
    <3>1. \/ concedidos' = concedidos
          \/ concedidos' = concedidos \cup {<<vista[s].oper, vista[s].ped, s>>}
      BY <2>1 DEF PBrequest
    <3>2. /\ cobrados' = cobrados /\ retiros' = retiros
          /\ hechos' = hechos /\ fallos' = fallos
      BY <2>1 DEF PBrequest
    <3>3. concedidos' = concedidos \/ \E x : concedidos' = concedidos \cup {x}
      BY <3>1
    <3>4. hechos' \in Nat /\ hechos' >= hechos /\ fallos' >= fallos /\ retiros \subseteq retiros'
      BY <1>0, <3>2
    <3> QED BY <3>2, <3>3, <3>4
  <2>2. CASE UNCHANGED historia
    BY <1>0, <2>2 DEF historia
  <2> QED
    BY <1>2, <2>1, <2>2
    DEF PasoMenu, PDISoverride, PDISoverride_unico, PCOLoverride, PCOLoverride_trae,
        ESCoverride, OVRro_pic_or_exit, OVRro_pic_or_exit_cuenta, OVRro_clr_ovr_pend
<1>3. ASSUME NEW c \in Cajeros, NEW s \in Supervisores, PasoMensaje(c, s) PROVE G
  BY <1>0, <1>3
  DEF PasoMensaje, EventoCajero, EventoSupervisor, NoEntrega, PierdeRespuesta, historia
<1> QED
  BY <1>1, <1>2, <1>3 DEF Next

LEMMA RespuestasPaso ==
    ASSUME TypeOK, Respuestas, Next
    PROVE  Respuestas'
<1> DEFINE V == \A c \in Cajeros, s \in Supervisores : \A i \in 1 .. Len(vuelta[c][s]) :
                   vuelta[c][s][i].resp = "grant" => vuelta[c][s][i].tipo = "RESP"
<1>1. ASSUME Calla PROVE V'
  BY <1>1 DEF Calla, Respuestas
<1>2. ASSUME NEW c \in Cajeros, NEW s \in Supervisores, Saca(c, s) PROVE V'
  <2> SUFFICES ASSUME NEW d \in Cajeros, NEW t \in Supervisores,
                      NEW i \in 1 .. Len(vuelta'[d][t])
               PROVE  vuelta'[d][t][i].resp = "grant" => vuelta'[d][t][i].tipo = "RESP"
    OBVIOUS
  <2>1. CASE d = c /\ t = s
    <3>1. /\ Len(vuelta'[c][s]) = Len(vuelta[c][s]) - 1 /\ Len(vuelta[c][s]) \in Nat \ {0}
          /\ \A j \in 1 .. Len(vuelta[c][s]) - 1 : vuelta'[c][s][j] = vuelta[c][s][j + 1]
      BY <1>2, VueltaMenos DEF Saca
    <3>2. i + 1 \in 1 .. Len(vuelta[c][s])
      BY <2>1, <3>1
    <3>3. vuelta'[d][t][i] = vuelta[c][s][i + 1]
      BY <2>1, <3>1
    <3>4. vuelta[c][s][i + 1].resp = "grant" => vuelta[c][s][i + 1].tipo = "RESP"
      BY <3>2 DEF Respuestas
    <3> QED BY <3>3, <3>4
  <2>2. CASE ~(d = c /\ t = s)
    <3>1. vuelta'[d][t] = vuelta[d][t]
      BY <1>2, <2>2, VueltaMenos DEF Saca
    <3> QED BY <3>1 DEF Respuestas
  <2> QED BY <2>1, <2>2
<1>3. ASSUME NEW c \in Cajeros, NEW s \in Supervisores, NEW m \in MsgVuelta,
             Anade(c, s, m), m.resp = "grant" => m.tipo = "RESP"
      PROVE  V'
  <2>1. /\ \A d \in Cajeros, t \in Supervisores :
              d # c \/ t # s => vuelta'[d][t] = vuelta[d][t]
        /\ Len(vuelta'[c][s]) = Len(vuelta[c][s]) + 1 /\ Len(vuelta[c][s]) \in Nat
        /\ \A i \in 1 .. Len(vuelta[c][s]) : vuelta'[c][s][i] = vuelta[c][s][i]
        /\ vuelta'[c][s][Len(vuelta[c][s]) + 1] = m
    BY <1>3, VueltaMas
  <2> SUFFICES ASSUME NEW d \in Cajeros, NEW t \in Supervisores,
                      NEW i \in 1 .. Len(vuelta'[d][t])
               PROVE  vuelta'[d][t][i].resp = "grant" => vuelta'[d][t][i].tipo = "RESP"
    OBVIOUS
  <2>2. CASE d = c /\ t = s
    <3>1. i \in 1 .. Len(vuelta[c][s]) \/ i = Len(vuelta[c][s]) + 1
      <4> DEFINE k == Len(vuelta[c][s])
      <4>1. i \in 1 .. k + 1 /\ k \in Nat
        BY <2>1, <2>2
      <4> HIDE DEF k
      <4>2. i \in 1 .. k \/ i = k + 1
        BY <4>1
      <4> QED BY <4>2 DEF k
    <3>2. CASE i \in 1 .. Len(vuelta[c][s])
      <4>1. vuelta'[d][t][i] = vuelta[c][s][i]
        BY <2>1, <2>2, <3>2
      <4>2. vuelta[c][s][i].resp = "grant" => vuelta[c][s][i].tipo = "RESP"
        BY <3>2 DEF Respuestas
      <4> QED BY <4>1, <4>2
    <3>3. CASE vuelta'[c][s][i] = m
      BY <1>3, <2>2, <3>3
    <3> QED BY <2>1, <3>1, <3>2, <3>3
  <2>3. CASE ~(d = c /\ t = s)
    <3>1. vuelta'[d][t] = vuelta[d][t]
      BY <2>1, <2>3
    <3> QED BY <3>1 DEF Respuestas
  <2> QED BY <2>2, <2>3
<1>4. V'
  BY <1>1, <1>2, <1>3, VueltaPaso DEF Calla, Respuestas
<1>5. IsFiniteSet(concedidos') /\ IsFiniteSet(cobrados')
  BY HistoriaPaso, FS_AddElement DEF Respuestas
<1> QED
  BY <1>4, <1>5 DEF Respuestas

-----------------------------------------------------------------------------
(* The way of a request to a station.                                      *)

LEMMA EnviadosFinito ==
    ASSUME TypeOK, NEW s \in Supervisores
    PROVE  /\ IsFiniteSet(Enviados(s)) /\ Cardinality(Enviados(s)) \in Nat
           /\ Llegados(s) \in Nat /\ hechos \in Nat
<1>1. hechos \in Nat
  BY DEF TypeOK, Numero
<1>2. Enviados(s) \in SUBSET (1 .. hechos)
  BY DEF Enviados
<1>3. IsFiniteSet(Enviados(s))
  <2>1. 1 \in Int /\ hechos \in Int
    BY <1>1
  <2>2. IsFiniteSet(1 .. hechos)
    BY <2>1, FS_Interval
  <2> QED BY <1>2, <2>2, FS_Subset
<1>4. Llegados(s) \in Nat
  <2>1. item_count[s] \in 0 .. Ciclo - 1
    BY DEF TypeOK, SeqNum
  <2> QED BY <2>1 DEF Llegados
<1> QED
  BY <1>1, <1>3, <1>4, FS_CardinalityType

\* What a step may do to a station without touching the requests on their way.
LEMMA CaminoIgual ==
    ASSUME TypeOK, TypeOK', NEW s \in Supervisores, Camino(s), item_count'[s] = item_count[s],
           hechos' >= hechos, retiros \subseteq retiros',
           vista[s].hay => vista[s].ped \in 1 .. hechos,
           \A d \in Cajeros : ida'[d][s] = ida[d][s],
           \A i \in 1 .. Len(lista'[s]) : \E j \in 1 .. Len(lista[s]) :
              lista'[s][i].ped = lista[s][j].ped,
           vista'[s].hay =>
              \/ vista[s].hay /\ vista'[s].ped = vista[s].ped
              \/ \E j \in 1 .. Len(lista[s]) : vista'[s].ped = lista[s][j].ped,
           \A d \in Cajeros, p \in Numero :
              <<d, p, s>> \in concedidos' =>
                 <<d, p, s>> \in concedidos \/ (vista[s].hay /\ p = vista[s].ped)
    PROVE  Camino(s)' /\ Llegados(s)' = Llegados(s)
<1>1. hechos \in Nat /\ hechos' \in Nat
  BY DEF TypeOK, Numero
<1>2. \A d \in Cajeros, i \in Nat : EnCamino(d, s, i)' <=> EnCamino(d, s, i)
  BY DEF EnCamino
<1>3. Enviados(s)' = Enviados(s)
  <2>1. \A p \in Enviados(s) : p \in Enviados(s)'
    BY <1>1, <1>2 DEF Enviados
  <2>2. \A p \in Enviados(s)' : p \in Enviados(s)
    BY <1>1, <1>2 DEF Enviados, Camino
  <2> QED BY <2>1, <2>2
<1>4. Llegados(s)' = Llegados(s)
  BY DEF Llegados
<1>5. Llegados(s)' + Cardinality(Enviados(s)') <= hechos'
  BY <1>1, <1>3, <1>4, EnviadosFinito DEF Camino
<1>6. \A c \in Cajeros, i \in Nat : EnCamino(c, s, i)' => ida'[c][s][i].ped \in 1 .. hechos'
  BY <1>1, <1>2 DEF Camino
<1>7. \A c, d \in Cajeros, i, j \in Nat :
          EnCamino(c, s, i)' /\ EnCamino(d, s, j)' /\ ida'[c][s][i].ped = ida'[d][s][j].ped
             => c = d /\ i = j
  <2> SUFFICES ASSUME NEW c \in Cajeros, NEW d \in Cajeros, NEW i \in Nat, NEW j \in Nat,
                      EnCamino(c, s, i)', EnCamino(d, s, j)',
                      ida'[c][s][i].ped = ida'[d][s][j].ped
               PROVE  c = d /\ i = j
    OBVIOUS
  <2>1. /\ EnCamino(c, s, i) /\ EnCamino(d, s, j)
        /\ ida[c][s][i].ped = ida[d][s][j].ped
    BY <1>2
  <2> QED BY <2>1 DEF Camino
<1>8. ASSUME NEW p \in Enviados(s)
      PROVE  /\ \A i \in 1 .. Len(lista'[s]) : lista'[s][i].ped # p
             /\ vista'[s].hay => vista'[s].ped # p
             /\ \A c \in Cajeros : <<c, p, s>> \notin concedidos'
  <2>1. /\ \A i \in 1 .. Len(lista[s]) : lista[s][i].ped # p
        /\ vista[s].hay => vista[s].ped # p
        /\ \A c \in Cajeros : <<c, p, s>> \notin concedidos
    BY DEF Camino
  <2>2. p \in Numero
    BY <1>1 DEF Enviados, Numero, TypeOK
  <2> QED BY <2>1, <2>2
<1>9. \A c \in Cajeros : \A i \in 1 .. Len(ida'[c][s]) :
          ida'[c][s][i].tipo = "CANCEL" => c \in retiros'
  BY DEF Camino
<1>10. \A c \in Cajeros, p \in Numero : <<c, p, s>> \in concedidos' => p \in 1 .. hechos'
  BY <1>1 DEF Camino
<1>11. \A p \in Enviados(s)' :
          /\ \A i \in 1 .. Len(lista'[s]) : lista'[s][i].ped # p
          /\ vista'[s].hay => vista'[s].ped # p
          /\ \A c \in Cajeros : <<c, p, s>> \notin concedidos'
  BY <1>3, <1>8
<1> QED
  BY <1>4, <1>5, <1>6, <1>7, <1>9, <1>10, <1>11 DEF Camino

\* What is taken off a list leaves the requests on their way as they were.
LEMMA CaminoMenos ==
    ASSUME TypeOK, TypeOK', NEW s \in Supervisores, Camino(s),
           UNCHANGED <<ida, hechos, retiros, item_count, vista, concedidos>>,
           vista[s].hay => vista[s].ped \in 1 .. hechos,
           \A i \in 1 .. Len(lista'[s]) : \E j \in 1 .. Len(lista[s]) :
              lista'[s][i].ped = lista[s][j].ped
    PROVE  Camino(s)'
<1>1. hechos \in Nat
  BY DEF TypeOK, Numero
<1>2. item_count'[s] = item_count[s] /\ hechos' >= hechos /\ retiros \subseteq retiros'
  BY <1>1
<1> QED
  BY <1>2, CaminoIgual

LEMMA TipoCamino ==
    ASSUME TypeOK, NEW c \in Cajeros, NEW s \in Supervisores
    PROVE  /\ hechos \in Nat /\ ida[c][s] \in Seq(MsgIda) /\ Len(ida[c][s]) \in Nat
           /\ \A p \in 1 .. hechos : p \in Numero
<1>1. hechos \in Numero /\ ida[c][s] \in Seq(MsgIda)
  BY DEF TypeOK
<1> QED
  BY <1>1, LenProperties DEF Numero

\* Nothing of a station changed but what is on its way.
MismaEstacion(s) ==
    /\ item_count'[s] = item_count[s] /\ lista'[s] = lista[s] /\ spc'[s] = spc[s]
    /\ ro_seq_num'[s] = ro_seq_num[s] /\ ro_ovr_count'[s] = ro_ovr_count[s]
    /\ vista'[s] = vista[s]
    /\ hechos' >= hechos /\ retiros \subseteq retiros'
    /\ \A d \in Cajeros, p \in Numero : <<d, p, s>> \in concedidos' => <<d, p, s>> \in concedidos

LEMMA EstacionIgual ==
    ASSUME TypeOK, TypeOK', NEW s \in Supervisores, MismaEstacion(s)
    PROVE  /\ Numeros(s) => Numeros(s)'
           /\ Pantalla(s) => Pantalla(s)'
           /\ SinBlanco(s) => SinBlanco(s)'
           /\ Camino(s) /\ Pantalla(s) /\ (\A d \in Cajeros : ida'[d][s] = ida[d][s])
                 => Camino(s)'
<1>1. hechos \in Nat /\ hechos' \in Nat
  BY DEF TypeOK, Numero
<1>2. Llegados(s)' = Llegados(s)
  BY DEF Llegados, MismaEstacion
<1>3. Numeros(s) => Numeros(s)'
  BY <1>1, <1>2 DEF Numeros, MismaEstacion
<1>4. ASSUME Pantalla(s) PROVE Pantalla(s)'
  <2>1. lista[s] \in Seq(OVR_REQ) /\ vista[s] \in Vista
    BY DEF TypeOK
  <2>2. /\ vista[s].oper \in Cajeros /\ vista[s].ped \in Numero
        /\ \A i \in 1 .. Len(lista[s]) : lista[s][i] \in OVR_REQ
    BY <2>1, ElementOfSeq DEF Vista
  <2>3. \A i \in 1 .. Len(lista[s]) : lista[s][i].oper \in Cajeros /\ lista[s][i].ped \in Numero
    BY <2>2 DEF OVR_REQ
  <2>4. Mostrada(s)' = Mostrada(s)
    BY DEF Mostrada, MismaEstacion
  <2>5. /\ vista'[s].hay => vista'[s].ped \in 1 .. hechos'
        /\ spc'[s] = "unico" => ~vista'[s].hay
        /\ spc'[s] = "elige" /\ ro_ovr_count'[s] = 1 => ~vista'[s].hay
    BY <1>1, <1>4 DEF Pantalla, MismaEstacion
  <2>6. Mostrada(s)' =>
          /\ ro_seq_num'[s] \in 1 .. Llegados(s)'
          /\ \A i \in 1 .. Len(lista'[s]) :
                /\ lista'[s][i].seq_num = ro_seq_num'[s] <=> lista'[s][i].ped = vista'[s].ped
                /\ lista'[s][i].ped = vista'[s].ped => lista'[s][i].oper = vista'[s].oper
    BY <1>2, <1>4, <2>4 DEF Pantalla, MismaEstacion
  <2>7. spc'[s] = "pantalla" /\ vista'[s].hay =>
          /\ <<vista'[s].oper, vista'[s].ped, s>> \notin concedidos'
          /\ vista'[s].oper \notin retiros' =>
                \E i \in 1 .. Len(lista'[s]) : lista'[s][i].ped = vista'[s].ped
    BY <1>4, <2>2 DEF Pantalla, MismaEstacion
  <2>8. \A i \in 1 .. Len(lista'[s]) :
          <<lista'[s][i].oper, lista'[s][i].ped, s>> \in concedidos'
             => spc'[s] = "borra" /\ vista'[s].hay /\ lista'[s][i].ped = vista'[s].ped
    <3> SUFFICES ASSUME NEW i \in 1 .. Len(lista[s]),
                        <<lista[s][i].oper, lista[s][i].ped, s>> \in concedidos'
                 PROVE  spc[s] = "borra" /\ vista[s].hay /\ lista[s][i].ped = vista[s].ped
      BY DEF MismaEstacion
    <3>1. PICK o \in Cajeros, p \in Numero : o = lista[s][i].oper /\ p = lista[s][i].ped
      BY <2>3
    <3>2. <<o, p, s>> \in concedidos
      BY <3>1 DEF MismaEstacion
    <3> QED BY <1>4, <3>1, <3>2 DEF Pantalla
  <2> QED BY <2>5, <2>6, <2>7, <2>8 DEF Pantalla
<1>5. SinBlanco(s) => SinBlanco(s)'
  BY DEF SinBlanco, MismaEstacion
<1>6. ASSUME Camino(s), Pantalla(s), \A d \in Cajeros : ida'[d][s] = ida[d][s]
      PROVE  Camino(s)'
  BY <1>6, CaminoIgual DEF Pantalla, MismaEstacion
<1> QED
  BY <1>3, <1>4, <1>5, <1>6

\* A request leaves for the station.
LEMMA CaminoEnvia ==
    ASSUME TypeOK, TypeOK', NEW c \in Cajeros, NEW s \in Supervisores,
           Camino(s), Numeros(s), Pantalla(s), MismaEstacion(s), hechos' = hechos + 1,
           \A d \in Cajeros : d # c => ida'[d][s] = ida[d][s],
           Len(ida'[c][s]) = Len(ida[c][s]) + 1,
           \A i \in 1 .. Len(ida[c][s]) : ida'[c][s][i] = ida[c][s][i],
           ida'[c][s][Len(ida[c][s]) + 1].tipo = "REQ",
           ida'[c][s][Len(ida[c][s]) + 1].ped = hechos + 1
    PROVE  Camino(s)'
<1> DEFINE k == Len(ida[c][s]) + 1
<1>0. /\ hechos \in Nat /\ Len(ida[c][s]) \in Nat /\ k \in Nat \ {0}
      /\ hechos + 1 \in Numero /\ \A p \in 1 .. hechos : p \in Numero
  <2>1. hechos' \in Numero
    BY DEF TypeOK
  <2> QED BY <2>1, TipoCamino
<1>1. /\ Len(ida'[c][s]) = k
      /\ \A i \in 1 .. k - 1 : ida'[c][s][i] = ida[c][s][i]
      /\ ida'[c][s][k].tipo = "REQ" /\ ida'[c][s][k].ped = hechos + 1
  BY <1>0
<1> HIDE DEF k
<1>2. \A d \in Cajeros, i \in Nat : EnCamino(d, s, i)' <=> EnCamino(d, s, i) \/ (d = c /\ i = k)
  <2>1. Len(ida[c][s]) = k - 1
    BY <1>0 DEF k
  <2> SUFFICES ASSUME NEW d \in Cajeros, NEW i \in Nat
               PROVE  EnCamino(d, s, i)' <=> EnCamino(d, s, i) \/ (d = c /\ i = k)
    OBVIOUS
  <2>2. CASE d # c
    BY <1>1, <2>2 DEF EnCamino
  <2>3. CASE d = c /\ i \in 1 .. k - 1
    <3>1. /\ i \in 1 .. Len(ida[c][s]) /\ i \in 1 .. Len(ida'[c][s])
          /\ ida'[c][s][i] = ida[c][s][i] /\ i # k
      BY <1>0, <1>1, <2>1, <2>3
    <3> QED BY <2>3, <3>1 DEF EnCamino
  <2>4. CASE d = c /\ i = k
    <3>1. i \in 1 .. Len(ida'[c][s]) /\ ida'[c][s][i].tipo = "REQ"
      BY <1>0, <1>1, <2>4
    <3> QED BY <2>4, <3>1 DEF EnCamino
  <2>5. CASE d = c /\ i \notin 1 .. k
    <3>1. i \notin 1 .. Len(ida[c][s]) /\ i \notin 1 .. Len(ida'[c][s]) /\ i # k
      BY <1>0, <1>1, <2>1, <2>5
    <3> QED BY <2>5, <3>1 DEF EnCamino
  <2>6. i \in 1 .. k - 1 \/ i = k \/ i \notin 1 .. k
    BY <1>0
  <2> QED BY <2>2, <2>3, <2>4, <2>5, <2>6
<1>3. ~EnCamino(c, s, k)
  BY <1>0 DEF EnCamino, k
<1>4. \A d \in Cajeros, i \in Nat : EnCamino(d, s, i) => ida'[d][s][i] = ida[d][s][i]
  BY <1>0, <1>1 DEF EnCamino, k
<1>5. Enviados(s)' = Enviados(s) \cup {hechos + 1}
  <2>1. ASSUME NEW p \in Enviados(s)' PROVE p \in Enviados(s) \cup {hechos + 1}
    <3>1. PICK d \in Cajeros, i \in Nat : EnCamino(d, s, i)' /\ ida'[d][s][i].ped = p
      BY DEF Enviados
    <3>2. CASE EnCamino(d, s, i)
      BY <1>4, <3>1, <3>2 DEF Enviados, Camino
    <3>3. CASE d = c /\ i = k
      BY <1>1, <3>1, <3>3
    <3> QED BY <1>2, <3>1, <3>2, <3>3
  <2>2. ASSUME NEW p \in Enviados(s) PROVE p \in Enviados(s)'
    <3>1. PICK d \in Cajeros, i \in Nat : EnCamino(d, s, i) /\ ida[d][s][i].ped = p
      BY DEF Enviados
    <3>2. EnCamino(d, s, i)' /\ ida'[d][s][i].ped = p
      BY <1>2, <1>4, <3>1
    <3>3. p \in 1 .. hechos'
      BY <1>0 DEF Enviados
    <3> QED BY <3>2, <3>3 DEF Enviados
  <2>3. hechos + 1 \in Enviados(s)'
    BY <1>0, <1>1, <1>2 DEF Enviados
  <2> QED BY <2>1, <2>2, <2>3
<1>6. hechos + 1 \notin Enviados(s)
  BY <1>0 DEF Enviados
<1>7. Llegados(s)' + Cardinality(Enviados(s)') <= hechos'
  <2>1. Cardinality(Enviados(s)') = Cardinality(Enviados(s)) + 1
    BY <1>5, <1>6, EnviadosFinito, FS_AddElement
  <2>2. Llegados(s)' = Llegados(s)
    BY DEF Llegados, MismaEstacion
  <2> QED BY <2>1, <2>2, EnviadosFinito DEF Camino
<1>8. \A d \in Cajeros, i \in Nat : EnCamino(d, s, i)' => ida'[d][s][i].ped \in 1 .. hechos'
  <2> SUFFICES ASSUME NEW d \in Cajeros, NEW i \in Nat, EnCamino(d, s, i)'
               PROVE  ida'[d][s][i].ped \in 1 .. hechos'
    OBVIOUS
  <2>1. CASE EnCamino(d, s, i)
    <3>1. ida[d][s][i].ped \in 1 .. hechos
      BY <2>1 DEF Camino
    <3> QED BY <1>0, <1>4, <2>1, <3>1
  <2>2. CASE d = c /\ i = k
    BY <1>0, <1>1, <2>2
  <2> QED BY <1>2, <2>1, <2>2
<1>9. ASSUME NEW d \in Cajeros, NEW e \in Cajeros, NEW i \in Nat, NEW j \in Nat,
             EnCamino(d, s, i)', EnCamino(e, s, j)', ida'[d][s][i].ped = ida'[e][s][j].ped
      PROVE  d = e /\ i = j
  <2>1. \A f \in Cajeros, h \in Nat : EnCamino(f, s, h) => ida'[f][s][h].ped \in 1 .. hechos
    BY <1>4 DEF Camino
  <2>2. CASE EnCamino(d, s, i) /\ EnCamino(e, s, j)
    <3>1. ida[d][s][i].ped = ida[e][s][j].ped
      BY <1>4, <1>9, <2>2
    <3> QED BY <2>2, <3>1 DEF Camino
  <2>3. ASSUME NEW f \in Cajeros, NEW h \in Nat, EnCamino(f, s, h)
        PROVE  ida'[f][s][h].ped # hechos + 1
    BY <1>0, <2>1, <2>3
  <2>4. CASE ~EnCamino(d, s, i)
    <3>1. d = c /\ i = k /\ ida'[d][s][i].ped = hechos + 1
      BY <1>1, <1>2, <1>9, <2>4
    <3>2. ~EnCamino(e, s, j)
      BY <1>9, <2>3, <3>1
    <3> QED BY <1>2, <1>9, <3>1, <3>2
  <2>5. CASE ~EnCamino(e, s, j)
    <3>1. e = c /\ j = k /\ ida'[e][s][j].ped = hechos + 1
      BY <1>1, <1>2, <1>9, <2>5
    <3>2. ~EnCamino(d, s, i)
      BY <1>9, <2>3, <3>1
    <3> QED BY <1>2, <1>9, <3>1, <3>2
  <2> QED BY <2>2, <2>4, <2>5
<1>10. ASSUME NEW p \in Enviados(s)'
       PROVE  /\ \A i \in 1 .. Len(lista'[s]) : lista'[s][i].ped # p
              /\ vista'[s].hay => vista'[s].ped # p
              /\ \A d \in Cajeros : <<d, p, s>> \notin concedidos'
  <2>1. CASE p \in Enviados(s)
    <3>1. /\ \A i \in 1 .. Len(lista[s]) : lista[s][i].ped # p
          /\ vista[s].hay => vista[s].ped # p
          /\ \A d \in Cajeros : <<d, p, s>> \notin concedidos
      BY <2>1 DEF Camino
    <3>2. p \in Numero
      BY <1>0, <2>1 DEF Enviados
    <3> QED BY <3>1, <3>2 DEF MismaEstacion
  <2>2. CASE p = hechos + 1
    <3>1. \A i \in 1 .. Len(lista[s]) : lista[s][i].ped # p
      BY <1>0, <2>2 DEF Numeros
    <3>2. vista[s].hay => vista[s].ped # p
      BY <1>0, <2>2 DEF Pantalla
    <3>3. \A d \in Cajeros : <<d, p, s>> \notin concedidos
      <4>1. hechos + 1 \notin 1 .. hechos
        BY <1>0
      <4> QED BY <1>0, <2>2, <4>1 DEF Camino
    <3> QED BY <1>0, <2>2, <3>1, <3>2, <3>3 DEF MismaEstacion
  <2> QED BY <1>5, <2>1, <2>2
<1>11. \A d \in Cajeros : \A i \in 1 .. Len(ida'[d][s]) :
          ida'[d][s][i].tipo = "CANCEL" => d \in retiros'
  <2> SUFFICES ASSUME NEW d \in Cajeros, NEW i \in 1 .. Len(ida'[d][s]),
                      ida'[d][s][i].tipo = "CANCEL"
               PROVE  d \in retiros'
    OBVIOUS
  <2>1. CASE d # c
    BY <1>1, <2>1 DEF Camino, MismaEstacion
  <2>2. CASE d = c
    <3>1. i \in 1 .. k - 1
      BY <1>0, <1>1, <2>2
    <3>2. ida[c][s][i].tipo = "CANCEL" /\ i \in 1 .. Len(ida[c][s])
      BY <1>0, <1>1, <2>2, <3>1 DEF k
    <3> QED BY <2>2, <3>2 DEF Camino, MismaEstacion
  <2> QED BY <2>1, <2>2
<1>12. \A d \in Cajeros, p \in Numero : <<d, p, s>> \in concedidos' => p \in 1 .. hechos'
  BY <1>0 DEF Camino, MismaEstacion
<1>13. \A d, e \in Cajeros, i, j \in Nat :
          EnCamino(d, s, i)' /\ EnCamino(e, s, j)' /\ ida'[d][s][i].ped = ida'[e][s][j].ped
             => d = e /\ i = j
  BY <1>9
<1>14. \A p \in Enviados(s)' :
          /\ \A i \in 1 .. Len(lista'[s]) : lista'[s][i].ped # p
          /\ vista'[s].hay => vista'[s].ped # p
          /\ \A d \in Cajeros : <<d, p, s>> \notin concedidos'
  BY <1>10
<1> QED
  BY <1>7, <1>8, <1>11, <1>12, <1>13, <1>14 DEF Camino

\* A cancel leaves for the station.
LEMMA CaminoCancela ==
    ASSUME TypeOK, TypeOK', NEW c \in Cajeros, NEW s \in Supervisores,
           Camino(s), MismaEstacion(s), hechos' = hechos, c \in retiros',
           \A d \in Cajeros : d # c => ida'[d][s] = ida[d][s],
           Len(ida'[c][s]) = Len(ida[c][s]) + 1,
           \A i \in 1 .. Len(ida[c][s]) : ida'[c][s][i] = ida[c][s][i],
           ida'[c][s][Len(ida[c][s]) + 1].tipo = "CANCEL"
    PROVE  Camino(s)'
<1> DEFINE k == Len(ida[c][s]) + 1
<1>0. /\ hechos \in Nat /\ Len(ida[c][s]) \in Nat /\ k \in Nat \ {0}
      /\ \A p \in 1 .. hechos : p \in Numero
  BY TipoCamino
<1>1. /\ Len(ida'[c][s]) = k /\ Len(ida[c][s]) = k - 1
      /\ \A i \in 1 .. k - 1 : ida'[c][s][i] = ida[c][s][i]
      /\ ida'[c][s][k].tipo = "CANCEL"
  BY <1>0
<1> HIDE DEF k
<1>2. ASSUME NEW d \in Cajeros, NEW i \in Nat
      PROVE  /\ EnCamino(d, s, i)' <=> EnCamino(d, s, i)
             /\ EnCamino(d, s, i) => ida'[d][s][i] = ida[d][s][i]
  <2>1. CASE d # c
    BY <2>1 DEF EnCamino
  <2>2. CASE d = c /\ i \in 1 .. k - 1
    <3>1. /\ i \in 1 .. Len(ida[c][s]) /\ i \in 1 .. Len(ida'[c][s])
          /\ ida'[c][s][i] = ida[c][s][i]
      BY <1>0, <1>1, <2>2
    <3> QED BY <2>2, <3>1 DEF EnCamino
  <2>3. CASE d = c /\ i \notin 1 .. k - 1
    <3>1. i \notin 1 .. Len(ida[c][s]) /\ (i \in 1 .. Len(ida'[c][s]) => i = k)
      BY <1>0, <1>1, <2>3
    <3> QED BY <1>1, <2>3, <3>1 DEF EnCamino
  <2> QED BY <2>1, <2>2, <2>3
<1>3. Enviados(s)' = Enviados(s)
  <2>1. ASSUME NEW p \in 1 .. hechos
        PROVE  p \in Enviados(s)' <=> p \in Enviados(s)
    <3>1. ASSUME p \in Enviados(s)' PROVE p \in Enviados(s)
      <4>1. PICK d \in Cajeros, i \in Nat : EnCamino(d, s, i)' /\ ida'[d][s][i].ped = p
        BY <3>1 DEF Enviados
      <4>2. EnCamino(d, s, i) /\ ida[d][s][i].ped = p
        BY <1>2, <4>1
      <4> QED BY <4>2 DEF Enviados
    <3>2. ASSUME p \in Enviados(s) PROVE p \in Enviados(s)'
      <4>1. PICK d \in Cajeros, i \in Nat : EnCamino(d, s, i) /\ ida[d][s][i].ped = p
        BY <3>2 DEF Enviados
      <4>2. EnCamino(d, s, i)' /\ ida'[d][s][i].ped = p
        BY <1>2, <4>1
      <4> QED BY <4>2 DEF Enviados
    <3> QED BY <3>1, <3>2
  <2>2. Enviados(s)' \subseteq 1 .. hechos /\ Enviados(s) \subseteq 1 .. hechos
    BY DEF Enviados
  <2> QED BY <2>1, <2>2
<1>4. Llegados(s)' = Llegados(s)
  BY DEF Llegados, MismaEstacion
<1>5. \A d \in Cajeros, i \in Nat : EnCamino(d, s, i)' => ida'[d][s][i].ped \in 1 .. hechos'
  BY <1>2 DEF Camino
<1>6. ASSUME NEW d \in Cajeros, NEW e \in Cajeros, NEW i \in Nat, NEW j \in Nat,
             EnCamino(d, s, i)', EnCamino(e, s, j)', ida'[d][s][i].ped = ida'[e][s][j].ped
      PROVE  d = e /\ i = j
  <2>1. /\ EnCamino(d, s, i) /\ EnCamino(e, s, j) /\ ida[d][s][i].ped = ida[e][s][j].ped
    BY <1>2, <1>6
  <2> QED BY <2>1 DEF Camino
<1>7. ASSUME NEW p \in Enviados(s)
      PROVE  /\ \A i \in 1 .. Len(lista'[s]) : lista'[s][i].ped # p
             /\ vista'[s].hay => vista'[s].ped # p
             /\ \A d \in Cajeros : <<d, p, s>> \notin concedidos'
  <2>1. p \in Numero
    BY <1>0 DEF Enviados
  <2> QED BY <2>1 DEF Camino, MismaEstacion
<1>8. ASSUME NEW d \in Cajeros, NEW i \in 1 .. Len(ida'[d][s]), ida'[d][s][i].tipo = "CANCEL"
      PROVE  d \in retiros'
  <2>1. CASE d = c
    BY <2>1
  <2>2. CASE d # c
    BY <1>8, <2>2 DEF Camino, MismaEstacion
  <2> QED BY <2>1, <2>2
<1>9. \A d \in Cajeros, p \in Numero : <<d, p, s>> \in concedidos' => p \in 1 .. hechos'
  BY DEF Camino, MismaEstacion
<1>10. Llegados(s)' + Cardinality(Enviados(s)') <= hechos'
  BY <1>3, <1>4 DEF Camino
<1>11. \A d, e \in Cajeros, i, j \in Nat :
          EnCamino(d, s, i)' /\ EnCamino(e, s, j)' /\ ida'[d][s][i].ped = ida'[e][s][j].ped
             => d = e /\ i = j
  BY <1>6
<1>12. \A p \in Enviados(s)' :
          /\ \A i \in 1 .. Len(lista'[s]) : lista'[s][i].ped # p
          /\ vista'[s].hay => vista'[s].ped # p
          /\ \A d \in Cajeros : <<d, p, s>> \notin concedidos'
  BY <1>3, <1>7
<1>13. \A d \in Cajeros : \A i \in 1 .. Len(ida'[d][s]) :
          ida'[d][s][i].tipo = "CANCEL" => d \in retiros'
  BY <1>8
<1> QED
  BY <1>5, <1>9, <1>10, <1>11, <1>12, <1>13 DEF Camino

LEMMA CaminoConcedidos ==
    ASSUME NEW s \in Supervisores, Camino(s)
    PROVE  \A d \in Cajeros, p \in Numero : <<d, p, s>> \in concedidos => p \in 1 .. hechos
BY DEF Camino

LEMMA CaminoSi ==
    ASSUME NEW s \in Supervisores,
           Llegados(s)' + Cardinality(Enviados(s)') <= hechos',
           \A d \in Cajeros, i \in Nat : EnCamino(d, s, i)' => ida'[d][s][i].ped \in 1 .. hechos',
           \A d, e \in Cajeros, i, j \in Nat :
              EnCamino(d, s, i)' /\ EnCamino(e, s, j)' /\ ida'[d][s][i].ped = ida'[e][s][j].ped
                 => d = e /\ i = j,
           \A p \in Enviados(s)' :
              /\ \A i \in 1 .. Len(lista'[s]) : lista'[s][i].ped # p
              /\ vista'[s].hay => vista'[s].ped # p
              /\ \A d \in Cajeros : <<d, p, s>> \notin concedidos',
           \A d \in Cajeros : \A i \in 1 .. Len(ida'[d][s]) :
              ida'[d][s][i].tipo = "CANCEL" => d \in retiros',
           \A d \in Cajeros, p \in Numero : <<d, p, s>> \in concedidos' => p \in 1 .. hechos'
    PROVE  Camino(s)'
BY DEF Camino

\* The first message to a station is taken, by it or by the server.
LEMMA CaminoLlega ==
    ASSUME TypeOK, TypeOK', NEW c \in Cajeros, NEW s \in Supervisores, Camino(s),
           hechos' = hechos, retiros' = retiros, concedidos' = concedidos,
           vista'[s] = vista[s],
           ida[c][s] # <<>>, ida' = [ida EXCEPT ![c][s] = Tail(@)],
           Llegados(s)' = Llegados(s)
              \/ (ida[c][s][1].tipo = "REQ" /\ Llegados(s)' = Llegados(s) + 1),
           \A i \in 1 .. Len(lista'[s]) :
              \/ \E j \in 1 .. Len(lista[s]) : lista'[s][i].ped = lista[s][j].ped
              \/ ida[c][s][1].tipo = "REQ" /\ lista'[s][i].ped = ida[c][s][1].ped
    PROVE  Camino(s)'
<1> DEFINE k == Len(ida[c][s])
           J(d, i) == IF d = c THEN i + 1 ELSE i
<1>0. /\ hechos \in Nat /\ k \in Nat \ {0} /\ \A p \in 1 .. hechos : p \in Numero
      /\ ida[c][s][1].tipo \in {"REQ", "CANCEL"}
  <2>1. /\ hechos \in Nat /\ \A p \in 1 .. hechos : p \in Numero
    BY DEF TypeOK, Numero
  <2>2. k \in Nat \ {0} /\ ida[c][s][1] \in MsgIda
    BY IdaMenos
  <2> QED BY <2>1, <2>2 DEF MsgIda
<1>1. /\ \A d \in Cajeros : d # c => ida'[d][s] = ida[d][s]
      /\ Len(ida'[c][s]) = k - 1
      /\ \A i \in 1 .. k - 1 : ida'[c][s][i] = ida[c][s][i + 1]
  <2>1. /\ \A d \in Cajeros, t \in Supervisores : d # c \/ t # s => ida'[d][t] = ida[d][t]
        /\ Len(ida'[c][s]) = Len(ida[c][s]) - 1
        /\ \A i \in 1 .. Len(ida[c][s]) - 1 : ida'[c][s][i] = ida[c][s][i + 1]
    BY IdaMenos
  <2> QED BY <2>1
<1>k. k = Len(ida[c][s])
  OBVIOUS
<1> HIDE DEF k
<1>2. ASSUME NEW d \in Cajeros, NEW i \in Nat
      PROVE  /\ J(d, i) \in Nat
             /\ EnCamino(d, s, i)' => EnCamino(d, s, J(d, i)) /\ ida'[d][s][i] = ida[d][s][J(d, i)]
             /\ i # 0 /\ EnCamino(d, s, J(d, i)) => EnCamino(d, s, i)'
  <2>1. CASE d # c
    BY <1>1, <2>1 DEF EnCamino
  <2>2. CASE d = c /\ i \in 1 .. k - 1
    <3>1. i + 1 \in 1 .. k /\ J(d, i) = i + 1 /\ i + 1 \in Nat
      BY <1>0, <2>2
    <3>2. ida'[c][s][i] = ida[c][s][i + 1]
      BY <1>1, <2>2
    <3> QED BY <1>0, <1>1, <1>k, <2>2, <3>1, <3>2 DEF EnCamino
  <2>3. CASE d = c /\ i \notin 1 .. k - 1
    <3>1. J(d, i) = i + 1 /\ i + 1 \in Nat /\ (i # 0 => i + 1 \notin 1 .. k)
      BY <1>0, <2>3
    <3> QED BY <1>0, <1>1, <1>k, <2>3, <3>1 DEF EnCamino
  <2> QED BY <2>1, <2>2, <2>3
<1>3. ASSUME NEW d \in Cajeros, NEW j \in Nat, EnCamino(d, s, j), ~(d = c /\ j = 1)
      PROVE  \E i \in Nat : EnCamino(d, s, i)' /\ ida'[d][s][i] = ida[d][s][j]
  <2>1. j # 0
    BY <1>3 DEF EnCamino
  <2> DEFINE i == IF d = c THEN j - 1 ELSE j
  <2>2. i \in Nat \ {0} /\ J(d, i) = j
    BY <1>3, <2>1
  <2> HIDE DEF J, i
  <2>3. EnCamino(d, s, J(d, i)) /\ ~(d = c /\ J(d, i) = 1)
    BY <1>3, <2>2
  <2>4. EnCamino(d, s, i)' /\ ida'[d][s][i] = ida[d][s][J(d, i)]
    BY <1>2, <2>2, <2>3
  <2> QED BY <2>2, <2>4
<1>J. \A d \in Cajeros, i, j \in Nat : J(d, i) = J(d, j) => i = j
  OBVIOUS
<1>J1. \A d \in Cajeros, i \in Nat : i # 0 => ~(d = c /\ J(d, i) = 1)
  OBVIOUS
<1>J2. \A d \in Cajeros, i \in Nat : EnCamino(d, s, i)' => i # 0
  BY DEF EnCamino
<1> HIDE DEF J
<1>4. ASSUME NEW p \in Enviados(s)' PROVE p \in Enviados(s)
  <2>1. PICK d \in Cajeros, i \in Nat : EnCamino(d, s, i)' /\ ida'[d][s][i].ped = p
    BY DEF Enviados
  <2>2. /\ J(d, i) \in Nat /\ EnCamino(d, s, J(d, i))
        /\ ida[d][s][J(d, i)].ped = p /\ p \in 1 .. hechos
    BY <1>2, <2>1 DEF Enviados
  <2> QED BY <2>2 DEF Enviados
<1>5. Llegados(s)' + Cardinality(Enviados(s)') <= hechos
  <2>1. CASE ida[c][s][1].tipo = "REQ"
    <3> DEFINE p == ida[c][s][1].ped
    <3>0. EnCamino(c, s, 1)
      BY <1>0, <1>k, <2>1 DEF EnCamino
    <3>1. p \in Enviados(s)
      BY <3>0 DEF Enviados, Camino
    <3>2. p \notin Enviados(s)'
      <4> SUFFICES ASSUME p \in Enviados(s)' PROVE FALSE
        OBVIOUS
      <4>1. PICK d \in Cajeros, i \in Nat : EnCamino(d, s, i)' /\ ida'[d][s][i].ped = ida[c][s][1].ped
        BY DEF Enviados
      <4>2. /\ J(d, i) \in Nat /\ EnCamino(d, s, J(d, i))
            /\ ida[d][s][J(d, i)].ped = ida[c][s][1].ped /\ ~(d = c /\ J(d, i) = 1)
        BY <1>2, <1>J1, <1>J2, <4>1
      <4> QED BY <3>0, <4>2 DEF Camino
    <3> HIDE DEF p
    <3>3. Enviados(s)' \subseteq Enviados(s) \ {p}
      BY <1>4, <3>2
    <3>4. /\ IsFiniteSet(Enviados(s) \ {p})
          /\ Cardinality(Enviados(s) \ {p}) = Cardinality(Enviados(s)) - 1
      BY <3>1, EnviadosFinito, FS_RemoveElement
    <3>5. Cardinality(Enviados(s)') <= Cardinality(Enviados(s)) - 1
      BY <3>3, <3>4, FS_Subset
    <3>6. Cardinality(Enviados(s)') \in Nat
      BY <3>3, <3>4, FS_Subset, FS_CardinalityType
    <3>7. Llegados(s)' = Llegados(s) \/ Llegados(s)' = Llegados(s) + 1
      OBVIOUS
    <3> QED BY <3>5, <3>6, <3>7, EnviadosFinito DEF Camino
  <2>2. CASE ida[c][s][1].tipo # "REQ"
    <3>1. Enviados(s)' \subseteq Enviados(s)
      BY <1>4
    <3>2. Cardinality(Enviados(s)') <= Cardinality(Enviados(s))
      BY <3>1, EnviadosFinito, FS_Subset
    <3>3. Cardinality(Enviados(s)') \in Nat
      BY <3>1, EnviadosFinito, FS_Subset, FS_CardinalityType
    <3>4. Llegados(s)' = Llegados(s) /\ Llegados(s) + Cardinality(Enviados(s)) <= hechos
      BY <2>2 DEF Camino
    <3> QED BY <3>2, <3>3, <3>4, EnviadosFinito
  <2> QED BY <2>1, <2>2
<1>6. ASSUME NEW d \in Cajeros, NEW i \in Nat, EnCamino(d, s, i)'
      PROVE  ida'[d][s][i].ped \in 1 .. hechos
  <2>1. /\ J(d, i) \in Nat /\ EnCamino(d, s, J(d, i)) /\ ida'[d][s][i] = ida[d][s][J(d, i)]
    BY <1>2, <1>6
  <2>2. ida[d][s][J(d, i)].ped \in 1 .. hechos
    BY <2>1 DEF Camino
  <2> QED BY <2>1, <2>2
<1>7. ASSUME NEW d \in Cajeros, NEW e \in Cajeros, NEW i \in Nat, NEW j \in Nat,
             EnCamino(d, s, i)', EnCamino(e, s, j)', ida'[d][s][i].ped = ida'[e][s][j].ped
      PROVE  d = e /\ i = j
  <2>1. /\ J(d, i) \in Nat /\ J(e, j) \in Nat
        /\ EnCamino(d, s, J(d, i)) /\ EnCamino(e, s, J(e, j))
        /\ ida[d][s][J(d, i)].ped = ida[e][s][J(e, j)].ped
    BY <1>2, <1>7
  <2>2. d = e /\ J(d, i) = J(e, j)
    BY <2>1 DEF Camino
  <2> QED BY <1>J, <2>2
<1>8. ASSUME NEW p \in Enviados(s)'
      PROVE  /\ \A i \in 1 .. Len(lista'[s]) : lista'[s][i].ped # p
             /\ vista'[s].hay => vista'[s].ped # p
             /\ \A d \in Cajeros : <<d, p, s>> \notin concedidos'
  <2>1. /\ \A i \in 1 .. Len(lista[s]) : lista[s][i].ped # p
        /\ vista[s].hay => vista[s].ped # p
        /\ \A d \in Cajeros : <<d, p, s>> \notin concedidos
    BY <1>4 DEF Camino
  <2>2. ida[c][s][1].tipo = "REQ" => ida[c][s][1].ped # p
    <3> SUFFICES ASSUME ida[c][s][1].tipo = "REQ", ida[c][s][1].ped = p PROVE FALSE
      OBVIOUS
    <3>0. EnCamino(c, s, 1)
      BY <1>0, <1>k DEF EnCamino
    <3>1. PICK d \in Cajeros, i \in Nat : EnCamino(d, s, i)' /\ ida'[d][s][i].ped = ida[c][s][1].ped
      BY DEF Enviados
    <3>2. /\ J(d, i) \in Nat /\ EnCamino(d, s, J(d, i))
          /\ ida[d][s][J(d, i)].ped = ida[c][s][1].ped /\ ~(d = c /\ J(d, i) = 1)
      BY <1>2, <1>J1, <1>J2, <3>1
    <3> QED BY <3>0, <3>2 DEF Camino
  <2> QED BY <2>1, <2>2
<1>9. ASSUME NEW d \in Cajeros, NEW i \in 1 .. Len(ida'[d][s]), ida'[d][s][i].tipo = "CANCEL"
      PROVE  d \in retiros
  <2>1. CASE d = c
    <3>1. i \in 1 .. k - 1 /\ i + 1 \in 1 .. k
      BY <1>0, <1>1, <1>9, <2>1
    <3>2. ida[c][s][i + 1].tipo = "CANCEL" /\ i + 1 \in 1 .. Len(ida[c][s])
      BY <1>1, <1>9, <1>k, <2>1, <3>1
    <3> QED BY <2>1, <3>2 DEF Camino
  <2>2. CASE d # c
    BY <1>1, <1>9, <2>2 DEF Camino
  <2> QED BY <2>1, <2>2
<1>10. \A d \in Cajeros, p \in Numero : <<d, p, s>> \in concedidos => p \in 1 .. hechos
  BY CaminoConcedidos
<1> QED
  <2>1. Llegados(s)' + Cardinality(Enviados(s)') <= hechos'
    BY <1>5
  <2>2. \A d \in Cajeros, i \in Nat : EnCamino(d, s, i)' => ida'[d][s][i].ped \in 1 .. hechos'
    BY <1>6
  <2>3. \A d \in Cajeros : \A i \in 1 .. Len(ida'[d][s]) :
           ida'[d][s][i].tipo = "CANCEL" => d \in retiros'
    BY <1>9
  <2>4. \A d \in Cajeros, p \in Numero : <<d, p, s>> \in concedidos' => p \in 1 .. hechos'
    BY <1>10
  <2>5. \A d, e \in Cajeros, i, j \in Nat :
           EnCamino(d, s, i)' /\ EnCamino(e, s, j)' /\ ida'[d][s][i].ped = ida'[e][s][j].ped
              => d = e /\ i = j
    BY <1>7
  <2>6. \A p \in Enviados(s)' :
          /\ \A i \in 1 .. Len(lista'[s]) : lista'[s][i].ped # p
          /\ vista'[s].hay => vista'[s].ped # p
          /\ \A d \in Cajeros : <<d, p, s>> \notin concedidos'
    BY <1>8
  <2> QED BY <2>1, <2>2, <2>3, <2>4, <2>5, <2>6, CaminoSi

-----------------------------------------------------------------------------
(* The station of a supervisor.                                            *)

Est(s) == Camino(s) /\ Numeros(s) /\ Pantalla(s) /\ SinBlanco(s)

LEMMA OtraEstacion ==
    ASSUME TypeOK, TypeOK', NEW s \in Supervisores, Est(s), MismaEstacion(s),
           \A d \in Cajeros : ida'[d][s] = ida[d][s]
    PROVE  Est(s)'
BY EstacionIgual DEF Est

\* R is L without its element k.
SinUnoDe(L, k, R) ==
    /\ Len(L) \in Nat \ {0} /\ Len(R) = Len(L) - 1
    /\ \A i \in 1 .. Len(L) - 1 : R[i] = IF i < k THEN L[i] ELSE L[i + 1]

LEMMA SinUnoOpaco ==
    ASSUME NEW S, NEW L \in Seq(S), NEW k \in 1 .. Len(L), NEW R, R = RemoveAt(L, k)
    PROVE  SinUnoDe(L, k, R)
<1>1. /\ Len(L) \in Nat \ {0} /\ Len(RemoveAt(L, k)) = Len(L) - 1
      /\ \A i \in 1 .. Len(L) - 1 : RemoveAt(L, k)[i] = IF i < k THEN L[i] ELSE L[i + 1]
  BY SinUno
<1> QED BY <1>1, Zenon DEF SinUnoDe

\* The elements that stay when one goes, and where they were.
LEMMA Quedan ==
    ASSUME TypeOK, NEW s \in Supervisores, NEW k \in 1 .. Len(lista[s]),
           lista'[s] = RemoveAt(lista[s], k)
    PROVE  /\ \A i \in 1 .. Len(lista'[s]) :
                 LET j == IF i < k THEN i ELSE i + 1
                 IN j \in 1 .. Len(lista[s]) /\ j # k /\ lista'[s][i] = lista[s][j]
           /\ \A j \in 1 .. Len(lista[s]) :
                 j # k => \E i \in 1 .. Len(lista'[s]) : lista'[s][i] = lista[s][j]
<1> DEFINE L == Len(lista[s])
<1>1. lista[s] \in Seq(OVR_REQ)
  BY DEF TypeOK
<1>2. /\ L \in Nat \ {0} /\ Len(lista'[s]) = L - 1 /\ k \in 1 .. L
      /\ \A i \in 1 .. L - 1 : lista'[s][i] = IF i < k THEN lista[s][i] ELSE lista[s][i + 1]
  <2>1. PICK Q : Q = lista[s]
    OBVIOUS
  <2>2. PICK R : R = RemoveAt(Q, k)
    OBVIOUS
  <2>3. Q \in Seq(OVR_REQ) /\ k \in 1 .. Len(Q)
    BY <1>1, <2>1, Zenon
  <2>4. SinUnoDe(Q, k, R)
    BY <2>2, <2>3, SinUnoOpaco, Zenon
  <2>5. lista'[s] = R
    BY <2>1, <2>2, Zenon
  <2> QED BY <2>1, <2>4, <2>5 DEF SinUnoDe
<1>3. L = Len(lista[s])
  OBVIOUS
<1> HIDE DEF L
<1>4. ASSUME NEW j \in 1 .. L, j # k
      PROVE  \E i \in 1 .. L - 1 : lista'[s][i] = lista[s][j]
  <2>1. CASE j < k
    <3>1. j \in 1 .. L - 1
      BY <1>2, <2>1
    <3> QED BY <1>2, <2>1, <3>1
  <2>2. CASE ~(j < k)
    <3>1. j - 1 \in 1 .. L - 1 /\ ~(j - 1 < k) /\ (j - 1) + 1 = j
      BY <1>2, <1>4, <2>2
    <3> QED BY <1>2, <3>1
  <2> QED BY <2>1, <2>2
<1>5. ASSUME NEW i \in 1 .. L - 1
      PROVE  LET j == IF i < k THEN i ELSE i + 1
             IN j \in 1 .. L /\ j # k /\ lista'[s][i] = lista[s][j]
  BY <1>2
<1> QED
  BY <1>2, <1>3, <1>4, <1>5

LEMMA QuedanOtros ==
    ASSUME TypeOK, NEW s \in Supervisores, NEW k \in 1 .. Len(lista[s]),
           lista'[s] = RemoveAt(lista[s], k)
    PROVE  /\ \A i \in 1 .. Len(lista'[s]) : \E j \in 1 .. Len(lista[s]) :
                 j # k /\ lista'[s][i] = lista[s][j]
           /\ \A j \in 1 .. Len(lista[s]) :
                 j # k => \E i \in 1 .. Len(lista'[s]) : lista'[s][i] = lista[s][j]
<1> DEFINE J(i) == IF i < k THEN i ELSE i + 1
<1>1. \A i \in 1 .. Len(lista'[s]) :
         J(i) \in 1 .. Len(lista[s]) /\ J(i) # k /\ lista'[s][i] = lista[s][J(i)]
  BY Quedan
<1>2. \A j \in 1 .. Len(lista[s]) :
         j # k => \E i \in 1 .. Len(lista'[s]) : lista'[s][i] = lista[s][j]
  BY Quedan
<1> HIDE DEF J
<1> QED
  BY <1>1, <1>2

LEMMA NumerosQuita ==
    ASSUME TypeOK, NEW s \in Supervisores, NEW k \in 1 .. Len(lista[s]), Numeros(s),
           lista'[s] = RemoveAt(lista[s], k), item_count'[s] = item_count[s], hechos' = hechos
    PROVE  Numeros(s)'
<1> DEFINE J(i) == IF i < k THEN i ELSE i + 1
<1>1. \A i \in 1 .. Len(lista'[s]) : J(i) \in 1 .. Len(lista[s]) /\ lista'[s][i] = lista[s][J(i)]
  BY Quedan
<1>2. \A i, j \in 1 .. Len(lista'[s]) : J(i) = J(j) => i = j
  <2>1. Len(lista[s]) \in Nat
    BY DEF TypeOK
  <2> QED BY <2>1
<1>3. Llegados(s)' = Llegados(s)
  BY DEF Llegados
<1> HIDE DEF J
<1>4. \A i \in 1 .. Len(lista'[s]) : /\ lista'[s][i].seq_num \in 1 .. Llegados(s)'
                                    /\ lista'[s][i].ped \in 1 .. hechos'
  BY <1>1, <1>3 DEF Numeros
<1>5. ASSUME NEW i \in 1 .. Len(lista'[s]), NEW j \in 1 .. Len(lista'[s]),
             lista'[s][i].seq_num = lista'[s][j].seq_num \/ lista'[s][i].ped = lista'[s][j].ped
      PROVE  i = j
  <2>1. J(i) = J(j)
    <3>1. /\ J(i) \in 1 .. Len(lista[s]) /\ lista'[s][i] = lista[s][J(i)]
          /\ J(j) \in 1 .. Len(lista[s]) /\ lista'[s][j] = lista[s][J(j)]
      BY <1>1
    <3> QED BY <1>5, <3>1 DEF Numeros
  <2> QED BY <1>2, <2>1
<1> QED
  BY <1>4, <1>5 DEF Numeros

\* The list as it was.
LEMMA NumerosIgual ==
    ASSUME NEW s \in Supervisores, Numeros(s),
           lista'[s] = lista[s], item_count'[s] = item_count[s], hechos' = hechos
    PROVE  Numeros(s)'
BY DEF Numeros, Llegados

\* A screen with an element of the list; no element of it was granted.
LEMMA PantallaMuestra ==
    ASSUME TypeOK, NEW s \in Supervisores, NEW i \in 1 .. Len(lista[s]), Muestra(s, i),
           spc[s] # "borra", Numeros(s), Pantalla(s),
           UNCHANGED <<lista, item_count, hechos, concedidos, retiros>>
    PROVE  Pantalla(s)' /\ SinBlanco(s)' /\ vista'[s].ped = lista[s][i].ped
<1>1. PICK e \in OVR_REQ :
         /\ e = lista[s][i] /\ e.oper \in Cajeros /\ e.ped \in Numero
         /\ vista' = [vista EXCEPT ![s] = [hay |-> TRUE, oper |-> e.oper, ped |-> e.ped]]
         /\ ro_seq_num' = [ro_seq_num EXCEPT ![s] = e.seq_num]
         /\ spc' = [spc EXCEPT ![s] = "pantalla"]
  BY MuestraHace
<1>2. /\ vista'[s].hay /\ vista'[s].oper = e.oper /\ vista'[s].ped = e.ped
      /\ ro_seq_num'[s] = e.seq_num /\ spc'[s] = "pantalla"
  BY <1>1 DEF TypeOK
<1>3. \A j \in 1 .. Len(lista[s]) : <<lista[s][j].oper, lista[s][j].ped, s>> \notin concedidos
  BY DEF Pantalla
<1>4. /\ e.seq_num \in 1 .. Llegados(s) /\ e.ped \in 1 .. hechos
      /\ \A j \in 1 .. Len(lista[s]) :
            lista[s][j].seq_num = e.seq_num \/ lista[s][j].ped = e.ped => j = i
  BY <1>1 DEF Numeros
<1>5. Llegados(s)' = Llegados(s)
  BY DEF Llegados
<1>6. Mostrada(s)' =>
          /\ ro_seq_num'[s] \in 1 .. Llegados(s)'
          /\ \A j \in 1 .. Len(lista'[s]) :
                /\ lista'[s][j].seq_num = ro_seq_num'[s] <=> lista'[s][j].ped = vista'[s].ped
                /\ lista'[s][j].ped = vista'[s].ped => lista'[s][j].oper = vista'[s].oper
  BY <1>1, <1>2, <1>4, <1>5
<1>7. /\ <<vista'[s].oper, vista'[s].ped, s>> \notin concedidos'
      /\ \E j \in 1 .. Len(lista'[s]) : lista'[s][j].ped = vista'[s].ped
  BY <1>1, <1>2, <1>3
<1>8. Pantalla(s)'
  BY <1>2, <1>3, <1>4, <1>6, <1>7 DEF Pantalla
<1> QED
  BY <1>1, <1>2, <1>8 DEF SinBlanco

\* Out of the menu.
LEMMA PantallaSale ==
    ASSUME TypeOK, NEW s \in Supervisores, SaleDelMenu(s), spc[s] # "borra", Pantalla(s),
           UNCHANGED <<lista, item_count, hechos, concedidos, retiros>>
    PROVE  Pantalla(s)' /\ SinBlanco(s)' /\ ~vista'[s].hay /\ spc'[s] = "menu"
<1>1. spc'[s] = "menu" /\ ~vista'[s].hay
  BY TipoNadie DEF SaleDelMenu, TypeOK
<1> QED
  BY <1>1 DEF Pantalla, SinBlanco, Mostrada

\* What the menu leaves alone.
LEMMA MenuDeja ==
    ASSUME TypeOK, NEW s \in Supervisores, PasoMenu(s)
    PROVE  /\ UNCHANGED <<cajero, eventos, ida, hechos, retiros, item_count, cobrados, fallos>>
           /\ \A t \in Supervisores : t # s =>
                 /\ lista'[t] = lista[t] /\ spc'[t] = spc[t] /\ vista'[t] = vista[t]
                 /\ ro_seq_num'[t] = ro_seq_num[t] /\ ro_ovr_count'[t] = ro_ovr_count[t]
           /\ \A d \in Cajeros, p \in Numero, t \in Supervisores :
                 t # s /\ <<d, p, t>> \in concedidos' => <<d, p, t>> \in concedidos
<1> DEFINE Q == \A t \in Supervisores : t # s =>
                   /\ lista'[t] = lista[t] /\ spc'[t] = spc[t] /\ vista'[t] = vista[t]
                   /\ ro_seq_num'[t] = ro_seq_num[t] /\ ro_ovr_count'[t] = ro_ovr_count[t]
           C == \A d \in Cajeros, p \in Numero, t \in Supervisores :
                   t # s /\ <<d, p, t>> \in concedidos' => <<d, p, t>> \in concedidos
           U == UNCHANGED <<cajero, eventos, ida, hechos, retiros, item_count, cobrados, fallos>>
<1>0. SaleDelMenu(s) /\ UNCHANGED lista => Q
  BY DEF TypeOK, SaleDelMenu
<1>1. CASE PDISoverride(s)
  BY <1>1 DEF TypeOK, PDISoverride, estacion, canales, historia
<1>2. CASE PDISoverride_unico(s)
  <2>1. U /\ C /\ UNCHANGED <<lista, ro_ovr_count>>
    BY <1>2 DEF PDISoverride_unico, estacion, historia
  <2>2. Q
    <3>1. CASE lista[s] = <<>>
      BY <1>2, <2>1, <3>1 DEF TypeOK, PDISoverride_unico
    <3>2. CASE lista[s] # <<>>
      <4>1. Muestra(s, 1)
        BY <1>2, <3>2 DEF PDISoverride_unico
      <4> QED BY <2>1, <4>1 DEF TypeOK, Muestra
    <3> QED BY <3>1, <3>2
  <2> QED BY <2>1, <2>2
<1>3. CASE PCOLoverride(s)
  <2>1. U /\ C /\ UNCHANGED lista
    BY <1>3 DEF PCOLoverride, estacion, canales, historia
  <2>2. Q
    BY <1>0, <1>3, <2>1 DEF TypeOK, PCOLoverride
  <2> QED BY <2>1, <2>2
<1>4. CASE PCOLoverride_trae(s)
  <2>1. U /\ C /\ UNCHANGED lista
    BY <1>4 DEF PCOLoverride_trae, estacion, historia
  <2>2. ASSUME NEW i \in 1 .. Len(lista[s]), Muestra(s, i), UNCHANGED ro_ovr_count PROVE Q
    BY <2>1, <2>2 DEF TypeOK, Muestra
  <2>3. Q
    BY <1>0, <1>4, <2>1, <2>2, Elegido
  <2> QED BY <2>1, <2>3
<1>5. CASE ESCoverride(s)
  <2>1. U /\ C /\ UNCHANGED lista
    BY <1>5 DEF ESCoverride, estacion, canales, historia
  <2>2. Q
    BY <1>0, <1>5, <2>1 DEF TypeOK, ESCoverride
  <2> QED BY <2>1, <2>2
<1>6. ASSUME NEW d \in Decision, PBrequest(s, d) PROVE U /\ Q /\ C
  <2>1. U /\ Q
    BY <1>6 DEF TypeOK, PBrequest, estacion
  <2>2. \/ concedidos' = concedidos
        \/ concedidos' = concedidos \cup {<<vista[s].oper, vista[s].ped, s>>}
    BY <1>6 DEF PBrequest
  <2>3. C
    BY <2>2
  <2> QED BY <2>1, <2>3
<1>7. CASE OVRro_pic_or_exit(s)
  BY <1>7 DEF TypeOK, OVRro_pic_or_exit, canales, historia
<1>8. CASE OVRro_pic_or_exit_cuenta(s)
  BY <1>8 DEF TypeOK, OVRro_pic_or_exit_cuenta, estacion, canales, historia
<1>9. CASE OVRro_clr_ovr_pend(s)
  <2>1. U /\ C /\ UNCHANGED lista
    BY <1>9 DEF OVRro_clr_ovr_pend, canales, historia
  <2>2. Q
    BY <1>0, <1>9, <2>1 DEF OVRro_clr_ovr_pend
  <2> QED BY <2>1, <2>2
<1> QED
  BY <1>1, <1>2, <1>3, <1>4, <1>5, <1>6, <1>7, <1>8, <1>9 DEF PasoMenu

\* The list and the screen as they were, another place in the menu.
LEMMA PantallaSigue ==
    ASSUME TypeOK, NEW s \in Supervisores, Pantalla(s),
           UNCHANGED <<lista, item_count, hechos, concedidos, retiros, vista>>,
           spc[s] # "borra", spc'[s] \notin {"pantalla", "borra", "unico"},
           spc'[s] = "elige" => ro_ovr_count'[s] # 1 \/ ~vista[s].hay
    PROVE  Pantalla(s)'
BY DEF Pantalla, Mostrada

LEMMA PantallaOtorgada ==
    ASSUME NEW s \in Supervisores, Pantalla(s), NEW i \in 1 .. Len(lista[s]),
           <<lista[s][i].oper, lista[s][i].ped, s>> \in concedidos
    PROVE  spc[s] = "borra" /\ vista[s].hay /\ lista[s][i].ped = vista[s].ped
BY DEF Pantalla

LEMMA MenuEst ==
    ASSUME TypeOK, TypeOK', NEW s \in Supervisores, PasoMenu(s), Est(s)
    PROVE  Est(s)'
<1> USE DEF Est
<1>0. /\ UNCHANGED <<ida, hechos, retiros, item_count>>
      /\ vista[s].hay => vista[s].ped \in 1 .. hechos
      /\ hechos \in Nat
  <2>1. UNCHANGED <<ida, hechos, retiros, item_count>>
    BY MenuDeja
  <2>2. vista[s].hay => vista[s].ped \in 1 .. hechos
    BY DEF Pantalla
  <2>3. hechos \in Nat
    BY DEF TypeOK, Numero
  <2> QED BY <2>1, <2>2, <2>3
<1>C. ASSUME UNCHANGED <<lista, concedidos>>,
             ~vista'[s].hay \/ vista'[s] = vista[s]
                \/ \E j \in 1 .. Len(lista[s]) : vista'[s].ped = lista[s][j].ped
      PROVE  Camino(s)' /\ Numeros(s)'
  <2>1. Numeros(s)'
    BY <1>0, <1>C, NumerosIgual
  <2>2. Camino(s)'
    BY <1>0, <1>C, CaminoIgual
  <2> QED BY <2>1, <2>2
<1>M. ASSUME NEW i \in 1 .. Len(lista[s]), Muestra(s, i), spc[s] # "borra",
             UNCHANGED <<lista, concedidos>>
      PROVE  Est(s)'
  <2>1. Pantalla(s)' /\ SinBlanco(s)' /\ vista'[s].ped = lista[s][i].ped
    BY <1>0, <1>M, PantallaMuestra
  <2> QED BY <1>C, <1>M, <2>1
<1>S. ASSUME SaleDelMenu(s), spc[s] # "borra", UNCHANGED <<lista, concedidos>>
      PROVE  Est(s)'
  <2>1. Pantalla(s)' /\ SinBlanco(s)' /\ ~vista'[s].hay
    BY <1>0, <1>S, PantallaSale
  <2> QED BY <1>C, <1>S, <2>1
<1>1. CASE PDISoverride(s)
  <2>1. /\ UNCHANGED <<lista, concedidos>> /\ ~vista'[s].hay /\ spc[s] = "menu"
        /\ ro_ovr_count'[s] = Len(lista[s]) /\ lista[s] # <<>>
        /\ spc'[s] = IF Len(lista[s]) = 1 THEN "unico" ELSE "elige"
    BY <1>1, TipoNadie DEF TypeOK, PDISoverride, estacion, historia
  <2>2. Pantalla(s)' /\ SinBlanco(s)'
    BY <1>0, <2>1 DEF Pantalla, Mostrada, SinBlanco
  <2> QED BY <1>C, <2>1, <2>2
<1>2. CASE PDISoverride_unico(s)
  <2>1. UNCHANGED <<lista, concedidos>> /\ spc[s] = "unico"
    BY <1>2 DEF PDISoverride_unico, estacion, historia
  <2>2. CASE lista[s] = <<>>
    <3>1. UNCHANGED vista /\ spc'[s] = "elige"
      BY <1>2, <2>2 DEF TypeOK, PDISoverride_unico
    <3>2. ~vista[s].hay
      BY <2>1 DEF Pantalla
    <3>3. Pantalla(s)'
      BY <1>0, <2>1, <3>1, <3>2, PantallaSigue
    <3>4. SinBlanco(s)'
      BY <1>0, <2>1, <2>2 DEF SinBlanco
    <3> QED BY <1>C, <2>1, <3>1, <3>3, <3>4
  <2>3. CASE lista[s] # <<>>
    <3>1. 1 \in 1 .. Len(lista[s])
      BY <2>3 DEF TypeOK
    <3> QED BY <1>2, <1>M, <2>1, <2>3, <3>1 DEF PDISoverride_unico
  <2> QED BY <2>2, <2>3
<1>3. CASE PCOLoverride(s)
  <2>1. UNCHANGED <<lista, concedidos>> /\ spc[s] = "elige"
    BY <1>3 DEF PCOLoverride, estacion, historia
  <2>2. CASE SaleDelMenu(s)
    BY <1>S, <2>1, <2>2
  <2>3. CASE /\ spc' = [spc EXCEPT ![s] = IF ro_ovr_count[s] = 1 THEN "pantalla" ELSE "trae"]
             /\ UNCHANGED <<ro_ovr_count, vista>>
    <3>1. spc'[s] = IF ro_ovr_count[s] = 1 THEN "pantalla" ELSE "trae"
      BY <2>3 DEF TypeOK
    <3>2. SinBlanco(s)'
      BY <1>0, <2>1, <3>1 DEF SinBlanco
    <3>3. Pantalla(s)'
      BY <1>0, <2>1, <2>3, <3>1 DEF Pantalla, Mostrada
    <3> QED BY <1>C, <2>1, <2>3, <3>2, <3>3
  <2> QED BY <1>3, <2>2, <2>3 DEF PCOLoverride
<1>4. CASE PCOLoverride_trae(s)
  <2>1. UNCHANGED <<lista, concedidos>> /\ spc[s] = "trae"
    BY <1>4 DEF PCOLoverride_trae, estacion, historia
  <2> QED BY <1>4, <1>M, <1>S, <2>1, Elegido
<1>5. CASE ESCoverride(s)
  <2>1. UNCHANGED <<lista, concedidos>> /\ spc[s] = "pantalla"
    BY <1>5 DEF ESCoverride, estacion, historia
  <2>2. CASE SaleDelMenu(s)
    BY <1>S, <2>1, <2>2
  <2>3. CASE /\ ro_ovr_count[s] # 1 /\ spc' = [spc EXCEPT ![s] = "elige"]
             /\ UNCHANGED <<ro_seq_num, ro_ovr_count, vista>>
    <3>1. spc'[s] = "elige" /\ ro_ovr_count'[s] # 1
      BY <2>3 DEF TypeOK
    <3>2. Pantalla(s)'
      BY <1>0, <2>1, <2>3, <3>1, PantallaSigue
    <3>3. SinBlanco(s)'
      BY <3>1 DEF SinBlanco
    <3> QED BY <1>C, <2>1, <2>3, <3>2, <3>3
  <2> QED BY <1>5, <2>2, <2>3 DEF ESCoverride
<1>6. ASSUME NEW d \in Decision, PBrequest(s, d) PROVE Est(s)'
  <2>1. /\ UNCHANGED <<lista, vista, ro_seq_num>> /\ spc[s] = "pantalla" /\ spc'[s] = "borra"
    BY <1>6 DEF TypeOK, PBrequest, estacion
  <2>2. \/ concedidos' = concedidos
        \/ /\ concedidos' = concedidos \cup {<<vista[s].oper, vista[s].ped, s>>}
           /\ vista[s].hay
    BY <1>6 DEF PBrequest
  <2>3. Numeros(s)'
    BY <1>0, <2>1, NumerosIgual
  <2>4. Camino(s)'
    <3>1. \A e \in Cajeros, p \in Numero : <<e, p, s>> \in concedidos' =>
             <<e, p, s>> \in concedidos \/ (vista[s].hay /\ p = vista[s].ped)
      BY <2>2
    <3> QED BY <1>0, <2>1, <3>1, CaminoIgual
  <2>5. SinBlanco(s)'
    BY <1>0, <2>1 DEF SinBlanco
  <2>6. Pantalla(s)'
    <3>1. Llegados(s)' = Llegados(s)
      BY <1>0 DEF Llegados
    <3>2. Mostrada(s)' => Mostrada(s)
      BY <2>1 DEF Mostrada
    <3>3. Mostrada(s)' =>
            /\ ro_seq_num'[s] \in 1 .. Llegados(s)'
            /\ \A i \in 1 .. Len(lista'[s]) :
                  /\ lista'[s][i].seq_num = ro_seq_num'[s] <=> lista'[s][i].ped = vista'[s].ped
                  /\ lista'[s][i].ped = vista'[s].ped => lista'[s][i].oper = vista'[s].oper
      BY <2>1, <3>1, <3>2 DEF Pantalla
    <3>4. ASSUME NEW i \in 1 .. Len(lista[s]),
                 <<lista[s][i].oper, lista[s][i].ped, s>> \in concedidos'
          PROVE  vista[s].hay /\ lista[s][i].ped = vista[s].ped
      <4>1. <<lista[s][i].oper, lista[s][i].ped, s>> \notin concedidos
        BY <2>1 DEF Pantalla
      <4> QED BY <2>2, <3>4, <4>1
    <3> QED BY <1>0, <2>1, <3>3, <3>4 DEF Pantalla
  <2> QED BY <2>3, <2>4, <2>5, <2>6
<1>7. CASE OVRro_pic_or_exit(s)
  <2>1. /\ lista'[s] = saovreq_delete(s) /\ spc[s] = "borra" /\ spc'[s] = "recuenta"
        /\ UNCHANGED <<concedidos, vista>>
    BY <1>7 DEF TypeOK, OVRro_pic_or_exit, historia
  <2>2. SinBlanco(s)'
    BY <2>1 DEF SinBlanco
  <2>3. CASE /\ saovreq_delete(s) = lista[s]
             /\ \A i \in 1 .. Len(lista[s]) : lista[s][i].seq_num # ro_seq_num[s]
    <3>1. lista'[s] = lista[s]
      BY <2>1, <2>3
    <3>2. Numeros(s)'
      BY <1>0, <3>1, NumerosIgual
    <3>3. Camino(s)'
      BY <1>0, <2>1, <3>1, CaminoIgual
    <3>4. \A i \in 1 .. Len(lista[s]) :
             <<lista[s][i].oper, lista[s][i].ped, s>> \notin concedidos
      BY <2>1, <2>3 DEF Pantalla, Mostrada
    <3>5. Pantalla(s)'
      BY <1>0, <2>1, <3>1, <3>4 DEF Pantalla, Mostrada
    <3> QED BY <2>2, <3>2, <3>3, <3>5
  <2>4. ASSUME NEW k \in 1 .. Len(lista[s]), saovreq_delete(s) = RemoveAt(lista[s], k),
               lista[s][k].seq_num = ro_seq_num[s]
        PROVE  Est(s)'
    <3>1. lista'[s] = RemoveAt(lista[s], k)
      BY <2>1, <2>4
    <3>2. Numeros(s)'
      BY <1>0, <3>1, NumerosQuita
    <3>3. \A i \in 1 .. Len(lista'[s]) : \E j \in 1 .. Len(lista[s]) :
             j # k /\ lista'[s][i] = lista[s][j]
      BY <3>1, QuedanOtros
    <3>4. Camino(s)'
      <4>1. \A i \in 1 .. Len(lista'[s]) : \E j \in 1 .. Len(lista[s]) :
               lista'[s][i].ped = lista[s][j].ped
        BY <3>3
      <4> QED BY <1>0, <2>1, <4>1, CaminoMenos
    <3>5. ASSUME NEW j \in 1 .. Len(lista[s]), j # k
          PROVE  <<lista[s][j].oper, lista[s][j].ped, s>> \notin concedidos
      <4> SUFFICES ASSUME <<lista[s][j].oper, lista[s][j].ped, s>> \in concedidos
                   PROVE  FALSE
        OBVIOUS
      <4>1. vista[s].hay /\ lista[s][j].ped = vista[s].ped
        BY PantallaOtorgada
      <4>2. Mostrada(s)
        BY <2>1, <4>1 DEF Mostrada
      <4>3. lista[s][j].seq_num = ro_seq_num[s]
        BY <4>1, <4>2 DEF Pantalla
      <4> QED BY <2>4, <3>5, <4>3 DEF Numeros
    <3>6. \A i \in 1 .. Len(lista'[s]) :
             <<lista'[s][i].oper, lista'[s][i].ped, s>> \notin concedidos
      BY <3>3, <3>5
    <3>7. Pantalla(s)'
      BY <1>0, <2>1, <3>6 DEF Pantalla, Mostrada
    <3> QED BY <2>2, <3>2, <3>4, <3>7
  <2> QED BY <2>3, <2>4, BorraUno
<1>8. CASE OVRro_pic_or_exit_cuenta(s)
  <2>1. /\ UNCHANGED <<lista, vista, concedidos, ro_ovr_count>> /\ spc[s] = "recuenta"
        /\ spc'[s] \in {"elige", "limpia"}
        /\ spc'[s] = "elige" => ro_ovr_count'[s] # 1
    BY <1>8 DEF TypeOK, OVRro_pic_or_exit_cuenta, estacion, historia
  <2>2. Pantalla(s)'
    BY <1>0, <2>1, PantallaSigue
  <2>3. SinBlanco(s)'
    BY <2>1 DEF SinBlanco
  <2> QED BY <1>C, <2>1, <2>2, <2>3
<1>9. CASE OVRro_clr_ovr_pend(s)
  <2>1. UNCHANGED <<lista, concedidos>> /\ spc[s] = "limpia" /\ SaleDelMenu(s)
    BY <1>9 DEF OVRro_clr_ovr_pend, historia
  <2> QED BY <1>S, <2>1
<1> QED
  BY <1>1, <1>2, <1>3, <1>4, <1>5, <1>6, <1>7, <1>8, <1>9 DEF PasoMenu

\* A request is put in the list, with a number greater than those in it.
LEMMA PedidoEst ==
    ASSUME TypeOK, TypeOK', SinVuelta, NEW s \in Supervisores, NEW c \in Cajeros, Est(s),
           ida[c][s] # <<>>, ida' = [ida EXCEPT ![c][s] = Tail(@)],
           RecibePedido(s, c, ida[c][s][1]), UNCHANGED <<menu, historia>>
    PROVE  Est(s)'
<1> DEFINE m == ida[c][s][1]
           L == lista[s]
           x == [seq_num |-> Asigna(s), oper |-> c, ped |-> m.ped]
<1>0. /\ UNCHANGED <<spc, ro_seq_num, ro_ovr_count, vista, hechos, retiros, concedidos>>
      /\ hechos \in Nat /\ hechos <= MaxPedidos /\ L \in Seq(OVR_REQ) /\ Len(L) \in Nat
      /\ m \in MsgIda /\ m.tipo = "REQ" /\ Len(ida[c][s]) \in Nat \ {0}
  <2>1. hechos \in Nat /\ hechos <= MaxPedidos /\ L \in Seq(OVR_REQ)
    BY DEF TypeOK, Numero
  <2>2. Len(ida[c][s]) \in Nat \ {0} /\ m \in MsgIda
    BY IdaMenos
  <2>3. m.tipo = "REQ"
    BY DEF RecibePedido
  <2> QED BY <2>1, <2>2, <2>3, LenProperties DEF menu, historia
<1>1. EnCamino(c, s, 1)
  BY <1>0 DEF EnCamino
<1>2. m.ped \in Enviados(s) /\ m.ped \in 1 .. hechos
  BY <1>1 DEF Enviados, Est, Camino
<1>3. Llegados(s) + 1 <= hechos
  <2>1. Cardinality(Enviados(s)) # 0
    BY <1>2, EnviadosFinito, FS_EmptySet
  <2> QED BY <2>1, EnviadosFinito DEF Est, Camino
<1>4. /\ Asigna(s) = Llegados(s) + 1 /\ Llegados(s)' = Llegados(s) + 1 /\ Llegados(s) \in Nat
  <2>1. item_count[s] \in 0 .. Ciclo - 1 /\ item_count'[s] = Siguiente(s)
    BY DEF TypeOK, SeqNum, RecibePedido
  <2>2. item_count[s] # 0 /\ Llegados(s) = item_count[s] - 1
    BY <1>0, <1>3, <2>1 DEF Llegados, SinVuelta
  <2>3. Asigna(s) = item_count[s]
    BY <2>2 DEF Asigna
  <2>4. CASE item_count[s] = Ciclo - 1
    <3>1. Siguiente(s) = 0
      BY <2>1, <2>3, <2>4 DEF Siguiente
    <3> QED BY <2>1, <2>2, <2>3, <2>4, <3>1 DEF Llegados
  <2>5. CASE item_count[s] # Ciclo - 1
    <3>1. Siguiente(s) = item_count[s] + 1
      BY <2>1, <2>3, <2>5 DEF Siguiente
    <3> QED BY <2>1, <2>2, <2>3, <3>1 DEF Llegados
  <2> QED BY <2>4, <2>5
<1>5. /\ Len(lista'[s]) = Len(L) + 1
      /\ \A i \in 1 .. Len(L) : lista'[s][i] = L[i]
      /\ lista'[s][Len(L) + 1] = x
  <2>1. lista'[s] = Append(L, x)
    BY DEF RecibePedido, TypeOK
  <2> HIDE DEF x, L
  <2>2. lista'[s] \in Seq(OVR_REQ)
    BY DEF TypeOK
  <2> QED BY <1>0, <2>1, <2>2
<1>6. /\ x.seq_num = Llegados(s) + 1 /\ x.ped = m.ped /\ x.oper = c
      /\ \A i \in 1 .. Len(L) : L[i].seq_num \in 1 .. Llegados(s) /\ L[i].ped \in 1 .. hechos
                               /\ L[i].ped # m.ped
      /\ vista[s].hay => vista[s].ped # m.ped
      /\ <<c, m.ped, s>> \notin concedidos
  <2>1. /\ \A i \in 1 .. Len(L) : L[i].ped # m.ped
        /\ vista[s].hay => vista[s].ped # m.ped
        /\ <<c, m.ped, s>> \notin concedidos
    BY <1>2 DEF Est, Camino
  <2> QED BY <1>4, <2>1 DEF Est, Numeros
<1> HIDE DEF x
<1>7. Numeros(s)'
  <2>1. \A i \in 1 .. Len(L) + 1 : i \in 1 .. Len(L) \/ i = Len(L) + 1
    BY <1>0
  <2>2. \A i \in 1 .. Len(lista'[s]) : /\ lista'[s][i].seq_num \in 1 .. Llegados(s)'
                                      /\ lista'[s][i].ped \in 1 .. hechos'
    <3> SUFFICES ASSUME NEW i \in 1 .. Len(lista'[s])
                 PROVE  /\ lista'[s][i].seq_num \in 1 .. Llegados(s)'
                        /\ lista'[s][i].ped \in 1 .. hechos'
      OBVIOUS
    <3>1. CASE i \in 1 .. Len(L)
      <4>1. L[i].seq_num \in 1 .. Llegados(s) /\ L[i].ped \in 1 .. hechos
        BY <1>6, <3>1
      <4>2. lista'[s][i] = L[i] /\ hechos' = hechos
        BY <1>0, <1>5, <3>1
      <4>3. L[i].seq_num \in 1 .. Llegados(s)'
        BY <1>4, <4>1
      <4> QED BY <4>1, <4>2, <4>3
    <3>2. CASE i = Len(L) + 1
      <4>1. lista'[s][i] = x /\ hechos' = hechos
        BY <1>0, <1>5, <3>2
      <4>2. x.seq_num \in 1 .. Llegados(s)' /\ x.ped \in 1 .. hechos
        BY <1>2, <1>4, <1>6
      <4> QED BY <4>1, <4>2
    <3> QED BY <1>5, <2>1, <3>1, <3>2
  <2>3. \A i \in 1 .. Len(L) : L[i].seq_num # x.seq_num /\ L[i].ped # x.ped
    BY <1>4, <1>6
  <2>4. ASSUME NEW i \in 1 .. Len(lista'[s]), NEW j \in 1 .. Len(lista'[s]),
               \/ lista'[s][i].seq_num = lista'[s][j].seq_num
               \/ lista'[s][i].ped = lista'[s][j].ped
        PROVE  i = j
    <3>1. CASE i \in 1 .. Len(L) /\ j \in 1 .. Len(L)
      <4>1. L[i].seq_num = L[j].seq_num \/ L[i].ped = L[j].ped
        BY <1>5, <2>4, <3>1
      <4> QED BY <3>1, <4>1 DEF Est, Numeros
    <3>2. CASE ~(i \in 1 .. Len(L) /\ j \in 1 .. Len(L))
      BY <1>5, <2>1, <2>3, <2>4, <3>2
    <3> QED BY <3>1, <3>2
  <2> QED BY <2>2, <2>4 DEF Numeros
<1>8. Pantalla(s)'
  <2>1. Mostrada(s)' = Mostrada(s)
    BY <1>0 DEF Mostrada
  <2>2. Mostrada(s) =>
          /\ ro_seq_num[s] \in 1 .. Llegados(s)
          /\ \A i \in 1 .. Len(L) :
                /\ L[i].seq_num = ro_seq_num[s] <=> L[i].ped = vista[s].ped
                /\ L[i].ped = vista[s].ped => L[i].oper = vista[s].oper
    BY DEF Est, Pantalla
  <2>3. Mostrada(s) => vista[s].hay /\ x.seq_num # ro_seq_num[s] /\ x.ped # vista[s].ped
    BY <1>4, <1>6, <2>2 DEF Mostrada
  <2>4. \A i \in 1 .. Len(lista'[s]) : i \in 1 .. Len(L) \/ lista'[s][i] = x
    BY <1>0, <1>5
  <2>5. Mostrada(s)' =>
          /\ ro_seq_num'[s] \in 1 .. Llegados(s)'
          /\ \A i \in 1 .. Len(lista'[s]) :
                /\ lista'[s][i].seq_num = ro_seq_num'[s] <=> lista'[s][i].ped = vista'[s].ped
                /\ lista'[s][i].ped = vista'[s].ped => lista'[s][i].oper = vista'[s].oper
    <3> SUFFICES ASSUME Mostrada(s)
                 PROVE  /\ ro_seq_num[s] \in 1 .. Llegados(s)'
                        /\ \A i \in 1 .. Len(lista'[s]) :
                              /\ lista'[s][i].seq_num = ro_seq_num[s] <=> lista'[s][i].ped = vista[s].ped
                              /\ lista'[s][i].ped = vista[s].ped => lista'[s][i].oper = vista[s].oper
      BY <1>0, <2>1
    <3>1. ro_seq_num[s] \in 1 .. Llegados(s)'
      BY <1>4, <2>2
    <3>2. ASSUME NEW i \in 1 .. Len(lista'[s])
          PROVE  /\ lista'[s][i].seq_num = ro_seq_num[s] <=> lista'[s][i].ped = vista[s].ped
                 /\ lista'[s][i].ped = vista[s].ped => lista'[s][i].oper = vista[s].oper
      <4>1. CASE i \in 1 .. Len(L)
        BY <1>5, <2>2, <4>1
      <4>2. CASE lista'[s][i] = x
        BY <2>3, <4>2
      <4> QED BY <2>4, <4>1, <4>2
    <3> QED BY <3>1, <3>2
  <2>6. spc'[s] = "pantalla" /\ vista'[s].hay =>
          /\ <<vista'[s].oper, vista'[s].ped, s>> \notin concedidos'
          /\ vista'[s].oper \notin retiros' =>
                \E i \in 1 .. Len(lista'[s]) : lista'[s][i].ped = vista'[s].ped
    <3> SUFFICES ASSUME spc[s] = "pantalla", vista[s].hay
                 PROVE  /\ <<vista[s].oper, vista[s].ped, s>> \notin concedidos
                        /\ vista[s].oper \notin retiros =>
                              \E i \in 1 .. Len(lista'[s]) : lista'[s][i].ped = vista[s].ped
      BY <1>0
    <3>1. \A i \in 1 .. Len(L) : i \in 1 .. Len(lista'[s]) /\ lista'[s][i] = L[i]
      BY <1>0, <1>5
    <3>2. /\ <<vista[s].oper, vista[s].ped, s>> \notin concedidos
          /\ vista[s].oper \notin retiros =>
                \E i \in 1 .. Len(L) : L[i].ped = vista[s].ped
      BY DEF Est, Pantalla
    <3> QED BY <3>1, <3>2
  <2>7. ASSUME NEW i \in 1 .. Len(lista'[s]),
               <<lista'[s][i].oper, lista'[s][i].ped, s>> \in concedidos
        PROVE  spc[s] = "borra" /\ vista[s].hay /\ lista'[s][i].ped = vista[s].ped
    <3>1. CASE i \in 1 .. Len(L)
      BY <1>5, <2>7, <3>1 DEF Est, Pantalla
    <3>2. CASE lista'[s][i] = x
      BY <1>6, <2>7, <3>2
    <3> QED BY <2>4, <3>1, <3>2
  <2>8. /\ vista'[s].hay => vista'[s].ped \in 1 .. hechos'
        /\ spc'[s] = "unico" => ~vista'[s].hay
        /\ spc'[s] = "elige" /\ ro_ovr_count'[s] = 1 => ~vista'[s].hay
    BY <1>0 DEF Est, Pantalla
  <2>9. \A i \in 1 .. Len(lista'[s]) :
          <<lista'[s][i].oper, lista'[s][i].ped, s>> \in concedidos'
             => spc'[s] = "borra" /\ vista'[s].hay /\ lista'[s][i].ped = vista'[s].ped
    BY <1>0, <2>7
  <2> QED BY <2>5, <2>6, <2>8, <2>9 DEF Pantalla
<1>9. SinBlanco(s)'
  BY <1>0, <1>5 DEF Est, SinBlanco
<1>10. Camino(s)'
  <2>1. \A i \in 1 .. Len(lista'[s]) :
           \/ \E j \in 1 .. Len(lista[s]) : lista'[s][i].ped = lista[s][j].ped
           \/ ida[c][s][1].tipo = "REQ" /\ lista'[s][i].ped = ida[c][s][1].ped
    <3>1. \A i \in 1 .. Len(lista'[s]) : i \in 1 .. Len(L) \/ lista'[s][i] = x
      BY <1>0, <1>5
    <3> QED BY <1>0, <1>5, <1>6, <3>1
  <2> QED BY <1>0, <1>4, <2>1, CaminoLlega DEF Est
<1> QED
  BY <1>7, <1>8, <1>9, <1>10 DEF Est

\* A cancel takes one element of its sender off the list.
LEMMA CancelEst ==
    ASSUME TypeOK, TypeOK', NEW s \in Supervisores, NEW c \in Cajeros, Est(s),
           ida[c][s] # <<>>, ida' = [ida EXCEPT ![c][s] = Tail(@)],
           RecibeCancel(s, c, ida[c][s][1]), UNCHANGED <<menu, historia>>
    PROVE  Est(s)' /\ c \in retiros
<1>0. /\ UNCHANGED <<spc, ro_seq_num, ro_ovr_count, vista, hechos, retiros, concedidos, item_count>>
      /\ lista'[s] = RestoDe(s, c) /\ ida[c][s][1].tipo = "CANCEL" /\ 1 \in 1 .. Len(ida[c][s])
      /\ Llegados(s)' = Llegados(s)
  <2>1. /\ lista' = [lista EXCEPT ![s] = RestoDe(s, c)] /\ ida[c][s][1].tipo = "CANCEL"
        /\ UNCHANGED <<item_count, vuelta>>
    BY CancelaHace
  <2>2. 1 \in 1 .. Len(ida[c][s])
    <3>1. Len(ida[c][s]) \in Nat \ {0}
      BY IdaMenos
    <3> QED BY <3>1
  <2>3. lista'[s] = RestoDe(s, c)
    BY <2>1 DEF TypeOK
  <2> QED BY <2>1, <2>2, <2>3 DEF menu, historia, Llegados
<1>1. c \in retiros
  BY <1>0 DEF Est, Camino
<1>2. SinBlanco(s)'
  BY <1>0, <1>1 DEF SinBlanco
<1>3. CASE lista'[s] = lista[s]
  <2>1. MismaEstacion(s)
    <3>1. hechos' >= hechos
      BY <1>0 DEF TypeOK, Numero
    <3> QED BY <1>0, <1>3, <3>1 DEF MismaEstacion
  <2>2. Numeros(s)' /\ Pantalla(s)'
    BY <2>1, EstacionIgual DEF Est
  <2>3. Camino(s)'
    BY <1>0, <1>3, CaminoLlega DEF Est
  <2> QED BY <1>1, <1>2, <2>2, <2>3 DEF Est
<1>4. ASSUME NEW k \in 1 .. Len(lista[s]), lista'[s] = RemoveAt(lista[s], k), lista[s][k].oper = c
      PROVE  Est(s)'
  <2>1. Numeros(s)'
    BY <1>0, <1>4, NumerosQuita DEF Est
  <2>2. /\ \A i \in 1 .. Len(lista'[s]) : \E j \in 1 .. Len(lista[s]) :
              j # k /\ lista'[s][i] = lista[s][j]
        /\ \A j \in 1 .. Len(lista[s]) :
              j # k => \E i \in 1 .. Len(lista'[s]) : lista'[s][i] = lista[s][j]
    BY <1>4, QuedanOtros
  <2>3. Camino(s)'
    <3>1. \A i \in 1 .. Len(lista'[s]) : \E j \in 1 .. Len(lista[s]) :
             lista'[s][i].ped = lista[s][j].ped
      BY <2>2
    <3> QED BY <1>0, <3>1, CaminoLlega DEF Est
  <2>4. Pantalla(s)'
    <3>1. Mostrada(s)' = Mostrada(s)
      BY <1>0 DEF Mostrada
    <3>2. Mostrada(s) =>
            /\ ro_seq_num[s] \in 1 .. Llegados(s)
            /\ \A i \in 1 .. Len(lista[s]) :
                  /\ lista[s][i].seq_num = ro_seq_num[s] <=> lista[s][i].ped = vista[s].ped
                  /\ lista[s][i].ped = vista[s].ped => lista[s][i].oper = vista[s].oper
      BY DEF Est, Pantalla
    <3>3. Mostrada(s)' =>
            /\ ro_seq_num'[s] \in 1 .. Llegados(s)'
            /\ \A i \in 1 .. Len(lista'[s]) :
                  /\ lista'[s][i].seq_num = ro_seq_num'[s] <=> lista'[s][i].ped = vista'[s].ped
                  /\ lista'[s][i].ped = vista'[s].ped => lista'[s][i].oper = vista'[s].oper
      <4> SUFFICES ASSUME Mostrada(s)
                   PROVE  \A i \in 1 .. Len(lista'[s]) :
                             /\ lista'[s][i].seq_num = ro_seq_num[s] <=> lista'[s][i].ped = vista[s].ped
                             /\ lista'[s][i].ped = vista[s].ped => lista'[s][i].oper = vista[s].oper
        BY <1>0, <3>1, <3>2
      <4> TAKE i \in 1 .. Len(lista'[s])
      <4>1. PICK j \in 1 .. Len(lista[s]) : lista'[s][i] = lista[s][j]
        BY <2>2
      <4> QED BY <3>2, <4>1
    <3>4. spc[s] = "pantalla" /\ vista[s].hay =>
            /\ <<vista[s].oper, vista[s].ped, s>> \notin concedidos
            /\ vista[s].oper \notin retiros =>
                  \E i \in 1 .. Len(lista'[s]) : lista'[s][i].ped = vista[s].ped
      <4> SUFFICES ASSUME spc[s] = "pantalla", vista[s].hay
                   PROVE  /\ <<vista[s].oper, vista[s].ped, s>> \notin concedidos
                          /\ vista[s].oper \notin retiros =>
                                \E i \in 1 .. Len(lista'[s]) : lista'[s][i].ped = vista[s].ped
        OBVIOUS
      <4>1. /\ <<vista[s].oper, vista[s].ped, s>> \notin concedidos
            /\ vista[s].oper \notin retiros =>
                  \E i \in 1 .. Len(lista[s]) : lista[s][i].ped = vista[s].ped
        BY DEF Est, Pantalla
      <4>2. ASSUME vista[s].oper \notin retiros
            PROVE  \E i \in 1 .. Len(lista'[s]) : lista'[s][i].ped = vista[s].ped
        <5>1. PICK j \in 1 .. Len(lista[s]) : lista[s][j].ped = vista[s].ped
          BY <4>1, <4>2
        <5>2. lista[s][j].oper = vista[s].oper
          BY <3>2, <5>1 DEF Mostrada
        <5>3. j # k
          BY <1>1, <1>4, <4>2, <5>2
        <5>4. PICK i \in 1 .. Len(lista'[s]) : lista'[s][i] = lista[s][j]
          BY <2>2, <5>3
        <5> QED BY <5>1, <5>4
      <4> QED BY <4>1, <4>2
    <3>5. \A i \in 1 .. Len(lista'[s]) :
            <<lista'[s][i].oper, lista'[s][i].ped, s>> \in concedidos
               => spc[s] = "borra" /\ vista[s].hay /\ lista'[s][i].ped = vista[s].ped
      <4> SUFFICES ASSUME NEW i \in 1 .. Len(lista'[s]),
                          <<lista'[s][i].oper, lista'[s][i].ped, s>> \in concedidos
                   PROVE  spc[s] = "borra" /\ vista[s].hay /\ lista'[s][i].ped = vista[s].ped
        OBVIOUS
      <4>1. PICK j \in 1 .. Len(lista[s]) : lista'[s][i] = lista[s][j]
        BY <2>2
      <4>2. <<lista[s][j].oper, lista[s][j].ped, s>> \in concedidos
        BY <4>1
      <4> QED BY <4>1, <4>2, PantallaOtorgada DEF Est
    <3>6. /\ vista'[s].hay => vista'[s].ped \in 1 .. hechos'
          /\ spc'[s] = "unico" => ~vista'[s].hay
          /\ spc'[s] = "elige" /\ ro_ovr_count'[s] = 1 => ~vista'[s].hay
      BY <1>0 DEF Est, Pantalla
    <3>7. /\ spc'[s] = "pantalla" /\ vista'[s].hay =>
              /\ <<vista'[s].oper, vista'[s].ped, s>> \notin concedidos'
              /\ vista'[s].oper \notin retiros' =>
                    \E i \in 1 .. Len(lista'[s]) : lista'[s][i].ped = vista'[s].ped
          /\ \A i \in 1 .. Len(lista'[s]) :
                <<lista'[s][i].oper, lista'[s][i].ped, s>> \in concedidos'
                   => spc'[s] = "borra" /\ vista'[s].hay /\ lista'[s][i].ped = vista'[s].ped
      BY <1>0, <3>4, <3>5
    <3> QED BY <3>3, <3>6, <3>7 DEF Pantalla
  <2> QED BY <1>2, <2>1, <2>3, <2>4 DEF Est
<1> QED
  BY <1>0, <1>1, <1>3, <1>4, CancelaUno

\* A station through any step.
LEMMA EstPaso ==
    ASSUME TypeOK, TypeOK', SinVuelta, \A s \in Supervisores : Est(s), Next
    PROVE  \A s \in Supervisores : Est(s)'
<1>0. hechos \in Nat
  BY DEF TypeOK, Numero
<1>M. ASSUME NEW t \in Supervisores, UNCHANGED <<estacion, menu, concedidos>>,
             hechos' >= hechos, retiros \subseteq retiros'
      PROVE  MismaEstacion(t)
  BY <1>M DEF MismaEstacion, estacion, menu
<1>1. ASSUME NEW c \in Cajeros, PasoCajero(c), NEW t \in Supervisores PROVE Est(t)'
  <2>1. ASSUME NEW s \in Supervisores, SRQ_ro_send_req(c, s) PROVE Est(t)'
    <3>1. UNCHANGED <<estacion, menu, concedidos, retiros>> /\ hechos' = hechos + 1
      BY <2>1 DEF SRQ_ro_send_req
    <3>2. MismaEstacion(t)
      BY <1>0, <1>M, <3>1
    <3>3. CASE ida' = ida
      BY <3>2, <3>3, OtraEstacion
    <3>4. CASE ida' = [ida EXCEPT ![c][s] = Append(@, [tipo |-> "REQ", ped |-> hechos + 1])]
      <4> DEFINE m == [tipo |-> "REQ", ped |-> hechos + 1]
      <4>1. m \in MsgIda /\ m.tipo = "REQ" /\ m.ped = hechos + 1
        BY <3>1, TipoMensajes DEF TypeOK
      <4> HIDE DEF m
      <4>2. /\ \A d \in Cajeros, r \in Supervisores : d # c \/ r # s => ida'[d][r] = ida[d][r]
            /\ Len(ida'[c][s]) = Len(ida[c][s]) + 1
            /\ \A i \in 1 .. Len(ida[c][s]) : ida'[c][s][i] = ida[c][s][i]
            /\ ida'[c][s][Len(ida[c][s]) + 1] = m
        <5>1. Envia(c, s, m)
          BY <3>4 DEF m, Envia
        <5> QED BY <4>1, <5>1, IdaMas
      <4>3. CASE t # s
        BY <3>2, <4>2, <4>3, OtraEstacion
      <4>4. CASE t = s
        <5>1. Camino(s)'
          BY <3>1, <3>2, <4>1, <4>2, <4>4, CaminoEnvia DEF Est
        <5> QED BY <3>2, <4>4, <5>1, EstacionIgual DEF Est
      <4> QED BY <4>3, <4>4
    <3> QED BY <2>1, <3>3, <3>4 DEF SRQ_ro_send_req
  <2>2. CASE Despierta(c)
    <3>1. UNCHANGED <<estacion, menu, concedidos, retiros, hechos, ida>>
      BY <2>2 DEF Despierta, canales
    <3> QED BY <1>0, <1>M, <3>1, OtraEstacion
  <2>3. CASE Vence(c)
    <3>1. UNCHANGED <<estacion, menu, concedidos, hechos>> /\ retiros' = retiros \cup {c}
      BY <2>3 DEF Vence
    <3>2. MismaEstacion(t)
      BY <1>0, <1>M, <3>1
    <3>3. CASE ida' = ida
      BY <3>2, <3>3, OtraEstacion
    <3>4. CASE ida' = [ida EXCEPT ![c][adt[c]] = Append(@, [tipo |-> "CANCEL", ped |-> n[c]])]
      <4> DEFINE m == [tipo |-> "CANCEL", ped |-> n[c]]
      <4>1. m \in MsgIda /\ m.tipo = "CANCEL"
        BY TipoMensajes DEF TypeOK
      <4>s. PICK s \in Supervisores : s = adt[c]
        BY DEF TypeOK
      <4> HIDE DEF m
      <4>2. /\ \A d \in Cajeros, r \in Supervisores : d # c \/ r # s => ida'[d][r] = ida[d][r]
            /\ Len(ida'[c][s]) = Len(ida[c][s]) + 1
            /\ \A i \in 1 .. Len(ida[c][s]) : ida'[c][s][i] = ida[c][s][i]
            /\ ida'[c][s][Len(ida[c][s]) + 1] = m
        <5>1. Envia(c, s, m)
          BY <3>4, <4>s DEF m, Envia
        <5> QED BY <4>1, <5>1, IdaMas
      <4>3. CASE t # s
        BY <3>2, <4>2, <4>3, OtraEstacion
      <4>4. CASE t = s
        <5>1. Camino(s)'
          BY <3>1, <3>2, <4>1, <4>2, <4>4, CaminoCancela DEF Est
        <5> QED BY <3>2, <4>4, <5>1, EstacionIgual DEF Est
      <4> QED BY <4>3, <4>4
    <3> QED BY <2>3, <3>3, <3>4 DEF Vence
  <2> QED BY <1>1, <2>1, <2>2, <2>3 DEF PasoCajero
<1>2. ASSUME NEW s \in Supervisores, PasoMenu(s), NEW t \in Supervisores PROVE Est(t)'
  <2>1. CASE t = s
    BY <1>2, <2>1, MenuEst
  <2>2. CASE t # s
    <3>1. /\ UNCHANGED <<ida, hechos, retiros, item_count>>
          /\ lista'[t] = lista[t] /\ spc'[t] = spc[t] /\ vista'[t] = vista[t]
          /\ ro_seq_num'[t] = ro_seq_num[t] /\ ro_ovr_count'[t] = ro_ovr_count[t]
          /\ \A d \in Cajeros, p \in Numero : <<d, p, t>> \in concedidos' => <<d, p, t>> \in concedidos
      BY <1>2, <2>2, MenuDeja
    <3>2. MismaEstacion(t)
      BY <1>0, <3>1 DEF MismaEstacion
    <3> QED BY <3>1, <3>2, OtraEstacion
  <2> QED BY <2>1, <2>2
<1>3. ASSUME NEW c \in Cajeros, NEW s \in Supervisores, PasoMensaje(c, s), NEW t \in Supervisores
      PROVE  Est(t)'
  <2>1. CASE EventoCajero(c, s) \/ PierdeRespuesta(c, s)
    <3>1. UNCHANGED <<estacion, menu, concedidos, retiros, hechos, ida>>
      BY <2>1 DEF EventoCajero, PierdeRespuesta, historia
    <3> QED BY <1>0, <1>M, <3>1, OtraEstacion
  <2>2. CASE EventoSupervisor(s, c)
    <3>1. /\ ida[c][s] # <<>> /\ ida' = [ida EXCEPT ![c][s] = Tail(@)] /\ UNCHANGED <<menu, historia>>
          /\ RecibePedido(s, c, ida[c][s][1]) \/ RecibeCancel(s, c, ida[c][s][1])
      <4>1. ida[c][s] # <<>> /\ ida' = [ida EXCEPT ![c][s] = Tail(@)]
        BY <2>2 DEF EventoSupervisor
      <4>2. Head(ida[c][s]) = ida[c][s][1]
        BY <4>1, IdaMenos
      <4> QED BY <2>2, <4>1, <4>2 DEF EventoSupervisor
    <3>2. CASE t = s
      BY <3>1, <3>2, PedidoEst, CancelEst
    <3>3. CASE t # s
      <4>1. /\ lista'[t] = lista[t] /\ item_count'[t] = item_count[t]
        <5>1. CASE RecibePedido(s, c, ida[c][s][1])
          BY <3>3, <5>1 DEF RecibePedido, TypeOK
        <5>2. CASE RecibeCancel(s, c, ida[c][s][1])
          BY <3>3, <5>2 DEF RecibeCancel, TypeOK
        <5> QED BY <3>1, <5>1, <5>2
      <4>2. MismaEstacion(t)
        BY <1>0, <3>1, <4>1 DEF MismaEstacion, menu, historia
      <4>3. \A d \in Cajeros : ida'[d][t] = ida[d][t]
        BY <3>1, <3>3, IdaMenos
      <4> QED BY <4>2, <4>3, OtraEstacion
    <3> QED BY <3>2, <3>3
  <2>3. CASE NoEntrega(c, s)
    <3>1. /\ UNCHANGED <<estacion, menu, concedidos, retiros, hechos>>
          /\ ida[c][s] # <<>> /\ ida' = [ida EXCEPT ![c][s] = Tail(@)]
      BY <2>3 DEF NoEntrega
    <3>2. MismaEstacion(t)
      BY <1>0, <1>M, <3>1
    <3>3. CASE t # s
      <4>1. \A d \in Cajeros : ida'[d][t] = ida[d][t]
        BY <3>1, <3>3, IdaMenos
      <4> QED BY <3>2, <4>1, OtraEstacion
    <3>4. CASE t = s
      <4>1. Llegados(s)' = Llegados(s) /\ lista'[s] = lista[s] /\ vista'[s] = vista[s]
        BY <3>1 DEF Llegados, estacion, menu
      <4>2. Camino(s)'
        BY <3>1, <4>1, CaminoLlega DEF Est
      <4> QED BY <3>2, <3>4, <4>2, EstacionIgual DEF Est
    <3> QED BY <3>3, <3>4
  <2> QED BY <1>3, <2>1, <2>2, <2>3 DEF PasoMensaje
<1> QED
  BY <1>1, <1>2, <1>3 DEF Next

-----------------------------------------------------------------------------
(* The requests in a list nobody has decided on.                           *)

\* They are no more than they were, and without cancels none is lost.
VivasIgual(c, s) ==
    /\ \A i \in Nat : Viva(s, c, i)' =>
          \E j \in Nat : Viva(s, c, j) /\ lista'[s][i].ped = lista[s][j].ped
    /\ retiros' = {} => (SinVivas(c, s)' => SinVivas(c, s))

LEMMA VivasMismas ==
    ASSUME NEW c \in Cajeros, NEW s \in Supervisores, lista'[s] = lista[s],
           \/ spc[s] # "borra" /\ spc'[s] # "borra"
           \/ spc'[s] = spc[s] /\ vista'[s] = vista[s]
    PROVE  VivasIgual(c, s)
<1>1. \A i \in Nat : Viva(s, c, i)' <=> Viva(s, c, i)
  BY DEF Viva
<1> QED
  BY <1>1 DEF VivasIgual, SinVivas

\* The deletion by number takes the one decided on.
LEMMA VivasBorra ==
    ASSUME TypeOK, NEW s \in Supervisores, Est(s), OVRro_pic_or_exit(s), NEW c \in Cajeros
    PROVE  VivasIgual(c, s)
<1>1. /\ lista'[s] = saovreq_delete(s) /\ spc[s] = "borra" /\ spc'[s] = "recuenta"
      /\ UNCHANGED <<vista, retiros>>
  BY DEF TypeOK, OVRro_pic_or_exit, historia
<1>0. lista[s] \in Seq(OVR_REQ) /\ Len(lista[s]) \in Nat
  BY DEF TypeOK
<1>2. ASSUME NEW j \in 1 .. Len(lista[s]), lista[s][j].seq_num # ro_seq_num[s], lista[s][j].oper = c
      PROVE  Viva(s, c, j)
  <2> SUFFICES ASSUME vista[s].hay, lista[s][j].ped = vista[s].ped PROVE FALSE
    BY <1>2 DEF Viva
  <2>1. Mostrada(s)
    BY <1>1 DEF Mostrada
  <2> QED BY <1>2, <2>1 DEF Est, Pantalla
<1>3. CASE /\ saovreq_delete(s) = lista[s]
           /\ \A i \in 1 .. Len(lista[s]) : lista[s][i].seq_num # ro_seq_num[s]
  <2>1. lista'[s] = lista[s]
    BY <1>1, <1>3
  <2>2. ASSUME NEW i \in Nat, Viva(s, c, i)' PROVE Viva(s, c, i)
    BY <1>2, <1>3, <2>1, <2>2 DEF Viva
  <2>3. ASSUME NEW i \in Nat, Viva(s, c, i) PROVE Viva(s, c, i)'
    BY <1>1, <2>1, <2>3 DEF Viva
  <2> QED BY <2>1, <2>2, <2>3 DEF VivasIgual, SinVivas
<1>4. ASSUME NEW k \in 1 .. Len(lista[s]), saovreq_delete(s) = RemoveAt(lista[s], k),
             lista[s][k].seq_num = ro_seq_num[s]
      PROVE  VivasIgual(c, s)
  <2>0. lista'[s] = RemoveAt(lista[s], k)
    BY <1>1, <1>4
  <2> DEFINE J(i) == IF i < k THEN i ELSE i + 1
  <2>1. \A i \in 1 .. Len(lista'[s]) :
           J(i) \in 1 .. Len(lista[s]) /\ J(i) # k /\ lista'[s][i] = lista[s][J(i)]
    BY <2>0, Quedan
  <2>2. \A j \in 1 .. Len(lista[s]) :
            j # k => \E i \in 1 .. Len(lista'[s]) : lista'[s][i] = lista[s][j]
    BY <2>0, QuedanOtros
  <2> HIDE DEF J
  <2>3. ASSUME NEW i \in Nat, Viva(s, c, i)'
        PROVE  \E j \in Nat : Viva(s, c, j) /\ lista'[s][i].ped = lista[s][j].ped
    <3>1. i \in 1 .. Len(lista'[s]) /\ lista'[s][i].oper = c
      BY <2>3 DEF Viva
    <3>2. PICK j \in 1 .. Len(lista[s]) : j = J(i) /\ j # k /\ lista'[s][i] = lista[s][j]
      BY <2>1, <3>1
    <3>3. lista[s][j].seq_num # ro_seq_num[s]
      BY <1>4, <3>2 DEF Est, Numeros
    <3>4. Viva(s, c, j) /\ j \in Nat
      BY <1>0, <1>2, <3>1, <3>2, <3>3
    <3> QED BY <3>2, <3>4
  <2>4. ASSUME retiros' = {}, NEW j \in Nat, Viva(s, c, j)
        PROVE  \E i \in Nat : Viva(s, c, i)'
    <3>1. vista[s].hay /\ Mostrada(s)
      BY <1>1, <2>4 DEF Est, SinBlanco, Mostrada
    <3>2. j \in 1 .. Len(lista[s]) /\ lista[s][j].ped # vista[s].ped /\ lista[s][j].oper = c
      BY <1>1, <2>4, <3>1 DEF Viva
    <3>3. j # k
      BY <1>4, <3>1, <3>2 DEF Est, Pantalla
    <3>4. PICK i \in 1 .. Len(lista'[s]) : lista'[s][i] = lista[s][j]
      BY <2>2, <3>2, <3>3
    <3>5. i \in Nat
      OBVIOUS
    <3>6. Viva(s, c, i)'
      BY <1>1, <3>2, <3>4 DEF Viva
    <3> QED BY <3>5, <3>6
  <2> QED BY <2>3, <2>4 DEF VivasIgual, SinVivas
<1> QED
  BY <1>3, <1>4, BorraUno

LEMMA VivasMenu ==
    ASSUME TypeOK, NEW s \in Supervisores, Est(s), PasoMenu(s), NEW c \in Cajeros,
           NEW t \in Supervisores,
           ~(t = s /\ spc[s] = "pantalla" /\ spc'[s] = "borra" /\ vista[s].hay /\ vista[s].oper = c)
    PROVE  VivasIgual(c, t)
<1>1. CASE t # s
  <2>1. lista'[t] = lista[t] /\ spc'[t] = spc[t] /\ vista'[t] = vista[t]
    BY <1>1, MenuDeja
  <2> QED BY <2>1, VivasMismas
<1>2. CASE OVRro_pic_or_exit(s) /\ t = s
  BY <1>2, VivasBorra
<1>3. ASSUME NEW d \in Decision, PBrequest(s, d), t = s PROVE VivasIgual(c, t)
  <2>1. UNCHANGED <<lista, vista, retiros>> /\ spc[s] = "pantalla" /\ spc'[s] = "borra"
    BY <1>3 DEF TypeOK, PBrequest, estacion
  <2>2. ASSUME NEW i \in Nat PROVE Viva(s, c, i)' <=> Viva(s, c, i)
    <3>1. CASE ~vista[s].hay
      BY <2>1, <3>1 DEF Viva
    <3>2. CASE vista[s].hay
      <4>1. vista[s].oper # c /\ Mostrada(s)
        BY <1>3, <2>1, <3>2 DEF Mostrada
      <4>2. \A j \in 1 .. Len(lista[s]) : lista[s][j].ped = vista[s].ped => lista[s][j].oper # c
        BY <4>1 DEF Est, Pantalla
      <4> QED BY <2>1, <4>2 DEF Viva
    <3> QED BY <3>1, <3>2
  <2>3. lista'[s] = lista[s]
    BY <2>1
  <2> QED BY <1>3, <2>2, <2>3 DEF VivasIgual, SinVivas
<1>4. ASSUME t = s, PasoMenu(s), ~OVRro_pic_or_exit(s), \A d \in Decision : ~PBrequest(s, d)
      PROVE  VivasIgual(c, t)
  <2>1. lista' = lista
    BY <1>4
    DEF PasoMenu, PDISoverride, PDISoverride_unico, PCOLoverride, PCOLoverride_trae,
        ESCoverride, OVRro_pic_or_exit_cuenta, OVRro_clr_ovr_pend, estacion
  <2>2. spc[s] # "borra"
    BY <1>4
    DEF PasoMenu, PDISoverride, PDISoverride_unico, PCOLoverride, PCOLoverride_trae,
        ESCoverride, OVRro_pic_or_exit_cuenta, OVRro_clr_ovr_pend
  <2>3. spc'[s] # "borra"
    <3>1. SaleDelMenu(s) => spc'[s] # "borra"
      BY DEF TypeOK, SaleDelMenu
    <3>2. \A i : Muestra(s, i) => spc'[s] # "borra"
      BY DEF TypeOK, Muestra
    <3>3. CASE PDISoverride(s)
      BY <3>3 DEF TypeOK, PDISoverride
    <3>4. CASE PDISoverride_unico(s)
      BY <3>2, <3>4 DEF TypeOK, PDISoverride_unico
    <3>5. CASE PCOLoverride(s)
      BY <3>1, <3>5 DEF TypeOK, PCOLoverride
    <3>6. CASE PCOLoverride_trae(s)
      BY <3>1, <3>2, <3>6, Elegido
    <3>7. CASE ESCoverride(s)
      BY <3>1, <3>7 DEF TypeOK, ESCoverride
    <3>8. CASE OVRro_pic_or_exit_cuenta(s)
      BY <3>8 DEF TypeOK, OVRro_pic_or_exit_cuenta
    <3>9. CASE OVRro_clr_ovr_pend(s)
      BY <3>1, <3>9 DEF OVRro_clr_ovr_pend
    <3> QED BY <1>4, <3>3, <3>4, <3>5, <3>6, <3>7, <3>8, <3>9 DEF PasoMenu
  <2> QED BY <1>4, <2>1, <2>2, <2>3, VivasMismas
<1> QED
  BY <1>1, <1>2, <1>3, <1>4

-----------------------------------------------------------------------------
(* The wait of a teller.                                                   *)

\* What a step does to no teller but one.
MismoCajero(c) ==
    /\ pc'[c] = pc[c] /\ adt'[c] = adt[c] /\ n'[c] = n[c]
    /\ ovr_response'[c] = ovr_response[c] /\ ro_resp'[c] = ro_resp[c]
    /\ host_srv_resp'[c] = host_srv_resp[c]
Avanza == retiros \subseteq retiros' /\ concedidos \subseteq concedidos' /\ fallos' >= fallos
MismaVia(c, s) ==
    /\ ida'[c][s] = ida[c][s] /\ vuelta'[c][s] = vuelta[c][s]
    /\ VivasIgual(c, s)

LEMMA AvanzaSinFallos ==
    ASSUME TypeOK, TypeOK', Avanza
    PROVE  /\ fallos' = 0 => fallos = 0
           /\ retiros' = {} => retiros = {}
           /\ \A c : c \notin retiros' => c \notin retiros
<1>1. fallos \in Nat /\ fallos' \in Nat
  BY DEF TypeOK
<1> QED
  BY <1>1 DEF Avanza

LEMMA QuietoSigue ==
    ASSUME NEW c \in Cajeros, NEW s \in Supervisores, MismaVia(c, s), Quieto(c, s)
    PROVE  Quieto(c, s)'
<1>1. SinVivas(c, s)'
  BY DEF MismaVia, VivasIgual, Quieto, SinVivas
<1> QED
  BY <1>1 DEF MismaVia, Quieto

\* A wait nothing touches goes on.
LEMMA EsperaIgual ==
    ASSUME TypeOK, TypeOK', Avanza, NEW c \in Cajeros, NEW s \in Supervisores,
           MismaVia(c, s), MismoCajero(c)
    PROVE  /\ EsperaCamino(c, s) => EsperaCamino(c, s)'
           /\ EsperaLista(c, s) => EsperaLista(c, s)'
           /\ EsperaRespuesta(c, s) => EsperaRespuesta(c, s)'
<1>1. SinVivas(c, s) => SinVivas(c, s)'
  BY DEF MismaVia, VivasIgual, SinVivas
<1>2. Avisado(c)' = Avisado(c) /\ n'[c] = n[c]
  BY DEF MismoCajero, Avisado
<1>3. ida'[c][s] = ida[c][s] /\ vuelta'[c][s] = vuelta[c][s]
  BY DEF MismaVia
<1>4. EsperaCamino(c, s) => EsperaCamino(c, s)'
  BY <1>1, <1>2, <1>3 DEF EsperaCamino
<1>5. EsperaLista(c, s) => EsperaLista(c, s)'
  <2>1. (\A i \in Nat : Viva(s, c, i) => lista[s][i].ped = n[c])
           => (\A i \in Nat : Viva(s, c, i)' => lista'[s][i].ped = n'[c])
    BY <1>2 DEF MismaVia, VivasIgual
  <2>2. (retiros = {} => ~SinVivas(c, s)) => (retiros' = {} => ~SinVivas(c, s)')
    BY AvanzaSinFallos DEF MismaVia, VivasIgual
  <2>3. \A k : Previos(c, s, k) => Previos(c, s, k)'
    BY <1>3 DEF Previos
  <2> QED BY <1>2, <1>3, <2>1, <2>2, <2>3 DEF EsperaLista, Previos
<1>6. EsperaRespuesta(c, s) => EsperaRespuesta(c, s)'
  <2> SUFFICES ASSUME EsperaRespuesta(c, s) PROVE EsperaRespuesta(c, s)'
    OBVIOUS
  <2> DEFINE k == Len(vuelta[c][s])
  <2>1. Len(vuelta'[c][s]) = k
    BY <1>3
  <2>2. <<c, n[c], s>> \in concedidos => <<c, n'[c], s>> \in concedidos'
    BY <1>2 DEF Avanza
  <2>3. ovr_response'[c] = ovr_response[c] /\ ro_resp'[c] = ro_resp[c]
    BY DEF MismoCajero
  <2>4. Previos(c, s, k - 1) => \A i \in 1 .. k - 1 : ~Final(vuelta'[c][s][i])
    BY <1>3 DEF Previos
  <2>5. fallos' = 0 => fallos = 0
    BY AvanzaSinFallos
  <2> QED BY <1>1, <1>2, <1>3, <2>1, <2>2, <2>3, <2>4, <2>5 DEF EsperaRespuesta, Previos
<1> QED
  BY <1>4, <1>5, <1>6

LEMMA EsperasSigue ==
    ASSUME TypeOK, TypeOK', Avanza, NEW c \in Cajeros, Esperas(c), MismoCajero(c),
           \A s \in Supervisores : MismaVia(c, s)
    PROVE  Esperas(c)'
<1> SUFFICES ASSUME c \notin retiros'
             PROVE  /\ \A s \in Supervisores : pc'[c] = "libre" \/ s # adt'[c] => Quieto(c, s)'
                    /\ pc'[c] = "espera" => \/ EsperaCamino(c, adt[c])'
                                            \/ EsperaLista(c, adt[c])'
                                            \/ EsperaRespuesta(c, adt[c])'
  BY DEF Esperas
<1>1. c \notin retiros /\ pc'[c] = pc[c] /\ adt'[c] = adt[c] /\ adt[c] \in Supervisores
  BY DEF Avanza, MismoCajero, TypeOK
<1>2. PICK s \in Supervisores : s = adt[c]
  BY <1>1
<1>3. \A t \in Supervisores : pc'[c] = "libre" \/ t # adt'[c] => Quieto(c, t)'
  BY <1>1, QuietoSigue DEF Esperas
<1>4. pc[c] = "espera" =>
        EsperaCamino(c, s)' \/ EsperaLista(c, s)' \/ EsperaRespuesta(c, s)'
  BY <1>1, <1>2, EsperaIgual DEF Esperas
<1>5. s = adt'[c]
  BY <1>1, <1>2
<1> QED
  BY <1>1, <1>3, <1>4, <1>5

\* A wait that goes on at the station it was at.
LEMMA EsperasSi ==
    ASSUME NEW c \in Cajeros, NEW s \in Supervisores, s = adt'[c],
           \A t \in Supervisores : t # s => Quieto(c, t)',
           IF pc'[c] = "libre" THEN Quieto(c, s)'
           ELSE EsperaCamino(c, s)' \/ EsperaLista(c, s)' \/ EsperaRespuesta(c, s)'
    PROVE  Esperas(c)'
<1>1. \A t \in Supervisores : pc'[c] = "libre" \/ t # adt'[c] => Quieto(c, t)'
  OBVIOUS
<1>2. pc'[c] = "espera" => \/ EsperaCamino(c, adt[c])'
                           \/ EsperaLista(c, adt[c])'
                           \/ EsperaRespuesta(c, adt[c])'
  OBVIOUS
<1> QED
  BY <1>1, <1>2 DEF Esperas

\* A teller something is there for waits, for that station.
LEMMA EsperaAlguien ==
    ASSUME TypeOK, NEW c \in Cajeros, Esperas(c), c \notin retiros,
           NEW s \in Supervisores, ~Quieto(c, s)
    PROVE  /\ pc[c] = "espera" /\ s = adt[c]
           /\ EsperaCamino(c, s) \/ EsperaLista(c, s) \/ EsperaRespuesta(c, s)
           /\ \A t \in Supervisores : t # s => Quieto(c, t)
<1>1. pc[c] # "libre" /\ s = adt[c]
  BY DEF Esperas
<1>2. pc[c] = "espera"
  BY <1>1 DEF TypeOK
<1> QED
  BY <1>1, <1>2 DEF Esperas

LEMMA AvanzaPaso ==
    ASSUME TypeOK, Next
    PROVE  Avanza
BY HistoriaPaso DEF Avanza

\* What a teller does moves nothing of another.
LEMMA OtroCajero ==
    ASSUME TypeOK, NEW d \in Cajeros, PasoCajero(d), NEW c \in Cajeros
    PROVE  /\ UNCHANGED <<lista, spc, vista, vuelta>>
           /\ c # d => MismoCajero(c) /\ ida'[c] = ida[c]
<1>1. ASSUME NEW s \in Supervisores, SRQ_ro_send_req(d, s)
      PROVE  /\ UNCHANGED <<lista, spc, vista, vuelta>>
             /\ c # d => MismoCajero(c) /\ ida'[c] = ida[c]
  <2>1. c # d => pc'[c] = pc[c] /\ ida'[c] = ida[c]
    BY <1>1 DEF SRQ_ro_send_req, TypeOK
  <2>2. c # d => /\ adt'[c] = adt[c] /\ n'[c] = n[c] /\ ovr_response'[c] = ovr_response[c]
                 /\ ro_resp'[c] = ro_resp[c] /\ host_srv_resp'[c] = host_srv_resp[c]
    BY <1>1 DEF SRQ_ro_send_req, TypeOK, ReiniciaEventos
  <2> QED BY <1>1, <2>1, <2>2 DEF SRQ_ro_send_req, estacion, menu, MismoCajero
<1>2. CASE Despierta(d)
  BY <1>2 DEF Despierta, TypeOK, estacion, menu, canales, MismoCajero
<1>3. CASE Vence(d)
  <2>1. c # d => ida'[c] = ida[c]
    BY <1>3 DEF Vence, TypeOK
  <2> QED BY <1>3, <2>1 DEF Vence, TypeOK, estacion, menu, MismoCajero
<1> QED
  BY <1>1, <1>2, <1>3 DEF PasoCajero

\* A request leaves when nothing is left of the one before.
LEMMA EnviaEspera ==
    ASSUME TypeOK, TypeOK', NEW c \in Cajeros, NEW s \in Supervisores, SRQ_ro_send_req(c, s),
           Esperas(c), Avanza
    PROVE  Esperas(c)'
<1> SUFFICES ASSUME c \notin retiros' PROVE Esperas(c)'
  BY DEF Esperas
<1>1. \A t \in Supervisores : Quieto(c, t)
  BY AvanzaSinFallos DEF Esperas, SRQ_ro_send_req
<1>2. UNCHANGED <<lista, spc, vista, vuelta>>
  BY DEF SRQ_ro_send_req, estacion, menu
<1>3. \A t \in Supervisores : VivasIgual(c, t)
  BY <1>2, VivasMismas
<1>4. adt'[c] = s /\ n'[c] = hechos + 1 /\ ~ovr_response'[c] /\ host_srv_resp'[c] = "ok"
  BY DEF SRQ_ro_send_req, ReiniciaEventos, TypeOK
<1>5. CASE pc' = pc /\ ida' = ida
  <2>1. \A t \in Supervisores : Quieto(c, t)'
    BY <1>1, <1>2, <1>3, <1>5, QuietoSigue DEF MismaVia
  <2>2. pc'[c] = "libre"
    BY <1>5 DEF SRQ_ro_send_req
  <2> QED BY <1>4, <2>1, <2>2, EsperasSi
<1>6. CASE /\ pc' = [pc EXCEPT ![c] = "espera"]
           /\ ida' = [ida EXCEPT ![c][s] = Append(@, [tipo |-> "REQ", ped |-> hechos + 1])]
  <2> DEFINE m == [tipo |-> "REQ", ped |-> hechos + 1]
  <2>1. m \in MsgIda
    <3>1. hechos + 1 \in Numero
      BY DEF SRQ_ro_send_req, TypeOK, Numero
    <3> QED BY <3>1, TipoMensajes
  <2>2. Envia(c, s, m)
    BY <1>6 DEF Envia
  <2> HIDE DEF m
  <2>3. /\ \A d \in Cajeros, t \in Supervisores : d # c \/ t # s => ida'[d][t] = ida[d][t]
        /\ Len(ida'[c][s]) = Len(ida[c][s]) + 1
        /\ ida'[c][s][Len(ida[c][s]) + 1] = m
    BY <2>1, <2>2, IdaMas
  <2>4. \A t \in Supervisores : t # s => Quieto(c, t)'
    BY <1>1, <1>2, <1>3, <2>3, QuietoSigue DEF MismaVia
  <2>5. Len(ida'[c][s]) = 1 /\ ida'[c][s][1] = m
    <3>1. Len(ida[c][s]) = 0
      BY <1>1 DEF Quieto
    <3> QED BY <2>3, <3>1
  <2>6. vuelta'[c][s] = <<>> /\ SinVivas(c, s)'
    BY <1>1, <1>2, <1>3 DEF Quieto, VivasIgual, SinVivas
  <2>7. ~Avisado(c)'
    BY <1>4 DEF Avisado
  <2>8. m = [tipo |-> "REQ", ped |-> n'[c]]
    BY <1>4 DEF m
  <2>9. EsperaCamino(c, s)'
    BY <2>5, <2>6, <2>7, <2>8 DEF EsperaCamino
  <2>10. pc'[c] = "espera"
    BY <1>6 DEF TypeOK
  <2> QED BY <1>4, <2>4, <2>9, <2>10, EsperasSi
<1> QED
  BY <1>5, <1>6 DEF SRQ_ro_send_req

\* The wait ends when its answer was seen, and nothing is left of it.
LEMMA DespiertaEspera ==
    ASSUME TypeOK, TypeOK', NEW c \in Cajeros, Despierta(c), Esperas(c), Avanza
    PROVE  /\ Esperas(c)'
           /\ Concede(c) /\ c \notin retiros => <<c, n[c], adt[c]>> \in concedidos
<1> SUFFICES ASSUME c \notin retiros
             PROVE  /\ Esperas(c)'
                    /\ Concede(c) => <<c, n[c], adt[c]>> \in concedidos
  BY AvanzaSinFallos DEF Esperas
<1>1. PICK s \in Supervisores : s = adt[c]
  BY DEF TypeOK
<1>2. UNCHANGED <<lista, spc, vista, vuelta, ida, adt, n, ro_resp, host_srv_resp>>
  BY DEF Despierta, estacion, menu, canales
<1>3. \A t \in Supervisores : MismaVia(c, t)
  BY <1>2, VivasMismas DEF MismaVia
<1>4. /\ pc[c] = "espera"
      /\ \A t \in Supervisores : t # s => Quieto(c, t)
      /\ EsperaCamino(c, s) \/ EsperaLista(c, s) \/ EsperaRespuesta(c, s)
  BY <1>1 DEF Despierta, Esperas
<1>5. CASE Rechazado(c) \/ Contestado(c)
  <2>1. pc'[c] = "libre" /\ Avisado(c)
    BY <1>5 DEF Despierta, TypeOK, Rechazado, Contestado, Avisado
  <2>2. EsperaRespuesta(c, s)
    BY <1>4, <2>1 DEF EsperaCamino, EsperaLista
  <2>3. Len(vuelta[c][s]) = 0
    BY <2>1, <2>2 DEF EsperaRespuesta
  <2>4. vuelta[c][s] = <<>>
    <3>1. vuelta[c][s] \in Seq(MsgVuelta)
      BY DEF TypeOK
    <3> QED BY <2>3, <3>1, EmptySeq
  <2>5. Quieto(c, s)
    <3>1. ida[c][s] = <<>> /\ SinVivas(c, s)
      BY <2>2 DEF EsperaRespuesta
    <3> QED BY <2>4, <3>1 DEF Quieto
  <2>6. \A t \in Supervisores : Quieto(c, t)'
    BY <1>3, <1>4, <2>5, QuietoSigue
  <2>7. Concede(c) => <<c, n[c], s>> \in concedidos
    BY <2>2 DEF EsperaRespuesta, Concede, Contestado
  <2>8. s = adt'[c]
    BY <1>1, <1>2
  <2>9. Esperas(c)'
    BY <2>1, <2>6, <2>8, EsperasSi
  <2> QED BY <1>1, <2>7, <2>9
<1>6. CASE ~(Rechazado(c) \/ Contestado(c))
  <2>1. pc'[c] = pc[c] /\ ovr_response'[c] = ovr_response[c]
    BY <1>6 DEF Despierta, TypeOK
  <2>2. MismoCajero(c)
    BY <1>2, <2>1 DEF MismoCajero
  <2>3. ~Concede(c)
    BY <1>6 DEF Concede
  <2> QED BY <1>3, <2>2, <2>3, EsperasSigue
<1> QED
  BY <1>5, <1>6

LEMMA EsperasCajero ==
    ASSUME TypeOK, TypeOK', Avanza, NEW d \in Cajeros, PasoCajero(d), NEW c \in Cajeros,
           Esperas(c)
    PROVE  Esperas(c)'
<1>1. CASE c # d
  <2>1. UNCHANGED <<lista, spc, vista, vuelta>> /\ MismoCajero(c) /\ ida'[c] = ida[c]
    BY <1>1, OtroCajero
  <2>2. \A t \in Supervisores : MismaVia(c, t)
    BY <2>1, VivasMismas DEF MismaVia
  <2> QED BY <2>1, <2>2, EsperasSigue
<1>2. CASE c = d
  <2>1. CASE Vence(c)
    <3>1. c \in retiros'
      BY <2>1 DEF Vence
    <3> QED BY <3>1 DEF Esperas
  <2> QED BY <1>2, <2>1, EnviaEspera, DespiertaEspera DEF PasoCajero
<1> QED
  BY <1>1, <1>2

\* A request or a cancel of another teller leaves the requests of this one.
LEMMA VivasPedido ==
    ASSUME TypeOK, NEW s \in Supervisores, NEW d \in Cajeros, NEW m \in MsgIda,
           RecibePedido(s, d, m), UNCHANGED menu, NEW c \in Cajeros
    PROVE  /\ \A i \in Nat : Viva(s, c, i) => Viva(s, c, i)' /\ lista'[s][i] = lista[s][i]
           /\ \A i \in Nat : Viva(s, c, i)' =>
                 \/ Viva(s, c, i) /\ lista'[s][i] = lista[s][i]
                 \/ c = d /\ i = Len(lista[s]) + 1 /\ lista'[s][i].ped = m.ped
           /\ Len(lista'[s]) = Len(lista[s]) + 1 /\ Len(lista[s]) \in Nat
           /\ lista'[s][Len(lista[s]) + 1].oper = d
           /\ lista'[s][Len(lista[s]) + 1].ped = m.ped
<1> DEFINE x == [seq_num |-> Asigna(s), oper |-> d, ped |-> m.ped]
           L == lista[s]
<1>1. lista'[s] = Append(L, x)
  BY DEF RecibePedido, TypeOK
<1>2. x \in OVR_REQ
  <2>1. Asigna(s) \in SeqNum
    <3>1. item_count[s] \in 0 .. Ciclo - 1
      BY DEF TypeOK, SeqNum
    <3> QED BY <3>1 DEF SeqNum, Asigna
  <2>2. m.ped \in Numero
    BY DEF MsgIda
  <2> HIDE DEF Asigna
  <2> QED BY <2>1, <2>2 DEF OVR_REQ
<1>3. x.oper = d /\ x.ped = m.ped
  OBVIOUS
<1>4. L \in Seq(OVR_REQ)
  BY DEF TypeOK
<1> HIDE DEF x, L
<1>5. /\ Len(lista'[s]) = Len(L) + 1 /\ Len(L) \in Nat
      /\ \A i \in 1 .. Len(L) : lista'[s][i] = L[i]
      /\ lista'[s][Len(L) + 1] = x
  BY <1>1, <1>2, <1>4, AlFinal
<1>6. \A i \in 1 .. Len(lista'[s]) : i \in 1 .. Len(L) \/ i = Len(L) + 1
  BY <1>5
<1>7. UNCHANGED <<spc, vista>>
  BY DEF menu
<1>8. ASSUME NEW i \in Nat, Viva(s, c, i) PROVE Viva(s, c, i)' /\ lista'[s][i] = lista[s][i]
  <2>1. i \in 1 .. Len(L) /\ i \in 1 .. Len(lista'[s])
    BY <1>5, <1>8 DEF Viva, L
  <2>2. lista'[s][i] = lista[s][i]
    BY <1>5, <2>1 DEF L
  <2> QED BY <1>7, <1>8, <2>1, <2>2 DEF Viva
<1>9. ASSUME NEW i \in Nat, Viva(s, c, i)'
      PROVE  \/ Viva(s, c, i) /\ lista'[s][i] = lista[s][i]
             \/ c = d /\ i = Len(lista[s]) + 1 /\ lista'[s][i].ped = m.ped
  <2>1. i \in 1 .. Len(lista'[s]) /\ lista'[s][i].oper = c
    BY <1>9 DEF Viva
  <2>2. CASE i \in 1 .. Len(L)
    <3>1. lista'[s][i] = lista[s][i]
      BY <1>5, <2>2 DEF L
    <3> QED BY <1>7, <1>9, <2>2, <3>1 DEF Viva, L
  <2>3. CASE i = Len(L) + 1
    BY <1>3, <1>5, <2>1, <2>3 DEF L
  <2> QED BY <1>6, <2>1, <2>2, <2>3
<1> QED
  BY <1>3, <1>5, <1>8, <1>9 DEF L

LEMMA VivasCancel ==
    ASSUME TypeOK, NEW s \in Supervisores, NEW d \in Cajeros, NEW m,
           RecibeCancel(s, d, m), UNCHANGED menu, NEW c \in Cajeros, c # d
    PROVE  VivasIgual(c, s)
<1>1. lista'[s] = RestoDe(s, d) /\ UNCHANGED <<spc, vista>>
  BY CancelaHace DEF TypeOK, menu
<1>2. CASE RestoDe(s, d) = lista[s]
  BY <1>1, <1>2, VivasMismas
<1>3. ASSUME NEW k \in 1 .. Len(lista[s]), RestoDe(s, d) = RemoveAt(lista[s], k),
             lista[s][k].oper = d
      PROVE  VivasIgual(c, s)
  <2>1. lista'[s] = RemoveAt(lista[s], k)
    BY <1>1, <1>3
  <2> DEFINE J(i) == IF i < k THEN i ELSE i + 1
  <2>2. \A i \in 1 .. Len(lista'[s]) :
           J(i) \in 1 .. Len(lista[s]) /\ J(i) # k /\ lista'[s][i] = lista[s][J(i)]
    BY <2>1, Quedan
  <2>3. \A j \in 1 .. Len(lista[s]) :
            j # k => \E i \in 1 .. Len(lista'[s]) : lista'[s][i] = lista[s][j]
    BY <2>1, Quedan
  <2> HIDE DEF J
  <2>4. ASSUME NEW i \in Nat, Viva(s, c, i)'
        PROVE  \E j \in Nat : Viva(s, c, j) /\ lista'[s][i].ped = lista[s][j].ped
    <3>1. PICK j \in 1 .. Len(lista[s]) : lista'[s][i] = lista[s][j]
      BY <2>2, <2>4 DEF Viva
    <3>2. Viva(s, c, j) /\ j \in Nat
      BY <1>1, <2>4, <3>1 DEF Viva
    <3> QED BY <3>1, <3>2
  <2>5. ASSUME NEW j \in Nat, Viva(s, c, j) PROVE \E i \in Nat : Viva(s, c, i)'
    <3>1. j \in 1 .. Len(lista[s]) /\ j # k
      BY <1>3, <2>5 DEF Viva
    <3>2. PICK i \in 1 .. Len(lista'[s]) : lista'[s][i] = lista[s][j]
      BY <2>3, <3>1
    <3>3. i \in Nat
      OBVIOUS
    <3>4. Viva(s, c, i)'
      BY <1>1, <2>5, <3>2 DEF Viva
    <3> QED BY <3>3, <3>4
  <2> QED BY <2>4, <2>5 DEF VivasIgual, SinVivas
<1> QED
  BY <1>2, <1>3, CancelaUno

\* A message of another teller.
LEMMA EsperasOtro ==
    ASSUME TypeOK, TypeOK', Avanza, NEW d \in Cajeros, NEW s \in Supervisores,
           PasoMensaje(d, s), NEW c \in Cajeros, c # d, Esperas(c)
    PROVE  Esperas(c)'
<1>1. /\ MismoCajero(c) /\ UNCHANGED menu
      /\ \A t \in Supervisores : /\ ida'[c][t] = ida[c][t] /\ vuelta'[c][t] = vuelta[c][t]
                                 /\ t # s => lista'[t] = lista[t]
      /\ EventoSupervisor(s, d) \/ lista'[s] = lista[s]
  <2>1. CASE EventoCajero(d, s)
    <3>1. MismoCajero(c)
      <4>1. UNCHANGED cajero
        BY <2>1 DEF EventoCajero
      <4>2. /\ ovr_response'[c] = ovr_response[c] /\ ro_resp'[c] = ro_resp[c]
            /\ host_srv_resp'[c] = host_srv_resp[c]
        <5>1. CASE pc[d] = "espera"
          <6> DEFINE h == Head(vuelta[d][s])
                     v == IF h.tipo = "ERROR" THEN "MOA_ERR"
                          ELSE IF h.tipo = "MOA_RSP" THEN "ok" ELSE host_srv_resp[d]
                     r == ovr_response[d] \/ h.tipo = "RESP"
                     x == IF h.tipo = "RESP" THEN h.resp ELSE ro_resp[d]
          <6>1. /\ host_srv_resp' = [host_srv_resp EXCEPT ![d] = v]
                /\ ovr_response' = [ovr_response EXCEPT ![d] = r]
                /\ ro_resp' = [ro_resp EXCEPT ![d] = x]
            BY <2>1, <5>1 DEF EventoCajero
          <6> HIDE DEF v, r, x
          <6> QED BY <6>1 DEF TypeOK
        <5>2. CASE pc[d] # "espera"
          BY <2>1, <5>2 DEF EventoCajero
        <5> QED BY <5>1, <5>2
      <4> QED BY <4>1, <4>2 DEF MismoCajero, cajero
    <3>2. vuelta'[c] = vuelta[c]
      BY <2>1 DEF EventoCajero, TypeOK
    <3> QED BY <2>1, <3>1, <3>2 DEF EventoCajero, estacion
  <2>2. CASE NoEntrega(d, s)
    BY <2>2 DEF NoEntrega, TypeOK, MismoCajero, cajero, eventos, estacion
  <2>3. CASE PierdeRespuesta(d, s)
    BY <2>3 DEF PierdeRespuesta, TypeOK, MismoCajero, cajero, eventos, estacion
  <2>4. CASE EventoSupervisor(s, d)
    <3>1. MismoCajero(c) /\ UNCHANGED menu /\ ida'[c] = ida[c]
      BY <2>4 DEF EventoSupervisor, TypeOK, MismoCajero, cajero, eventos
    <3>2. CASE RecibePedido(s, d, Head(ida[d][s]))
      BY <2>4, <3>1, <3>2 DEF RecibePedido, TypeOK
    <3>3. CASE RecibeCancel(s, d, Head(ida[d][s]))
      BY <2>4, <3>1, <3>3 DEF RecibeCancel, TypeOK
    <3> QED BY <2>4, <3>2, <3>3 DEF EventoSupervisor
  <2> QED BY <2>1, <2>2, <2>3, <2>4 DEF PasoMensaje
<1>2. UNCHANGED <<spc, vista>>
  BY <1>1 DEF menu
<1>3. \A t \in Supervisores : lista'[t] = lista[t] => VivasIgual(c, t)
  BY <1>2, VivasMismas
<1>4. CASE EventoSupervisor(s, d)
  <2>1. Head(ida[d][s]) \in MsgIda
    BY <1>4, TipoPone DEF EventoSupervisor
  <2>2. CASE RecibePedido(s, d, Head(ida[d][s]))
    <3>1. /\ \A i \in Nat : Viva(s, c, i) => Viva(s, c, i)'
          /\ \A i \in Nat : Viva(s, c, i)' => Viva(s, c, i) /\ lista'[s][i] = lista[s][i]
      BY <1>1, <2>1, <2>2, VivasPedido
    <3> QED BY <1>1, <1>3, <3>1, EsperasSigue DEF VivasIgual, SinVivas, MismaVia
  <2>3. CASE RecibeCancel(s, d, Head(ida[d][s]))
    <3>1. VivasIgual(c, s)
      BY <1>1, <2>3, VivasCancel
    <3> QED BY <1>1, <1>3, <3>1, EsperasSigue DEF MismaVia
  <2> QED BY <1>4, <2>2, <2>3 DEF EventoSupervisor
<1>5. CASE lista'[s] = lista[s]
  BY <1>1, <1>3, <1>5, EsperasSigue DEF MismaVia
<1> QED
  BY <1>1, <1>4, <1>5

LEMMA SacaHace ==
    ASSUME TypeOK, NEW c \in Cajeros, NEW s \in Supervisores, Saca(c, s)
    PROVE  /\ \A d \in Cajeros, t \in Supervisores :
                 d # c \/ t # s => vuelta'[d][t] = vuelta[d][t]
           /\ Len(vuelta'[c][s]) = Len(vuelta[c][s]) - 1 /\ Len(vuelta[c][s]) \in Nat \ {0}
           /\ \A i \in 1 .. Len(vuelta[c][s]) - 1 : vuelta'[c][s][i] = vuelta[c][s][i + 1]
           /\ Head(vuelta[c][s]) = vuelta[c][s][1] /\ vuelta[c][s][1] \in MsgVuelta
BY VueltaMenos DEF Saca

\* An answer gets to the teller, or is lost on its way.
LEMMA SacaEspera ==
    ASSUME TypeOK, TypeOK', Avanza, NEW c \in Cajeros, NEW s \in Supervisores, Esperas(c),
           EventoCajero(c, s) \/ PierdeRespuesta(c, s)
    PROVE  Esperas(c)'
<1> SUFFICES ASSUME c \notin retiros PROVE Esperas(c)'
  BY AvanzaSinFallos DEF Esperas
<1> DEFINE k == Len(vuelta[c][s])
           h == vuelta[c][s][1]
<1>0. vuelta[c][s] # <<>> /\ vuelta' = [vuelta EXCEPT ![c][s] = Tail(@)]
  BY DEF EventoCajero, PierdeRespuesta
<1>1. vuelta[c][s] # <<>> /\ UNCHANGED <<pc, adt, n, lista, spc, vista, ida, retiros, concedidos>>
  BY DEF EventoCajero, PierdeRespuesta, cajero, estacion, menu, historia
<1>2. /\ \A t \in Supervisores : t # s => vuelta'[c][t] = vuelta[c][t]
      /\ Len(vuelta'[c][s]) = k - 1 /\ k \in Nat \ {0}
      /\ \A i \in 1 .. k - 1 : vuelta'[c][s][i] = vuelta[c][s][i + 1]
      /\ Head(vuelta[c][s]) = h /\ h \in MsgVuelta
  <2>1. /\ \A d \in Cajeros, t \in Supervisores :
              d # c \/ t # s => vuelta'[d][t] = vuelta[d][t]
        /\ Len(vuelta'[c][s]) = Len(vuelta[c][s]) - 1 /\ Len(vuelta[c][s]) \in Nat \ {0}
        /\ \A i \in 1 .. Len(vuelta[c][s]) - 1 : vuelta'[c][s][i] = vuelta[c][s][i + 1]
        /\ Head(vuelta[c][s]) = vuelta[c][s][1] /\ vuelta[c][s][1] \in MsgVuelta
    BY <1>0, VueltaMenos
  <2> QED BY <2>1
<1> HIDE DEF h
<1>k. k = Len(vuelta[c][s])
  OBVIOUS
<1>h. h = vuelta[c][s][1]
  BY DEF h
<1> HIDE DEF k
<1>3. /\ pc[c] = "espera" /\ s = adt[c]
      /\ EsperaCamino(c, s) \/ EsperaLista(c, s) \/ EsperaRespuesta(c, s)
      /\ \A t \in Supervisores : t # s => Quieto(c, t)
  <2>1. ~Quieto(c, s)
    BY <1>1 DEF Quieto
  <2> QED BY <2>1, EsperaAlguien
<1>4. \A t \in Supervisores : VivasIgual(c, t)
  BY <1>1, VivasMismas
<1>5. \A t \in Supervisores : t # s => Quieto(c, t)'
  BY <1>1, <1>2, <1>3, <1>4, QuietoSigue DEF MismaVia
<1>6. /\ ~Avisado(c) /\ ~Final(h) => ~Avisado(c)'
      /\ ~Avisado(c) /\ ovr_response'[c] /\ ro_resp'[c] = "grant" => h.resp = "grant"
      /\ fallos' = 0 /\ h.tipo = "RESP" => ovr_response'[c]
  <2>1. CASE EventoCajero(c, s)
    <3> DEFINE v == IF h.tipo = "ERROR" THEN "MOA_ERR"
                    ELSE IF h.tipo = "MOA_RSP" THEN "ok" ELSE host_srv_resp[c]
               r == ovr_response[c] \/ h.tipo = "RESP"
               x == IF h.tipo = "RESP" THEN h.resp ELSE ro_resp[c]
    <3>1. /\ host_srv_resp' = [host_srv_resp EXCEPT ![c] = v]
          /\ ovr_response' = [ovr_response EXCEPT ![c] = r]
          /\ ro_resp' = [ro_resp EXCEPT ![c] = x]
      BY <1>2, <1>3, <2>1 DEF EventoCajero
    <3> HIDE DEF v, r, x
    <3>2. host_srv_resp'[c] = v /\ ovr_response'[c] = r /\ ro_resp'[c] = x
      BY <3>1 DEF TypeOK
    <3> QED BY <3>2 DEF v, r, x, Avisado, Final
  <2>2. CASE PierdeRespuesta(c, s)
    <3>1. UNCHANGED <<ovr_response, host_srv_resp>> /\ fallos' = fallos + 1 /\ fallos \in Nat
      BY <2>2 DEF PierdeRespuesta, eventos, TypeOK
    <3> QED BY <3>1 DEF Avisado
  <2> QED BY <2>1, <2>2
<1>7. vuelta[c][s] \in Seq(MsgVuelta) /\ vuelta'[c][s] \in Seq(MsgVuelta)
  BY DEF TypeOK
<1>8. EsperaLista(c, s)' \/ EsperaRespuesta(c, s)'
  <2>1. CASE EsperaCamino(c, s)
    BY <1>1, <2>1 DEF EsperaCamino
  <2>2. CASE EsperaLista(c, s)
    <3>1. \A i \in 1 .. k : ~Final(vuelta[c][s][i])
      BY <1>k, <2>2 DEF EsperaLista, Previos
    <3>2. ~Final(h) /\ \A i \in 1 .. k - 1 : ~Final(vuelta'[c][s][i])
      <4>1. ~Final(h)
        BY <1>2, <1>h, <3>1
      <4>2. ASSUME NEW i \in 1 .. k - 1 PROVE ~Final(vuelta'[c][s][i])
        <5>1. vuelta'[c][s][i] = vuelta[c][s][i + 1] /\ i + 1 \in 1 .. k
          BY <1>2
        <5> QED BY <3>1, <5>1
      <4> QED BY <4>1, <4>2
    <3>3. Previos(c, s, Len(vuelta[c][s]))'
      BY <1>2, <3>2 DEF Previos
    <3>4. ~Avisado(c)'
      BY <1>6, <2>2, <3>2 DEF EsperaLista
    <3>5. ida'[c][s] = <<>>
      BY <1>1, <2>2 DEF EsperaLista
    <3>6. \A i \in Nat : Viva(s, c, i)' => lista'[s][i].ped = n'[c]
      BY <1>1, <1>4, <2>2 DEF EsperaLista, VivasIgual
    <3>7. retiros' = {} => ~SinVivas(c, s)'
      BY <1>1, <1>4, <2>2 DEF EsperaLista, VivasIgual
    <3> QED BY <3>3, <3>4, <3>5, <3>6, <3>7 DEF EsperaLista
  <2>3. CASE EsperaRespuesta(c, s)
    <3>1. /\ ida[c][s] = <<>> /\ SinVivas(c, s) /\ ~Avisado(c)
          /\ \A i \in 1 .. k - 1 : ~Final(vuelta[c][s][i])
          /\ vuelta[c][s][k].resp = "grant" => <<c, n[c], s>> \in concedidos
          /\ fallos = 0 => vuelta[c][s][k].tipo = "RESP"
      BY <1>2, <1>k, <2>3 DEF EsperaRespuesta, Previos
    <3>2. ida'[c][s] = <<>> /\ SinVivas(c, s)'
      BY <1>1, <1>4, <3>1 DEF VivasIgual, SinVivas
    <3>3. CASE k = 1
      <4>1. Len(vuelta'[c][s]) = 0
        BY <1>2, <3>3
      <4>2. ovr_response'[c] /\ ro_resp'[c] = "grant" => <<c, n'[c], s>> \in concedidos'
        BY <1>1, <1>6, <1>h, <3>1, <3>3
      <4>3. fallos' = 0 => ovr_response'[c]
        BY <1>6, <1>h, <3>1, <3>3, AvanzaSinFallos
      <4>4. \A i \in 1 .. Len(vuelta'[c][s]) - 1 : ~Final(vuelta'[c][s][i])
        BY <4>1
      <4> QED BY <3>2, <4>1, <4>2, <4>3, <4>4 DEF EsperaRespuesta, Previos
    <3>4. CASE k # 1
      <4>1. 1 \in 1 .. k - 1
        BY <1>2, <3>4
      <4>2. ~Avisado(c)'
        <5>1. ~Final(h)
          BY <1>h, <3>1, <4>1
        <5> QED BY <1>6, <3>1, <5>1
      <4>3. vuelta'[c][s][Len(vuelta'[c][s])] = vuelta[c][s][k] /\ Len(vuelta'[c][s]) # 0
        <5>1. k - 1 \in 1 .. k - 1
          BY <1>2, <3>4
        <5>2. vuelta'[c][s][k - 1] = vuelta[c][s][(k - 1) + 1] /\ (k - 1) + 1 = k
          BY <1>2, <5>1
        <5> QED BY <1>2, <5>1, <5>2
      <4>4. \A i \in 1 .. Len(vuelta'[c][s]) - 1 : ~Final(vuelta'[c][s][i])
        <5> SUFFICES ASSUME NEW i \in 1 .. (k - 1) - 1 PROVE ~Final(vuelta'[c][s][i])
          BY <1>2
        <5>1. i \in 1 .. k - 1 /\ i + 1 \in 1 .. k - 1
          BY <1>2
        <5> QED BY <1>2, <3>1, <5>1
      <4>5. ~ovr_response'[c]
        BY <4>2 DEF Avisado
      <4>6. fallos' = 0 => vuelta'[c][s][Len(vuelta'[c][s])].tipo = "RESP"
        BY <3>1, <4>3, AvanzaSinFallos
      <4>7. vuelta'[c][s][Len(vuelta'[c][s])].resp = "grant" => <<c, n'[c], s>> \in concedidos'
        BY <1>1, <3>1, <4>3
      <4> QED BY <3>2, <4>2, <4>3, <4>4, <4>5, <4>6, <4>7 DEF EsperaRespuesta, Previos
    <3> QED BY <3>3, <3>4
  <2> QED BY <1>3, <2>1, <2>2, <2>3
<1>9. s = adt'[c] /\ pc'[c] # "libre"
  BY <1>1, <1>3
<1> QED
  BY <1>5, <1>8, <1>9, EsperasSi

\* A request gets to the station, or comes back.
LEMMA LlegaEspera ==
    ASSUME TypeOK, TypeOK', Avanza, NEW c \in Cajeros, NEW s \in Supervisores, Esperas(c),
           Est(s), EventoSupervisor(s, c) \/ NoEntrega(c, s)
    PROVE  Esperas(c)'
<1> SUFFICES ASSUME c \notin retiros PROVE Esperas(c)'
  BY AvanzaSinFallos DEF Esperas
<1> DEFINE m == ida[c][s][1]
<1>0. ida[c][s] # <<>> /\ ida' = [ida EXCEPT ![c][s] = Tail(@)]
  BY DEF EventoSupervisor, NoEntrega
<1>1. /\ ida[c][s] # <<>>
      /\ UNCHANGED <<pc, adt, n, ovr_response, ro_resp, host_srv_resp, menu, retiros, concedidos>>
  BY DEF EventoSupervisor, NoEntrega, cajero, eventos, historia
<1>2. /\ \A t \in Supervisores : t # s => ida'[c][t] = ida[c][t]
      /\ Len(ida'[c][s]) = Len(ida[c][s]) - 1
      /\ Head(ida[c][s]) = m /\ m \in MsgIda
  <2>1. /\ \A d \in Cajeros, t \in Supervisores :
              d # c \/ t # s => ida'[d][t] = ida[d][t]
        /\ Len(ida'[c][s]) = Len(ida[c][s]) - 1
        /\ Head(ida[c][s]) = ida[c][s][1] /\ ida[c][s][1] \in MsgIda
    BY <1>0, IdaMenos
  <2> QED BY <2>1
<1>3. /\ pc[c] = "espera" /\ s = adt[c] /\ EsperaCamino(c, s)
      /\ \A t \in Supervisores : t # s => Quieto(c, t)
  <2>1. ~Quieto(c, s)
    BY <1>1 DEF Quieto
  <2> QED BY <1>1, <2>1, EsperaAlguien DEF EsperaLista, EsperaRespuesta
<1>4. /\ Len(ida[c][s]) = 1 /\ m = [tipo |-> "REQ", ped |-> n[c]]
      /\ vuelta[c][s] = <<>> /\ SinVivas(c, s) /\ ~Avisado(c)
  BY <1>3 DEF EsperaCamino
<1>5. ida'[c][s] = <<>>
  <2>1. Len(ida'[c][s]) = 0
    BY <1>2, <1>4
  <2>2. ida'[c][s] \in Seq(MsgIda)
    BY DEF TypeOK
  <2> QED BY <2>1, <2>2, EmptySeq
<1>6. ~Avisado(c)' /\ ~ovr_response'[c] /\ n'[c] = n[c] /\ m.ped = n[c] /\ m.tipo = "REQ"
  BY <1>1, <1>4 DEF Avisado
<1>7. UNCHANGED <<spc, vista>>
  BY <1>1 DEF menu
<1>8. s = adt'[c] /\ pc'[c] # "libre"
  BY <1>1, <1>3
<1> HIDE DEF m
<1>9. ASSUME NEW x \in MsgVuelta, Anade(c, s, x)
      PROVE  /\ \A t \in Supervisores : t # s => vuelta'[c][t] = vuelta[c][t]
             /\ Len(vuelta'[c][s]) = 1 /\ vuelta'[c][s][1] = x
  <2>1. /\ \A t \in Supervisores : t # s => vuelta'[c][t] = vuelta[c][t]
        /\ Len(vuelta'[c][s]) = Len(vuelta[c][s]) + 1
        /\ vuelta'[c][s][Len(vuelta[c][s]) + 1] = x
    BY <1>9, VueltaMas
  <2>2. Len(vuelta[c][s]) = 0
    BY <1>4
  <2> QED BY <2>1, <2>2
<1>10. CASE NoEntrega(c, s)
  <2>1. UNCHANGED lista /\ Anade(c, s, Msg("ERROR")) /\ fallos' = fallos + 1 /\ fallos \in Nat
    BY <1>10 DEF NoEntrega, estacion, Anade, TypeOK
  <2>2. /\ \A t \in Supervisores : t # s => vuelta'[c][t] = vuelta[c][t]
        /\ Len(vuelta'[c][s]) = 1 /\ vuelta'[c][s][1] = Msg("ERROR")
    BY <1>9, <2>1, TipoMensajes
  <2>3. \A t \in Supervisores : VivasIgual(c, t)
    BY <1>7, <2>1, VivasMismas
  <2>4. \A t \in Supervisores : t # s => Quieto(c, t)'
    BY <1>2, <1>3, <2>2, <2>3, QuietoSigue DEF MismaVia
  <2>5. vuelta'[c][s][1].resp # "grant" /\ fallos' # 0
    BY <2>1, <2>2 DEF Msg
  <2>6. SinVivas(c, s)'
    BY <1>4, <2>3 DEF VivasIgual, SinVivas
  <2>7. EsperaRespuesta(c, s)'
    BY <1>5, <1>6, <2>2, <2>5, <2>6 DEF EsperaRespuesta, Previos
  <2> QED BY <1>8, <2>4, <2>7, EsperasSi
<1>11. CASE EventoSupervisor(s, c)
  <2>1. RecibePedido(s, c, m)
    BY <1>2, <1>6, <1>11 DEF EventoSupervisor, RecibeCancel
  <2>2. Anade(c, s, Msg("MOA_RSP")) /\ \A t \in Supervisores : t # s => lista'[t] = lista[t]
    BY <2>1 DEF RecibePedido, Anade, TypeOK
  <2>3. /\ \A t \in Supervisores : t # s => vuelta'[c][t] = vuelta[c][t]
        /\ Len(vuelta'[c][s]) = 1 /\ vuelta'[c][s][1] = Msg("MOA_RSP")
    BY <1>9, <2>2, TipoMensajes
  <2>4. \A t \in Supervisores : t # s => VivasIgual(c, t)
    BY <1>7, <2>2, VivasMismas
  <2>5. \A t \in Supervisores : t # s => Quieto(c, t)'
    BY <1>2, <1>3, <2>3, <2>4, QuietoSigue DEF MismaVia
  <2>6. /\ \A i \in Nat : Viva(s, c, i)' => lista'[s][i].ped = m.ped
        /\ Len(lista'[s]) = Len(lista[s]) + 1 /\ Len(lista[s]) \in Nat
        /\ lista'[s][Len(lista[s]) + 1].oper = c
        /\ lista'[s][Len(lista[s]) + 1].ped = m.ped
    BY <1>1, <1>2, <1>4, <2>1, VivasPedido DEF SinVivas
  <2>7. vista[s].hay => vista[s].ped # m.ped
    <3>1. EnCamino(c, s, 1) /\ 1 \in Nat
      BY <1>4, <1>6 DEF EnCamino, m
    <3>2. ida[c][s][1].ped = m.ped
      BY DEF m
    <3>3. m.ped \in 1 .. hechos
      BY <3>1, <3>2 DEF Est, Camino
    <3>4. m.ped \in Enviados(s)
      BY <3>1, <3>2, <3>3 DEF Enviados
    <3> QED BY <3>4 DEF Est, Camino
  <2>8. ~SinVivas(c, s)'
    <3>1. PICK i \in Nat : i = Len(lista[s]) + 1
      BY <2>6
    <3>2. i \in 1 .. Len(lista'[s]) /\ lista'[s][i].oper = c /\ lista'[s][i].ped = m.ped
      BY <2>6, <3>1
    <3>3. Viva(s, c, i)'
      BY <1>7, <2>7, <3>2 DEF Viva
    <3> QED BY <3>3 DEF SinVivas
  <2>10. Previos(c, s, Len(vuelta[c][s]))'
    BY <2>3 DEF Previos, Final, Msg
  <2>11. EsperaLista(c, s)'
    BY <1>5, <1>6, <2>6, <2>8, <2>10 DEF EsperaLista
  <2> QED BY <1>8, <2>5, <2>11, EsperasSi
<1> QED
  BY <1>10, <1>11

\* What the menu of a supervisor sends to a teller: nothing, an acknowledge of the
\* request it shows, or the answer to the one shown.
MenuCalla(c, s) ==
    /\ \A t \in Supervisores : vuelta'[c][t] = vuelta[c][t]
    /\ ~(spc[s] = "pantalla" /\ spc'[s] = "borra" /\ vista[s].hay /\ vista[s].oper = c)
    /\ De(concedidos', c) = De(concedidos, c)
MenuAcusa(c, s) ==
    /\ spc[s] # "borra" /\ spc'[s] = "pantalla" /\ UNCHANGED <<lista, concedidos>>
    /\ Anade(c, s, Msg("ACKN"))
    /\ \E i \in 1 .. Len(lista[s]) : lista[s][i].oper = c
MenuContesta(c, s, d) ==
    /\ spc[s] = "pantalla" /\ spc'[s] = "borra" /\ UNCHANGED <<lista, vista>>
    /\ vista[s].hay /\ vista[s].oper = c
    /\ Anade(c, s, [tipo |-> "RESP", resp |-> d])
    /\ concedidos' = IF d = "grant" THEN concedidos \cup {<<c, vista[s].ped, s>>}
                     ELSE concedidos

LEMMA MuestraAcusa ==
    ASSUME TypeOK, NEW s \in Supervisores, NEW i \in 1 .. Len(lista[s]), Muestra(s, i),
           spc[s] # "borra", UNCHANGED <<lista, concedidos>>, NEW c \in Cajeros
    PROVE  MenuCalla(c, s) \/ MenuAcusa(c, s)
<1>1. PICK e \in OVR_REQ :
        /\ e = lista[s][i] /\ e.oper \in Cajeros /\ Anade(e.oper, s, Msg("ACKN"))
        /\ spc' = [spc EXCEPT ![s] = "pantalla"]
  BY MuestraHace DEF Anade
<1>2. spc'[s] = "pantalla"
  BY <1>1 DEF TypeOK
<1>3. CASE c = e.oper
  BY <1>1, <1>2, <1>3 DEF MenuAcusa
<1>4. CASE c # e.oper
  <2>1. \A t \in Supervisores : vuelta'[c][t] = vuelta[c][t]
    <3>1. Msg("ACKN") \in MsgVuelta
      BY TipoMensajes
    <3>2. \A b \in Cajeros, t \in Supervisores :
             b # e.oper \/ t # s => vuelta'[b][t] = vuelta[b][t]
      BY <1>1, <3>1, VueltaMas
    <3> QED BY <1>4, <3>2
  <2> QED BY <1>2, <2>1 DEF MenuCalla
<1> QED
  BY <1>3, <1>4

LEMMA MenuVuelta ==
    ASSUME TypeOK, NEW s \in Supervisores, PasoMenu(s), NEW c \in Cajeros
    PROVE  \/ MenuCalla(c, s)
           \/ MenuAcusa(c, s)
           \/ \E d \in Decision : MenuContesta(c, s, d)
<1>1. CASE \/ PDISoverride(s) \/ PCOLoverride(s) \/ ESCoverride(s)
           \/ OVRro_pic_or_exit(s) \/ OVRro_pic_or_exit_cuenta(s) \/ OVRro_clr_ovr_pend(s)
  <2>1. UNCHANGED <<vuelta, concedidos>>
    BY <1>1
    DEF PDISoverride, PCOLoverride, ESCoverride, OVRro_pic_or_exit, OVRro_pic_or_exit_cuenta,
        OVRro_clr_ovr_pend, canales, historia
  <2>2. spc[s] = "pantalla" => spc'[s] # "borra"
    <3>1. SaleDelMenu(s) => spc'[s] # "borra"
      BY DEF TypeOK, SaleDelMenu
    <3>2. spc[s] = "pantalla" => ESCoverride(s)
      BY <1>1
      DEF PDISoverride, PCOLoverride, OVRro_pic_or_exit, OVRro_pic_or_exit_cuenta,
          OVRro_clr_ovr_pend
    <3>3. ESCoverride(s) => spc'[s] # "borra"
      BY <3>1 DEF TypeOK, ESCoverride
    <3> QED BY <3>2, <3>3
  <2> QED BY <2>1, <2>2 DEF MenuCalla
<1>2. CASE PDISoverride_unico(s)
  <2>1. spc[s] = "unico" /\ UNCHANGED <<lista, concedidos>>
    BY <1>2 DEF PDISoverride_unico, estacion, historia
  <2>2. CASE UNCHANGED vuelta
    BY <2>1, <2>2 DEF MenuCalla
  <2>3. CASE Muestra(s, 1) /\ lista[s] # <<>>
    <3>1. 1 \in 1 .. Len(lista[s])
      <4>1. lista[s] \in Seq(OVR_REQ)
        BY DEF TypeOK
      <4>2. Len(lista[s]) \in Nat \ {0}
        BY <2>3, <4>1, EmptySeq, LenProperties
      <4> QED BY <4>2
    <3> QED BY <2>1, <2>3, <3>1, MuestraAcusa
  <2> QED BY <1>2, <2>2, <2>3 DEF PDISoverride_unico
<1>3. CASE PCOLoverride_trae(s)
  <2>1. UNCHANGED <<lista, concedidos>>
    BY <1>3 DEF PCOLoverride_trae, estacion, historia
  <2>2. spc[s] = "trae" /\ (UNCHANGED vuelta \/ \E i \in 1 .. Len(lista[s]) : Muestra(s, i))
    BY <1>3, Elegido
  <2>3. CASE UNCHANGED vuelta
    BY <2>1, <2>2, <2>3 DEF MenuCalla
  <2> QED BY <2>1, <2>2, <2>3, MuestraAcusa
<1>4. ASSUME NEW d \in Decision, PBrequest(s, d)
      PROVE  MenuCalla(c, s) \/ MenuContesta(c, s, d)
  <2>1. /\ spc[s] = "pantalla" /\ UNCHANGED <<lista, vista>>
        /\ spc'[s] = "borra"
    BY <1>4 DEF TypeOK, PBrequest, estacion
  <2>2. CASE ~vista[s].hay
    BY <1>4, <2>2 DEF PBrequest, MenuCalla
  <2>3. CASE vista[s].hay
    <3>1. PICK o \in Cajeros, p \in Numero : o = vista[s].oper /\ p = vista[s].ped
      BY DEF TypeOK, Vista
    <3>2. /\ Anade(o, s, [tipo |-> "RESP", resp |-> d])
          /\ concedidos' = IF d = "grant" THEN concedidos \cup {<<o, p, s>>} ELSE concedidos
      BY <1>4, <2>3, <3>1 DEF PBrequest, Anade
    <3>3. CASE o = c
      BY <2>1, <2>3, <3>1, <3>2, <3>3 DEF MenuContesta
    <3>4. CASE o # c
      <4>1. \A b \in Cajeros, t \in Supervisores :
               b # o \/ t # s => vuelta'[b][t] = vuelta[b][t]
        BY <3>2, TipoMensajes, VueltaMas
      <4>2. De(concedidos', c) = De(concedidos, c)
        BY <3>2, <3>4 DEF De
      <4> QED BY <3>1, <3>4, <4>1, <4>2 DEF MenuCalla
    <3> QED BY <3>3, <3>4
  <2> QED BY <2>2, <2>3
<1> QED
  BY <1>1, <1>2, <1>3, <1>4 DEF PasoMenu

\* An element of the list nobody decided on is what its teller waits for.
LEMMA EsperaEnLista ==
    ASSUME TypeOK, NEW c \in Cajeros, Esperas(c), c \notin retiros,
           NEW s \in Supervisores, NEW i \in Nat, Viva(s, c, i)
    PROVE  /\ pc[c] = "espera" /\ s = adt[c] /\ EsperaLista(c, s)
           /\ \A t \in Supervisores : t # s => Quieto(c, t)
<1>1. ~SinVivas(c, s)
  BY DEF SinVivas
<1> QED
  BY <1>1, EsperaAlguien DEF Quieto, EsperaCamino, EsperaRespuesta

LEMMA EsperasMenu ==
    ASSUME TypeOK, TypeOK', Avanza, NEW s \in Supervisores, PasoMenu(s), Est(s),
           NEW c \in Cajeros, Esperas(c)
    PROVE  Esperas(c)'
<1> SUFFICES ASSUME c \notin retiros PROVE Esperas(c)'
  BY AvanzaSinFallos DEF Esperas
<1>1. UNCHANGED <<pc, adt, n, ovr_response, ro_resp, host_srv_resp, ida, retiros>> /\ MismoCajero(c)
  BY MenuDeja DEF cajero, eventos, MismoCajero
<1>2. CASE MenuCalla(c, s)
  <2>1. \A t \in Supervisores : VivasIgual(c, t)
    BY <1>2, VivasMenu DEF MenuCalla
  <2> QED BY <1>1, <1>2, <2>1, EsperasSigue DEF MenuCalla, MismaVia
<1>3. CASE MenuAcusa(c, s)
  <2>1. PICK i \in Nat : Viva(s, c, i)
    BY <1>3 DEF MenuAcusa, Viva
  <2>2. /\ pc[c] = "espera" /\ s = adt[c] /\ EsperaLista(c, s)
        /\ \A t \in Supervisores : t # s => Quieto(c, t)
    BY <2>1, EsperaEnLista
  <2>3. /\ \A t \in Supervisores : t # s => vuelta'[c][t] = vuelta[c][t]
        /\ Len(vuelta'[c][s]) = Len(vuelta[c][s]) + 1 /\ Len(vuelta[c][s]) \in Nat
        /\ \A j \in 1 .. Len(vuelta[c][s]) : vuelta'[c][s][j] = vuelta[c][s][j]
        /\ vuelta'[c][s][Len(vuelta[c][s]) + 1] = Msg("ACKN")
    <3>1. \A b \in Cajeros, t \in Supervisores :
             b # c \/ t # s => vuelta'[b][t] = vuelta[b][t]
      BY <1>3, TipoMensajes, VueltaMas DEF MenuAcusa
    <3> QED BY <1>3, <3>1, TipoMensajes, VueltaMas DEF MenuAcusa
  <2>4. \A t \in Supervisores : VivasIgual(c, t)
    BY <1>3, VivasMenu DEF MenuAcusa
  <2>5. \A t \in Supervisores : t # s => Quieto(c, t)'
    BY <1>1, <2>2, <2>3, <2>4, QuietoSigue DEF MismaVia
  <2>6. Previos(c, s, Len(vuelta[c][s]))'
    <3> DEFINE k == Len(vuelta[c][s])
    <3>1. \A j \in 1 .. k : ~Final(vuelta[c][s][j])
      BY <2>2 DEF EsperaLista, Previos
    <3>2. ~Final(Msg("ACKN"))
      BY DEF Final, Msg
    <3>3. /\ Len(vuelta'[c][s]) = k + 1 /\ k \in Nat
          /\ \A j \in 1 .. k : vuelta'[c][s][j] = vuelta[c][s][j]
          /\ ~Final(vuelta'[c][s][k + 1])
      BY <2>3, <3>2
    <3> HIDE DEF k
    <3>4. \A j \in 1 .. k + 1 : j \in 1 .. k \/ j = k + 1
      BY <3>3
    <3>5. \A j \in 1 .. k + 1 : ~Final(vuelta'[c][s][j])
      BY <3>1, <3>3, <3>4
    <3> QED BY <3>3, <3>5 DEF Previos
  <2>7. ~Avisado(c)' /\ ida'[c][s] = <<>> /\ n'[c] = n[c]
    BY <1>1, <2>2 DEF EsperaLista, Avisado
  <2>8. \A j \in Nat : Viva(s, c, j)' => lista'[s][j].ped = n'[c]
    BY <2>2, <2>4, <2>7 DEF EsperaLista, VivasIgual
  <2>9. retiros' = {} => ~SinVivas(c, s)'
    BY <1>1, <2>2, <2>4 DEF EsperaLista, VivasIgual
  <2>10. EsperaLista(c, s)'
    BY <2>6, <2>7, <2>8, <2>9 DEF EsperaLista
  <2>11. s = adt'[c] /\ pc'[c] # "libre"
    BY <1>1, <2>2
  <2> QED BY <2>5, <2>10, <2>11, EsperasSi
<1>4. ASSUME NEW d \in Decision, MenuContesta(c, s, d) PROVE Esperas(c)'
  <2> DEFINE m == [tipo |-> "RESP", resp |-> d]
  <2>0. m \in MsgVuelta /\ m.tipo = "RESP" /\ (m.resp = "grant" => d = "grant")
    BY TipoMensajes
  <2>1. PICK i \in 1 .. Len(lista[s]) : lista[s][i].ped = vista[s].ped /\ lista[s][i].oper = c
    <3>1. Mostrada(s)
      BY <1>4 DEF MenuContesta, Mostrada
    <3> QED BY <1>4, <3>1 DEF MenuContesta, Est, Pantalla
  <2>2. i \in Nat /\ Viva(s, c, i)
    BY <1>4, <2>1 DEF MenuContesta, Viva
  <2>3. /\ pc[c] = "espera" /\ s = adt[c] /\ EsperaLista(c, s)
        /\ \A t \in Supervisores : t # s => Quieto(c, t)
    BY <2>2, EsperaEnLista
  <2>4. vista[s].ped = n[c]
    BY <2>1, <2>2, <2>3 DEF EsperaLista
  <2> HIDE DEF m
  <2>5. /\ \A t \in Supervisores : t # s => vuelta'[c][t] = vuelta[c][t]
        /\ Len(vuelta'[c][s]) = Len(vuelta[c][s]) + 1 /\ Len(vuelta[c][s]) \in Nat
        /\ \A j \in 1 .. Len(vuelta[c][s]) : vuelta'[c][s][j] = vuelta[c][s][j]
        /\ vuelta'[c][s][Len(vuelta[c][s]) + 1] = m
    <3>1. Anade(c, s, m)
      BY <1>4 DEF MenuContesta, m
    <3>2. \A b \in Cajeros, t \in Supervisores :
             b # c \/ t # s => vuelta'[b][t] = vuelta[b][t]
      BY <2>0, <3>1, VueltaMas
    <3> QED BY <2>0, <3>1, <3>2, VueltaMas
  <2>6. \A t \in Supervisores : t # s => VivasIgual(c, t)
    BY VivasMenu
  <2>7. \A t \in Supervisores : t # s => Quieto(c, t)'
    BY <1>1, <2>3, <2>5, <2>6, QuietoSigue DEF MismaVia
  <2>8. SinVivas(c, s)'
    <3> SUFFICES ASSUME NEW j \in Nat, Viva(s, c, j)' PROVE FALSE
      BY DEF SinVivas
    <3>1. Viva(s, c, j)
      BY <1>4 DEF MenuContesta, Viva
    <3>2. lista[s][j].ped = vista[s].ped
      BY <2>3, <2>4, <3>1 DEF EsperaLista
    <3> QED BY <1>4, <3>2 DEF MenuContesta, Viva
  <2>9. /\ ~Avisado(c)' /\ ~ovr_response'[c] /\ ida'[c][s] = <<>> /\ n'[c] = n[c]
    BY <1>1, <2>3 DEF EsperaLista, Avisado
  <2>10. d = "grant" => <<c, n'[c], s>> \in concedidos'
    BY <1>4, <2>4, <2>9 DEF MenuContesta
  <2>11. EsperaRespuesta(c, s)'
    <3> DEFINE k == Len(vuelta[c][s])
               K == Len(vuelta'[c][s])
    <3>1. \A j \in 1 .. k : ~Final(vuelta[c][s][j])
      BY <2>3 DEF EsperaLista, Previos
    <3>2. K = k + 1 /\ k \in Nat /\ vuelta'[c][s][k + 1] = m
          /\ \A j \in 1 .. k : vuelta'[c][s][j] = vuelta[c][s][j]
      BY <2>5
    <3>3. K = Len(vuelta'[c][s])
      OBVIOUS
    <3> HIDE DEF k, K
    <3>4. K - 1 = k /\ K # 0 /\ vuelta'[c][s][K] = m
      BY <3>2
    <3>5. \A j \in 1 .. K - 1 : ~Final(vuelta'[c][s][j])
      BY <3>1, <3>2, <3>4
    <3> QED BY <2>0, <2>8, <2>9, <2>10, <3>3, <3>4, <3>5 DEF EsperaRespuesta, Previos
  <2>12. s = adt'[c] /\ pc'[c] # "libre"
    BY <1>1, <2>3
  <2> QED BY <2>7, <2>11, <2>12, EsperasSi
<1> QED
  BY <1>2, <1>3, <1>4, MenuVuelta

LEMMA EsperasPaso ==
    ASSUME TypeOK, TypeOK', Next, \A s \in Supervisores : Est(s), NEW c \in Cajeros, Esperas(c)
    PROVE  Esperas(c)'
<1>1. Avanza
  BY AvanzaPaso
<1>2. ASSUME NEW d \in Cajeros, NEW s \in Supervisores, PasoMensaje(d, s) PROVE Esperas(c)'
  <2>1. CASE d # c
    BY <1>1, <1>2, <2>1, EsperasOtro
  <2>2. CASE d = c
    BY <1>1, <1>2, <2>2, SacaEspera, LlegaEspera DEF PasoMensaje
  <2> QED BY <2>1, <2>2
<1> QED
  BY <1>1, <1>2, EsperasCajero, EsperasMenu DEF Next

-----------------------------------------------------------------------------
(* The grants not used yet are no more than those given less those used.   *)

LEMMA MenosPorInyeccion ==
    ASSUME NEW S, NEW T, IsFiniteSet(T), NEW f \in [S -> T],
           \A x, y \in S : f[x] = f[y] => x = y
    PROVE  IsFiniteSet(S) /\ Cardinality(S) <= Cardinality(T)
<1>1. f \in Injection(S, T)
  BY DEF Injection, IsInjective
<1> QED
  BY <1>1, FS_Injection

\* The grant the event of a teller left in its flags.
ConcesionVista(c) == pc[c] = "espera" /\ ovr_response[c] /\ ro_resp[c] = "grant"

LEMMA PorCobrarDe ==
    ASSUME NEW c \in Cajeros, NEW x \in Supervisores \X Nat
    PROVE  x \in PorCobrar(c) <=>
             \/ x[2] \in 1 .. Len(vuelta[c][x[1]]) /\ vuelta[c][x[1]][x[2]].resp = "grant"
             \/ x = <<adt[c], 0>> /\ ConcesionVista(c)
BY DEF PorCobrar, ConcesionVista

LEMMA PorCobrarDeP ==
    ASSUME NEW c \in Cajeros, NEW x \in Supervisores \X Nat
    PROVE  x \in PorCobrar(c)' <=>
             \/ x[2] \in 1 .. Len(vuelta'[c][x[1]]) /\ vuelta'[c][x[1]][x[2]].resp = "grant"
             \/ x = <<adt'[c], 0>> /\ ConcesionVista(c)'
BY DEF PorCobrar, ConcesionVista

LEMMA FinitosDe ==
    ASSUME Respuestas, NEW c
    PROVE  /\ IsFiniteSet(De(concedidos, c)) /\ Cardinality(De(concedidos, c)) \in Nat
           /\ IsFiniteSet(De(cobrados, c)) /\ Cardinality(De(cobrados, c)) \in Nat
<1>1. De(concedidos, c) \in SUBSET concedidos /\ De(cobrados, c) \in SUBSET cobrados
  BY DEF De
<1>2. IsFiniteSet(De(concedidos, c)) /\ IsFiniteSet(De(cobrados, c))
  BY <1>1, FS_Subset DEF Respuestas
<1> QED
  BY <1>2, FS_CardinalityType

\* No more grants to use, and the history is the same for this teller.
LEMMA CuentaMenos ==
    ASSUME Respuestas, NEW c \in Cajeros, Cuenta(c),
           De(cobrados', c) = De(cobrados, c), De(concedidos', c) = De(concedidos, c),
           IsFiniteSet(PorCobrar(c)'), Cardinality(PorCobrar(c)') <= Cardinality(PorCobrar(c))
    PROVE  Cuenta(c)'
<1>1. /\ Cardinality(De(concedidos, c)) \in Nat /\ Cardinality(De(cobrados, c)) \in Nat
      /\ Cardinality(PorCobrar(c)) \in Nat /\ Cardinality(PorCobrar(c)') \in Nat
  BY FinitosDe, FS_CardinalityType DEF Cuenta
<1>2. Cardinality(De(cobrados, c)) + Cardinality(PorCobrar(c)) <= Cardinality(De(concedidos, c))
  BY DEF Cuenta
<1>3. Cardinality(De(cobrados', c)) + Cardinality(PorCobrar(c)') <= Cardinality(De(concedidos', c))
  BY <1>1, <1>2
<1> QED
  BY <1>3 DEF Cuenta

LEMMA CuentaSubconjunto ==
    ASSUME Respuestas, NEW c \in Cajeros, Cuenta(c),
           De(cobrados', c) = De(cobrados, c), De(concedidos', c) = De(concedidos, c),
           PorCobrar(c)' \subseteq PorCobrar(c)
    PROVE  Cuenta(c)'
<1>1. IsFiniteSet(PorCobrar(c)') /\ Cardinality(PorCobrar(c)') <= Cardinality(PorCobrar(c))
  BY FS_Subset DEF Cuenta
<1> QED
  BY <1>1, CuentaMenos

LEMMA PorCobrarIgual ==
    ASSUME NEW c \in Cajeros, \A s \in Supervisores : vuelta'[c][s] = vuelta[c][s],
           ConcesionVista(c)' => ConcesionVista(c) /\ adt'[c] = adt[c]
    PROVE  PorCobrar(c)' \subseteq PorCobrar(c)
<1> SUFFICES ASSUME NEW x \in Supervisores \X Nat, x \in PorCobrar(c)'
             PROVE  x \in PorCobrar(c)
  BY DEF PorCobrar
<1>1. x[1] \in Supervisores
  OBVIOUS
<1> QED
  BY <1>1, PorCobrarDe, PorCobrarDeP

LEMMA PorCobrarAnade ==
    ASSUME TypeOK, NEW c \in Cajeros, NEW s \in Supervisores, NEW m \in MsgVuelta,
           Anade(c, s, m), ConcesionVista(c)' => ConcesionVista(c) /\ adt'[c] = adt[c]
    PROVE  /\ m.resp # "grant" => PorCobrar(c)' \subseteq PorCobrar(c)
           /\ PorCobrar(c)' \subseteq PorCobrar(c) \cup {<<s, Len(vuelta[c][s]) + 1>>}
<1> DEFINE k == Len(vuelta[c][s])
<1>1. /\ \A t \in Supervisores : t # s => vuelta'[c][t] = vuelta[c][t]
      /\ Len(vuelta'[c][s]) = k + 1 /\ k \in Nat
      /\ \A i \in 1 .. k : vuelta'[c][s][i] = vuelta[c][s][i]
      /\ vuelta'[c][s][k + 1] = m
  <2>1. \A d \in Cajeros, t \in Supervisores :
           d # c \/ t # s => vuelta'[d][t] = vuelta[d][t]
    BY VueltaMas
  <2> QED BY <2>1, VueltaMas
<1>k. k = Len(vuelta[c][s])
  OBVIOUS
<1> HIDE DEF k
<1> SUFFICES ASSUME NEW x \in Supervisores \X Nat, x \in PorCobrar(c)'
             PROVE  x \in PorCobrar(c) \/ (m.resp = "grant" /\ x = <<s, k + 1>>)
  BY <1>k DEF PorCobrar
<1>2. PICK t \in Supervisores, i \in Nat : x = <<t, i>>
  OBVIOUS
<1>3. CASE i \in 1 .. Len(vuelta'[c][t]) /\ vuelta'[c][t][i].resp = "grant"
  <2>1. CASE t # s
    <3>1. i \in 1 .. Len(vuelta[c][t]) /\ vuelta[c][t][i].resp = "grant"
      BY <1>1, <1>3, <2>1
    <3> QED BY <1>2, <3>1, PorCobrarDe
  <2>2. CASE t = s /\ i \in 1 .. k
    <3>1. i \in 1 .. Len(vuelta[c][t]) /\ vuelta[c][t][i].resp = "grant"
      BY <1>1, <1>3, <1>k, <2>2
    <3> QED BY <1>2, <3>1, PorCobrarDe
  <2>3. CASE t = s /\ i = k + 1
    BY <1>1, <1>2, <1>3, <2>3
  <2>4. t = s => i \in 1 .. k + 1
    BY <1>1, <1>3
  <2> QED BY <1>1, <2>1, <2>2, <2>3, <2>4
<1>4. CASE x = <<adt'[c], 0>> /\ ConcesionVista(c)'
  BY <1>4, PorCobrarDe
<1> QED
  BY <1>2, <1>3, <1>4, PorCobrarDeP

\* An answer taken or lost: what was behind it moves up, and the flags have it.
LEMMA PorCobrarSaca ==
    ASSUME TypeOK, NEW c \in Cajeros, NEW s \in Supervisores, Saca(c, s),
           IsFiniteSet(PorCobrar(c)), adt'[c] = adt[c],
           ConcesionVista(c)' => ConcesionVista(c) \/ vuelta[c][s][1].resp = "grant"
    PROVE  IsFiniteSet(PorCobrar(c)') /\ Cardinality(PorCobrar(c)') <= Cardinality(PorCobrar(c))
<1> DEFINE k == Len(vuelta[c][s])
<1>1. /\ \A t \in Supervisores : t # s => vuelta'[c][t] = vuelta[c][t]
      /\ Len(vuelta'[c][s]) = k - 1 /\ k \in Nat \ {0}
      /\ \A i \in 1 .. k - 1 : vuelta'[c][s][i] = vuelta[c][s][i + 1]
  <2>1. \A d \in Cajeros, t \in Supervisores :
           d # c \/ t # s => vuelta'[d][t] = vuelta[d][t]
    BY SacaHace
  <2> QED BY <2>1, SacaHace
<1>k. k = Len(vuelta[c][s])
  OBVIOUS
<1> HIDE DEF k
<1> DEFINE S == PorCobrar(c)'
           F(t, i) == IF i = 0 THEN IF ConcesionVista(c) THEN <<t, 0>> ELSE <<s, 1>>
                      ELSE IF t = s THEN <<s, i + 1>> ELSE <<t, i>>
           f == [x \in S |-> F(x[1], x[2])]
<1>2. ASSUME NEW x \in S
      PROVE  \E t \in Supervisores, i \in Nat :
                /\ x = <<t, i>>
                /\ i = 0 => t = adt[c] /\ ConcesionVista(c)'
                /\ i # 0 => i \in 1 .. Len(vuelta'[c][t]) /\ vuelta'[c][t][i].resp = "grant"
  <2>1. x \in Supervisores \X Nat
    BY DEF PorCobrar
  <2>2. PICK t \in Supervisores, i \in Nat : x = <<t, i>>
    BY <2>1
  <2>3. \/ i \in 1 .. Len(vuelta'[c][t]) /\ vuelta'[c][t][i].resp = "grant"
        \/ x = <<adt'[c], 0>> /\ ConcesionVista(c)'
    BY <2>1, <2>2, PorCobrarDeP
  <2>4. x = <<adt'[c], 0>> => i = 0 /\ t = adt[c]
    BY <2>2
  <2>5. i \in 1 .. Len(vuelta'[c][t]) => i # 0
    OBVIOUS
  <2> QED BY <2>2, <2>3, <2>4, <2>5
<1>3. ASSUME NEW x \in S PROVE F(x[1], x[2]) \in PorCobrar(c)
  <2>1. PICK t \in Supervisores, i \in Nat :
           /\ x = <<t, i>>
           /\ i = 0 => t = adt[c] /\ ConcesionVista(c)'
           /\ i # 0 => i \in 1 .. Len(vuelta'[c][t]) /\ vuelta'[c][t][i].resp = "grant"
    BY <1>2
  <2>2. F(x[1], x[2]) = F(t, i)
    BY <2>1
  <2>3. CASE i = 0 /\ ConcesionVista(c)
    <3>1. <<t, 0>> \in Supervisores \X Nat /\ <<t, 0>> = <<adt[c], 0>>
      BY <2>1, <2>3
    <3>2. <<t, 0>> \in PorCobrar(c)
      BY <2>3, <3>1, PorCobrarDe
    <3> QED BY <2>2, <2>3, <3>2
  <2>4. CASE i = 0 /\ ~ConcesionVista(c)
    <3>1. vuelta[c][s][1].resp = "grant" /\ 1 \in 1 .. Len(vuelta[c][s])
      BY <1>1, <1>k, <2>1, <2>4
    <3>2. <<s, 1>> \in PorCobrar(c)
      BY <3>1, PorCobrarDe
    <3> QED BY <2>2, <2>4, <3>2
  <2>5. CASE i # 0 /\ t = s
    <3>1. i \in 1 .. k - 1 /\ i + 1 \in 1 .. k
      BY <1>1, <2>1, <2>5
    <3>2. vuelta[c][s][i + 1].resp = "grant" /\ i + 1 \in 1 .. Len(vuelta[c][s])
      BY <1>1, <1>k, <2>1, <2>5, <3>1
    <3>3. <<s, i + 1>> \in PorCobrar(c)
      BY <3>2, PorCobrarDe
    <3> QED BY <2>2, <2>5, <3>3
  <2>6. CASE i # 0 /\ t # s
    <3>1. i \in 1 .. Len(vuelta[c][t]) /\ vuelta[c][t][i].resp = "grant"
      BY <1>1, <2>1, <2>6
    <3>2. <<t, i>> \in PorCobrar(c)
      BY <3>1, PorCobrarDe
    <3> QED BY <2>2, <2>6, <3>2
  <2> QED BY <2>3, <2>4, <2>5, <2>6
<1>4. ASSUME NEW x \in S, NEW y \in S, f[x] = f[y] PROVE x = y
  <2>1. PICK t \in Supervisores, i \in Nat :
           x = <<t, i>> /\ (i = 0 => t = adt[c])
    BY <1>2
  <2>2. PICK u \in Supervisores, j \in Nat :
           y = <<u, j>> /\ (j = 0 => u = adt[c])
    BY <1>2
  <2>3. F(t, i) = F(u, j)
    BY <1>4, <2>1, <2>2
  <2>4. t = u /\ i = j
    BY <2>1, <2>2, <2>3
  <2> QED BY <2>1, <2>2, <2>4
<1>5. f \in [S -> PorCobrar(c)]
  BY <1>3
<1> HIDE DEF f, S
<1>6. IsFiniteSet(S) /\ Cardinality(S) <= Cardinality(PorCobrar(c))
  BY <1>4, <1>5, MenosPorInyeccion
<1> QED
  BY <1>6 DEF S

LEMMA UnoMas ==
    ASSUME NEW S, IsFiniteSet(S), NEW x
    PROVE  /\ IsFiniteSet(S \cup {x}) /\ Cardinality(S) \in Nat
           /\ Cardinality(S \cup {x}) \in Nat /\ Cardinality(S \cup {x}) <= Cardinality(S) + 1
<1>1. IsFiniteSet(S \cup {x}) /\ Cardinality(S) \in Nat
  BY FS_AddElement, FS_CardinalityType
<1>2. Cardinality(S \cup {x}) = IF x \in S THEN Cardinality(S) ELSE Cardinality(S) + 1
  BY FS_AddElement
<1> QED
  BY <1>1, <1>2

\* What a teller does to the count of another, and to its own until it uses a grant.
LEMMA CuentaCajero ==
    ASSUME TypeOK, Respuestas, NEW d \in Cajeros, PasoCajero(d), NEW c \in Cajeros, Cuenta(c)
    PROVE  Cuenta(c)'
<1>1. UNCHANGED <<vuelta, concedidos>>
  <2>1. UNCHANGED vuelta
    BY OtroCajero
  <2>2. UNCHANGED concedidos
    BY DEF PasoCajero, SRQ_ro_send_req, Despierta, Vence
  <2> QED BY <2>1, <2>2
<1>2. CASE c # d
  <2>1. MismoCajero(c)
    BY <1>2, OtroCajero
  <2>2. De(cobrados', c) = De(cobrados, c)
    <3>1. cobrados' = cobrados \/ cobrados' = cobrados \cup {<<d, n[d], adt[d]>>}
      BY DEF PasoCajero, SRQ_ro_send_req, Despierta, Vence
    <3> QED BY <1>2, <3>1 DEF De
  <2>3. ConcesionVista(c)' => ConcesionVista(c) /\ adt'[c] = adt[c]
    BY <2>1 DEF MismoCajero, ConcesionVista
  <2> QED BY <1>1, <2>2, <2>3, PorCobrarIgual, CuentaSubconjunto
<1>3. ASSUME c = d, ~(Despierta(c) /\ Concede(c)) PROVE Cuenta(c)'
  <2>1. UNCHANGED cobrados
    BY <1>3 DEF PasoCajero, SRQ_ro_send_req, Despierta, Vence
  <2>2. ConcesionVista(c)' => ConcesionVista(c) /\ adt'[c] = adt[c]
    <3>1. ASSUME NEW s \in Supervisores, SRQ_ro_send_req(c, s) PROVE ~ConcesionVista(c)'
      <4>1. ~ovr_response'[c]
        BY <3>1 DEF SRQ_ro_send_req, ReiniciaEventos, TypeOK
      <4> QED BY <4>1 DEF ConcesionVista
    <3>2. CASE Despierta(c)
      <4>1. /\ adt'[c] = adt[c] /\ ro_resp'[c] = ro_resp[c] /\ pc[c] = "espera"
            /\ ovr_response'[c] => ovr_response[c]
        BY <3>2 DEF Despierta, TypeOK
      <4> QED BY <4>1 DEF ConcesionVista
    <3>3. CASE Vence(c)
      <4>1. pc'[c] = "libre"
        BY <3>3 DEF Vence, TypeOK
      <4> QED BY <4>1 DEF ConcesionVista
    <3> QED BY <1>3, <3>1, <3>2, <3>3 DEF PasoCajero
  <2> QED BY <1>1, <2>1, <2>2, PorCobrarIgual, CuentaSubconjunto
<1>4. ASSUME Despierta(c), Concede(c) PROVE Cuenta(c)'
  <2> DEFINE g == <<adt[c], 0>>
             x == <<c, n[c], adt[c]>>
  <2>1. cobrados' = cobrados \cup {x} /\ pc'[c] = "libre" /\ ConcesionVista(c)
    BY <1>4 DEF Despierta, Concede, Contestado, ConcesionVista, TypeOK
  <2>2. ~ConcesionVista(c)'
    BY <2>1 DEF ConcesionVista
  <2>3. g \in PorCobrar(c)
    <3>1. adt[c] \in Supervisores
      BY DEF TypeOK
    <3>2. g \in Supervisores \X Nat
      BY <3>1
    <3> QED BY <2>1, <3>2, PorCobrarDe
  <2>4. PorCobrar(c)' \subseteq PorCobrar(c) \ {g}
    <3>1. PorCobrar(c)' \subseteq PorCobrar(c)
      BY <1>1, <2>2, PorCobrarIgual
    <3>2. g \notin PorCobrar(c)'
      <4>1. adt[c] \in Supervisores
        BY DEF TypeOK
      <4>2. g \in Supervisores \X Nat /\ g[1] = adt[c] /\ g[2] = 0
        BY <4>1
      <4> QED BY <2>2, <4>2, PorCobrarDeP
    <3> QED BY <3>1, <3>2
  <2>5. /\ IsFiniteSet(PorCobrar(c) \ {g})
        /\ Cardinality(PorCobrar(c) \ {g}) = Cardinality(PorCobrar(c)) - 1
    BY <2>3, FS_RemoveElement DEF Cuenta
  <2>6. /\ IsFiniteSet(PorCobrar(c)')
        /\ Cardinality(PorCobrar(c)') <= Cardinality(PorCobrar(c)) - 1
    BY <2>4, <2>5, FS_Subset
  <2>7. /\ Cardinality(De(cobrados', c)) <= Cardinality(De(cobrados, c)) + 1
        /\ Cardinality(De(cobrados', c)) \in Nat
    <3>1. De(cobrados', c) = De(cobrados, c) \cup {x}
      BY <2>1 DEF De
    <3>2. IsFiniteSet(De(cobrados, c))
      BY FinitosDe
    <3> HIDE DEF x
    <3> QED BY <3>1, <3>2, UnoMas
  <2>8. /\ Cardinality(De(concedidos, c)) \in Nat /\ Cardinality(De(cobrados, c)) \in Nat
    BY FinitosDe
  <2>9. Cardinality(PorCobrar(c)) \in Nat /\ Cardinality(PorCobrar(c)') \in Nat
    <3>1. IsFiniteSet(PorCobrar(c)) /\ IsFiniteSet(PorCobrar(c)')
      BY <2>6 DEF Cuenta
    <3> QED BY <3>1, FS_CardinalityType
  <2>10. Cardinality(De(cobrados, c)) + Cardinality(PorCobrar(c)) <= Cardinality(De(concedidos, c))
    BY DEF Cuenta
  <2>11. Cardinality(De(cobrados', c)) + Cardinality(PorCobrar(c)')
            <= Cardinality(De(concedidos', c))
    BY <1>1, <2>6, <2>7, <2>8, <2>9, <2>10
  <2> QED BY <2>6, <2>11 DEF Cuenta
<1> QED
  BY <1>2, <1>3, <1>4

LEMMA SinOtorgar ==
    ASSUME NEW s \in Supervisores, Pantalla(s), spc[s] = "pantalla", vista[s].hay
    PROVE  <<vista[s].oper, vista[s].ped, s>> \notin concedidos
BY DEF Pantalla

LEMMA CuentaMenu ==
    ASSUME TypeOK, Respuestas, NEW s \in Supervisores, PasoMenu(s), Est(s),
           NEW c \in Cajeros, Cuenta(c)
    PROVE  Cuenta(c)'
<1>1. UNCHANGED <<pc, adt, ovr_response, ro_resp, cobrados>>
  BY MenuDeja DEF cajero, eventos
<1>2. ConcesionVista(c)' => ConcesionVista(c) /\ adt'[c] = adt[c]
  BY <1>1 DEF ConcesionVista
<1>3. CASE MenuCalla(c, s)
  BY <1>1, <1>2, <1>3, PorCobrarIgual, CuentaSubconjunto DEF MenuCalla
<1>4. CASE MenuAcusa(c, s)
  <2>1. Msg("ACKN") \in MsgVuelta /\ Msg("ACKN").resp # "grant"
    BY TipoMensajes DEF Msg
  <2>2. PorCobrar(c)' \subseteq PorCobrar(c)
    BY <1>2, <1>4, <2>1, PorCobrarAnade DEF MenuAcusa
  <2>3. UNCHANGED concedidos
    BY <1>4 DEF MenuAcusa
  <2> QED BY <1>1, <2>2, <2>3, CuentaSubconjunto
<1>5. ASSUME NEW d \in Decision, MenuContesta(c, s, d) PROVE Cuenta(c)'
  <2> DEFINE m == [tipo |-> "RESP", resp |-> d]
  <2>0. m \in MsgVuelta /\ m.resp = d
    BY TipoMensajes
  <2> HIDE DEF m
  <2>1. Anade(c, s, m)
    BY <1>5 DEF MenuContesta, m
  <2>2. /\ m.resp # "grant" => PorCobrar(c)' \subseteq PorCobrar(c)
        /\ PorCobrar(c)' \subseteq PorCobrar(c) \cup {<<s, Len(vuelta[c][s]) + 1>>}
    BY <1>2, <2>0, <2>1, PorCobrarAnade
  <2>3. CASE d # "grant"
    BY <1>1, <1>5, <2>0, <2>2, <2>3, CuentaSubconjunto DEF MenuContesta
  <2>4. CASE d = "grant"
    <3> DEFINE x == <<c, vista[s].ped, s>>
               y == <<s, Len(vuelta[c][s]) + 1>>
    <3>1. concedidos' = concedidos \cup {x} /\ x \notin concedidos
      <4>1. vista[s].oper = c /\ concedidos' = concedidos \cup {x}
        BY <1>5, <2>4 DEF MenuContesta
      <4>2. <<vista[s].oper, vista[s].ped, s>> \notin concedidos
        BY <1>5, SinOtorgar DEF MenuContesta, Est
      <4> QED BY <4>1, <4>2
    <3>2. De(concedidos', c) = De(concedidos, c) \cup {x} /\ x \notin De(concedidos, c)
      BY <3>1 DEF De
    <3>3. Cardinality(De(concedidos', c)) = Cardinality(De(concedidos, c)) + 1
      BY <3>2, FinitosDe, FS_AddElement
    <3>4. /\ IsFiniteSet(PorCobrar(c) \cup {y})
          /\ Cardinality(PorCobrar(c) \cup {y}) <= Cardinality(PorCobrar(c)) + 1
      <4>1. IsFiniteSet(PorCobrar(c))
        BY DEF Cuenta
      <4> HIDE DEF y
      <4> QED BY <4>1, UnoMas
    <3>5. /\ IsFiniteSet(PorCobrar(c)')
          /\ Cardinality(PorCobrar(c)') <= Cardinality(PorCobrar(c) \cup {y})
      BY <2>2, <3>4, FS_Subset
    <3>6. /\ Cardinality(De(concedidos, c)) \in Nat /\ Cardinality(De(cobrados, c)) \in Nat
          /\ Cardinality(PorCobrar(c)) \in Nat /\ Cardinality(PorCobrar(c)') \in Nat
          /\ Cardinality(PorCobrar(c) \cup {y}) \in Nat
      BY <3>4, <3>5, FinitosDe, FS_CardinalityType DEF Cuenta
    <3>7. Cardinality(De(cobrados, c)) + Cardinality(PorCobrar(c))
             <= Cardinality(De(concedidos, c))
      BY DEF Cuenta
    <3>8. Cardinality(De(cobrados', c)) + Cardinality(PorCobrar(c)')
             <= Cardinality(De(concedidos', c))
      BY <1>1, <3>3, <3>4, <3>5, <3>6, <3>7
    <3> QED BY <3>5, <3>8 DEF Cuenta
  <2> QED BY <2>3, <2>4
<1> QED
  BY <1>3, <1>4, <1>5, MenuVuelta

LEMMA CuentaMensaje ==
    ASSUME TypeOK, Respuestas, NEW d \in Cajeros, NEW s \in Supervisores, PasoMensaje(d, s),
           NEW c \in Cajeros, Cuenta(c)
    PROVE  Cuenta(c)'
<1>1. UNCHANGED <<pc, adt, cobrados, concedidos>>
  BY DEF PasoMensaje, EventoCajero, EventoSupervisor, NoEntrega, PierdeRespuesta, cajero, historia
<1>2. CASE EventoCajero(d, s) \/ PierdeRespuesta(d, s)
  <2>1. Saca(d, s)
    BY <1>2 DEF EventoCajero, PierdeRespuesta, Saca
  <2>2. /\ \A b \in Cajeros, t \in Supervisores : b # d \/ t # s => vuelta'[b][t] = vuelta[b][t]
        /\ Head(vuelta[d][s]) = vuelta[d][s][1]
    BY <2>1, SacaHace
  <2> DEFINE h == vuelta[d][s][1]
  <2>3. /\ c # d => (ConcesionVista(c)' => ConcesionVista(c))
        /\ ConcesionVista(c)' => ConcesionVista(c) \/ h.resp = "grant"
    <3>1. CASE UNCHANGED <<ovr_response, ro_resp>>
      BY <1>1, <3>1 DEF ConcesionVista
    <3>2. CASE EventoCajero(d, s) /\ pc[d] = "espera"
      <4> DEFINE r == ovr_response[d] \/ h.tipo = "RESP"
                 x == IF h.tipo = "RESP" THEN h.resp ELSE ro_resp[d]
      <4>1. /\ ovr_response' = [ovr_response EXCEPT ![d] = r]
            /\ ro_resp' = [ro_resp EXCEPT ![d] = x]
        BY <2>2, <3>2 DEF EventoCajero
      <4> HIDE DEF r, x
      <4>2. /\ ovr_response'[d] = r /\ ro_resp'[d] = x
            /\ c # d => ovr_response'[c] = ovr_response[c] /\ ro_resp'[c] = ro_resp[c]
        BY <4>1 DEF TypeOK
      <4>3. r /\ x = "grant" => (ovr_response[d] /\ ro_resp[d] = "grant") \/ h.resp = "grant"
        BY DEF r, x
      <4> QED BY <1>1, <4>2, <4>3 DEF ConcesionVista
    <3> QED BY <1>2, <3>1, <3>2 DEF EventoCajero, PierdeRespuesta, eventos
  <2>4. CASE c # d
    <3>1. \A t \in Supervisores : vuelta'[c][t] = vuelta[c][t]
      BY <2>2, <2>4
    <3> QED BY <1>1, <2>3, <2>4, <3>1, PorCobrarIgual, CuentaSubconjunto
  <2>5. CASE c = d
    <3>1. IsFiniteSet(PorCobrar(c)') /\ Cardinality(PorCobrar(c)') <= Cardinality(PorCobrar(c))
      <4>1. IsFiniteSet(PorCobrar(c)) /\ adt'[c] = adt[c]
        BY <1>1 DEF Cuenta
      <4>2. ConcesionVista(c)' => ConcesionVista(c) \/ vuelta[c][s][1].resp = "grant"
        BY <2>3, <2>5
      <4> QED BY <2>1, <2>5, <4>1, <4>2, PorCobrarSaca
    <3> QED BY <1>1, <3>1, CuentaMenos
  <2> QED BY <2>4, <2>5
<1>3. ASSUME UNCHANGED eventos,
             Calla \/ \E t \in {"MOA_RSP", "ERROR"} : Anade(d, s, Msg(t))
      PROVE  Cuenta(c)'
  <2>1. ConcesionVista(c)' => ConcesionVista(c) /\ adt'[c] = adt[c]
    BY <1>1, <1>3 DEF eventos, ConcesionVista
  <2>2. CASE Calla
    BY <1>1, <2>1, <2>2, PorCobrarIgual, CuentaSubconjunto DEF Calla
  <2>3. ASSUME NEW m \in MsgVuelta, m.resp # "grant", Anade(d, s, m) PROVE Cuenta(c)'
    <3>1. CASE c = d
      BY <1>1, <2>1, <2>3, <3>1, PorCobrarAnade, CuentaSubconjunto
    <3>2. CASE c # d
      <4>1. \A b \in Cajeros, t \in Supervisores :
               b # d \/ t # s => vuelta'[b][t] = vuelta[b][t]
        BY <2>3, VueltaMas
      <4>2. \A t \in Supervisores : vuelta'[c][t] = vuelta[c][t]
        BY <3>2, <4>1
      <4> QED BY <1>1, <2>1, <4>2, PorCobrarIgual, CuentaSubconjunto
    <3> QED BY <3>1, <3>2
  <2>4. \A t \in {"MOA_RSP", "ERROR"} : Msg(t) \in MsgVuelta /\ Msg(t).resp # "grant"
    BY TipoMensajes DEF Msg
  <2> QED BY <1>3, <2>2, <2>3, <2>4
<1>4. CASE NoEntrega(d, s)
  BY <1>3, <1>4 DEF NoEntrega, Anade
<1>5. CASE EventoSupervisor(s, d)
  <2>1. CASE RecibePedido(s, d, Head(ida[d][s]))
    BY <1>3, <1>5, <2>1 DEF EventoSupervisor, RecibePedido, Anade
  <2>2. CASE RecibeCancel(s, d, Head(ida[d][s]))
    BY <1>3, <1>5, <2>2 DEF EventoSupervisor, RecibeCancel, Calla
  <2> QED BY <1>5, <2>1, <2>2 DEF EventoSupervisor
<1> QED
  BY <1>2, <1>4, <1>5 DEF PasoMensaje

LEMMA CuentaPaso ==
    ASSUME TypeOK, Respuestas, Next, \A s \in Supervisores : Est(s), NEW c \in Cajeros, Cuenta(c)
    PROVE  Cuenta(c)'
BY CuentaCajero, CuentaMenu, CuentaMensaje DEF Next

-----------------------------------------------------------------------------
(* The invariant and what follows from it.                                 *)

LEMMA PartesDe ==
    IInv <=> /\ TypeOK /\ Indicador /\ Respuestas /\ ConcedePedido
             /\ \A s \in Supervisores : Est(s)
             /\ \A c \in Cajeros : Esperas(c) /\ Cuenta(c)
BY DEF IInv, Est

LEMMA EstInicial ==
    ASSUME Init, NEW s \in Supervisores
    PROVE  Est(s)
<1>1. /\ item_count[s] = 1 /\ lista[s] = <<>> /\ spc[s] = "menu" /\ vista[s] = Nadie
      /\ hechos = 0 /\ concedidos = {} /\ ~vista[s].hay
      /\ \A c \in Cajeros : ida[c][s] = <<>>
  BY DEF Init, Nadie
<1>2. Len(lista[s]) = 0 /\ \A c \in Cajeros : Len(ida[c][s]) = 0
  BY <1>1
<1>3. Camino(s)
  <2>1. \A c \in Cajeros, i \in Nat : ~EnCamino(c, s, i)
    BY <1>2 DEF EnCamino
  <2>2. Enviados(s) = {}
    BY <2>1 DEF Enviados
  <2>3. Llegados(s) = 0 /\ Cardinality(Enviados(s)) = 0
    BY <1>1, <2>2, FS_EmptySet DEF Llegados
  <2> QED BY <1>1, <1>2, <2>1, <2>2, <2>3 DEF Camino
<1>4. Numeros(s)
  BY <1>2 DEF Numeros
<1>5. Pantalla(s)
  BY <1>1, <1>2 DEF Pantalla, Mostrada
<1>6. SinBlanco(s)
  BY <1>1 DEF SinBlanco
<1> QED
  BY <1>3, <1>4, <1>5, <1>6 DEF Est

LEMMA CajeroInicial ==
    ASSUME Init, NEW c \in Cajeros
    PROVE  Esperas(c) /\ Cuenta(c)
<1>1. /\ pc[c] = "libre" /\ concedidos = {} /\ cobrados = {}
      /\ \A s \in Supervisores : ida[c][s] = <<>> /\ vuelta[c][s] = <<>> /\ lista[s] = <<>>
  BY DEF Init
<1>2. \A s \in Supervisores : Len(lista[s]) = 0 /\ Len(vuelta[c][s]) = 0
  BY <1>1
<1>3. \A s \in Supervisores : Quieto(c, s)
  BY <1>1, <1>2 DEF Quieto, SinVivas, Viva
<1>4. Esperas(c)
  BY <1>1, <1>3 DEF Esperas
<1>5. PorCobrar(c) = {} /\ De(cobrados, c) = {} /\ De(concedidos, c) = {}
  <2>1. \A x \in Supervisores \X Nat : x \notin PorCobrar(c)
    <3> SUFFICES ASSUME NEW x \in Supervisores \X Nat PROVE x \notin PorCobrar(c)
      OBVIOUS
    <3>1. x[1] \in Supervisores
      OBVIOUS
    <3> QED BY <1>1, <1>2, <3>1, PorCobrarDe DEF ConcesionVista
  <2> QED BY <1>1, <2>1 DEF PorCobrar, De
<1>6. Cuenta(c)
  BY <1>5, FS_EmptySet DEF Cuenta
<1> QED
  BY <1>4, <1>6

LEMMA IInvInicial == Init => IInv
<1> SUFFICES ASSUME Init PROVE IInv
  OBVIOUS
<1>1. Indicador
  BY DEF Init, Indicador, IndicadorConPendientes
<1>2. Respuestas
  <2>1. \A c \in Cajeros, s \in Supervisores : Len(vuelta[c][s]) = 0
    BY DEF Init
  <2>2. IsFiniteSet(concedidos) /\ IsFiniteSet(cobrados)
    BY FS_EmptySet DEF Init
  <2> QED BY <2>1, <2>2 DEF Respuestas
<1>3. ConcedePedido
  BY DEF Init, ConcedePedido
<1> QED
  BY <1>1, <1>2, <1>3, TipoInicial, EstInicial, CajeroInicial, PartesDe

LEMMA ConcedePaso ==
    ASSUME TypeOK, TypeOK', Next, ConcedePedido, \A c \in Cajeros : Esperas(c)
    PROVE  ConcedePedido'
<1>1. Avanza
  BY AvanzaPaso
<1>2. ASSUME NEW p \in cobrados', p \notin cobrados
      PROVE  \E c \in Cajeros : Despierta(c) /\ Concede(c) /\ p = <<c, n[c], adt[c]>>
  <2>1. ASSUME NEW c \in Cajeros, PasoCajero(c)
        PROVE  Despierta(c) /\ Concede(c) /\ p = <<c, n[c], adt[c]>>
    BY <1>2, <2>1 DEF PasoCajero, SRQ_ro_send_req, Despierta, Vence
  <2>2. ASSUME NEW s \in Supervisores, PasoMenu(s) PROVE FALSE
    BY <1>2, <2>2, MenuDeja
  <2>3. ASSUME NEW c \in Cajeros, NEW s \in Supervisores, PasoMensaje(c, s) PROVE FALSE
    BY <1>2, <2>3
    DEF PasoMensaje, EventoCajero, EventoSupervisor, NoEntrega, PierdeRespuesta, historia
  <2> QED BY <2>1, <2>2, <2>3 DEF Next
<1> SUFFICES ASSUME NEW p \in cobrados', p[1] \notin retiros' PROVE p \in concedidos'
  BY DEF ConcedePedido
<1>3. CASE p \in cobrados
  BY <1>1, <1>3 DEF ConcedePedido, Avanza
<1>4. CASE p \notin cobrados
  <2>1. PICK c \in Cajeros : Despierta(c) /\ Concede(c) /\ p = <<c, n[c], adt[c]>>
    BY <1>2, <1>4
  <2>2. c \notin retiros
    BY <1>1, <2>1 DEF Avanza
  <2>3. p \in concedidos
    BY <1>1, <2>1, <2>2, DespiertaEspera
  <2> QED BY <1>1, <2>3 DEF Avanza
<1> QED
  BY <1>3, <1>4

LEMMA IInvIgual == IInv /\ UNCHANGED vars => IInv'
<1> SUFFICES ASSUME IInv, UNCHANGED vars PROVE IInv'
  OBVIOUS
<1>1. UNCHANGED <<cajero, eventos, estacion, menu, canales, historia>>
  BY DEF vars
<1>2. TypeOK'
  BY TipoPaso DEF IInv
<1>3. UNCHANGED <<lista, spc, vista, vuelta, ida, concedidos, cobrados, retiros, fallos, pc, adt, n,
                  ovr_response, ro_resp, host_srv_resp, hechos>>
  BY <1>1 DEF cajero, eventos, estacion, menu, canales, historia
<1>4. Avanza
  <2>1. fallos' >= fallos
    BY <1>3 DEF IInv, TypeOK
  <2> QED BY <1>3, <2>1 DEF Avanza
<1>5. ASSUME NEW s \in Supervisores PROVE Est(s)'
  <2>1. MismaEstacion(s)
    <3>1. hechos' >= hechos
      BY <1>3 DEF IInv, TypeOK, Numero
    <3> QED BY <1>1, <1>3, <3>1 DEF MismaEstacion, estacion, menu
  <2> QED BY <1>2, <1>3, <2>1, OtraEstacion, PartesDe
<1>6. ASSUME NEW c \in Cajeros PROVE Esperas(c)' /\ Cuenta(c)'
  <2>1. MismoCajero(c) /\ \A s \in Supervisores : MismaVia(c, s)
    BY <1>3, VivasMismas DEF MismoCajero, MismaVia
  <2>2. Esperas(c)'
    BY <1>2, <1>4, <2>1, EsperasSigue DEF IInv
  <2>3. ConcesionVista(c)' => ConcesionVista(c) /\ adt'[c] = adt[c]
    BY <1>3 DEF ConcesionVista
  <2>4. Cuenta(c)'
    BY <1>3, <2>3, PorCobrarIgual, CuentaSubconjunto DEF IInv
  <2> QED BY <2>2, <2>4
<1>7. Indicador' /\ Respuestas' /\ ConcedePedido'
  BY <1>1, <1>3 DEF IInv, Indicador, IndicadorConPendientes, Respuestas, ConcedePedido, estacion
<1>8. /\ TypeOK' /\ Indicador' /\ Respuestas' /\ ConcedePedido'
      /\ \A s \in Supervisores : Est(s)'
      /\ \A c \in Cajeros : Esperas(c)' /\ Cuenta(c)'
  BY <1>2, <1>5, <1>6, <1>7
<1> QED
  BY <1>8 DEF IInv, Est

LEMMA IInvPaso == SinVuelta /\ IInv /\ [Next]_vars => IInv'
<1> SUFFICES ASSUME SinVuelta, IInv, Next PROVE IInv'
  BY IInvIgual
<1>1. /\ TypeOK /\ Indicador /\ Respuestas /\ ConcedePedido
      /\ \A s \in Supervisores : Est(s)
      /\ \A c \in Cajeros : Esperas(c) /\ Cuenta(c)
  BY PartesDe
<1>2. TypeOK'
  BY <1>1, TipoPaso
<1>3. Indicador' /\ Respuestas'
  BY <1>1, IndicadorPaso, RespuestasPaso
<1>4. ConcedePedido'
  BY <1>1, <1>2, ConcedePaso
<1>5. ASSUME NEW s \in Supervisores PROVE Est(s)'
  BY <1>1, <1>2, EstPaso
<1>6. ASSUME NEW c \in Cajeros PROVE Esperas(c)' /\ Cuenta(c)'
  BY <1>1, <1>2, EsperasPaso, CuentaPaso
<1>7. /\ TypeOK' /\ Indicador' /\ Respuestas' /\ ConcedePedido'
      /\ \A s \in Supervisores : Est(s)'
      /\ \A c \in Cajeros : Esperas(c)' /\ Cuenta(c)'
  BY <1>2, <1>3, <1>4, <1>5, <1>6
<1> QED
  BY <1>7 DEF IInv, Est

LEMMA CuentaDice == IInv => UnaPorConcesion
<1> SUFFICES ASSUME IInv, NEW c \in Cajeros
             PROVE  Cardinality(De(cobrados, c)) <= Cardinality(De(concedidos, c))
  BY DEF UnaPorConcesion, De
<1>1. Cuenta(c) /\ Respuestas
  BY DEF IInv
<1>2. /\ Cardinality(De(concedidos, c)) \in Nat /\ Cardinality(De(cobrados, c)) \in Nat
  BY <1>1, FinitosDe
<1>3. Cardinality(PorCobrar(c)) \in Nat
  BY <1>1, FS_CardinalityType DEF Cuenta
<1>4. Cardinality(De(cobrados, c)) + Cardinality(PorCobrar(c)) <= Cardinality(De(concedidos, c))
  BY <1>1 DEF Cuenta
<1> QED
  BY <1>2, <1>3, <1>4

LEMMA EsperaAlgo == IInv => NadieEsperaEnVano
<1> SUFFICES ASSUME IInv, NEW c \in Cajeros, pc[c] = "espera", retiros = {}, fallos = 0
             PROVE  \/ primary[c] \/ ovr_response[c]
                    \/ \E s \in Supervisores :
                          \/ vuelta[c][s] # <<>>
                          \/ \E i \in 1 .. Len(ida[c][s]) : ida[c][s][i].tipo = "REQ"
                          \/ \E i \in 1 .. Len(lista[s]) : lista[s][i].oper = c
  BY DEF NadieEsperaEnVano
<1>1. PICK s \in Supervisores : s = adt[c]
  BY DEF IInv, TypeOK
<1>2. EsperaCamino(c, s) \/ EsperaLista(c, s) \/ EsperaRespuesta(c, s)
  BY <1>1 DEF IInv, Esperas
<1>3. CASE EsperaCamino(c, s)
  <2>1. 1 \in 1 .. Len(ida[c][s]) /\ ida[c][s][1].tipo = "REQ"
    BY <1>3 DEF EsperaCamino
  <2> QED BY <2>1
<1>4. CASE EsperaLista(c, s)
  <2>1. PICK i \in Nat : Viva(s, c, i)
    BY <1>4 DEF EsperaLista, SinVivas
  <2>2. i \in 1 .. Len(lista[s]) /\ lista[s][i].oper = c
    BY <2>1 DEF Viva
  <2> QED BY <2>2
<1>5. CASE EsperaRespuesta(c, s)
  <2>1. CASE Len(vuelta[c][s]) = 0
    BY <1>5, <2>1 DEF EsperaRespuesta
  <2>2. CASE Len(vuelta[c][s]) # 0
    <3>1. vuelta[c][s] # <<>>
      BY <2>2
    <3> QED BY <3>1
  <2> QED BY <2>1, <2>2
<1> QED
  BY <1>2, <1>3, <1>4, <1>5

LEMMA BorraPaso ==
    ASSUME IInv, [Next]_vars, NEW s \in Supervisores, spc[s] = "borra", spc'[s] = "recuenta",
           vista[s].hay, NEW e \in Range(lista[s]) \ Range(lista'[s])
    PROVE  e.oper = vista[s].oper /\ e.ped = vista[s].ped
<1>0. TypeOK /\ Est(s)
  BY DEF IInv, Est
<1>1. ~(UNCHANGED spc)
  OBVIOUS
<1>2. OVRro_pic_or_exit(s)
  <2>1. ASSUME NEW c \in Cajeros, PasoCajero(c) PROVE FALSE
    BY <1>0, <1>1, <2>1, OtroCajero
  <2>2. ASSUME NEW c \in Cajeros, NEW t \in Supervisores, PasoMensaje(c, t) PROVE FALSE
    BY <1>1, <2>2
    DEF PasoMensaje, EventoCajero, EventoSupervisor, NoEntrega, PierdeRespuesta, menu
  <2>3. PICK t \in Supervisores : PasoMenu(t)
    <3>1. Next
      BY <1>1 DEF vars, menu
    <3> QED BY <2>1, <2>2, <3>1 DEF Next
  <2>4. t = s
    BY <1>0, <2>3, MenuDeja
  <2> QED
    BY <2>3, <2>4
    DEF PasoMenu, PDISoverride, PDISoverride_unico, PCOLoverride, PCOLoverride_trae,
        ESCoverride, PBrequest, OVRro_pic_or_exit_cuenta, OVRro_clr_ovr_pend
<1>3. lista'[s] = saovreq_delete(s)
  BY <1>0, <1>2 DEF OVRro_pic_or_exit, TypeOK
<1>4. lista'[s] # lista[s]
  OBVIOUS
<1>5. PICK k \in 1 .. Len(lista[s]) :
         /\ lista'[s] = RemoveAt(lista[s], k)
         /\ lista[s][k].seq_num = ro_seq_num[s]
  BY <1>0, <1>3, <1>4, BorraUno
<1>6. lista[s] \in Seq(OVR_REQ) /\ lista'[s] \in Seq(OVR_REQ)
  BY <1>0, TipoPaso DEF TypeOK
<1>7. PICK j \in 1 .. Len(lista[s]) : e = lista[s][j]
  BY <1>6 DEF Range
<1>8. j = k
  <2> SUFFICES ASSUME j # k PROVE FALSE
    OBVIOUS
  <2>1. PICK i \in 1 .. Len(lista'[s]) : lista'[s][i] = lista[s][j]
    BY <1>0, <1>5, Quedan
  <2>2. e \in Range(lista'[s])
    BY <1>6, <1>7, <2>1 DEF Range
  <2> QED BY <2>2
<1>9. \A i \in 1 .. Len(lista[s]) :
         /\ lista[s][i].seq_num = ro_seq_num[s] <=> lista[s][i].ped = vista[s].ped
         /\ lista[s][i].ped = vista[s].ped => lista[s][i].oper = vista[s].oper
  BY <1>0 DEF Est, Pantalla, Mostrada
<1> QED
  BY <1>5, <1>7, <1>8, <1>9

-----------------------------------------------------------------------------
(* What holds of the program.                                              *)

\* Whatever the numbers do, the types hold and the indicator of a supervisor's
\* station is not left on with an empty list: the script that takes a cancel and
\* OVRro_pic_or_exit clear it between each other's calls.
THEOREM IndicadorNuncaSolo == Spec => [](TypeOK /\ IndicadorConPendientes)
<1>1. Init => TypeOK /\ Indicador
  BY TipoInicial DEF Init, Indicador, IndicadorConPendientes
<1>2. TypeOK /\ Indicador /\ [Next]_vars => (TypeOK /\ Indicador)'
  <2>1. CASE UNCHANGED vars
    BY <2>1, TipoPaso DEF Indicador, IndicadorConPendientes, vars, estacion, menu
  <2> QED BY <2>1, TipoPaso, IndicadorPaso
<1>3. TypeOK /\ Indicador => TypeOK /\ IndicadorConPendientes
  BY DEF Indicador
<1> QED
  BY <1>1, <1>2, <1>3, PTL DEF Spec

\* The argument common to the rest: no station has used all its numbers.
THEOREM InvarianteSupervision ==
    ASSUME SinVuelta
    PROVE  Spec => []IInv
<1>1. IInv /\ [Next]_vars => IInv'
  BY IInvPaso
<1> QED
  BY <1>1, IInvInicial, PTL DEF Spec

\* The types, the indicator, and no teller that uses more grants than it was given:
\* an answer REM_OVR_RESP is used at most once, though it carries no number.
THEOREM SupervisionSegura ==
    ASSUME SinVuelta
    PROVE  Spec => []SupervisionInv
<1>1. IInv => SupervisionInv
  BY CuentaDice DEF IInv, Indicador, SupervisionInv
<1> QED
  BY <1>1, InvarianteSupervision, PTL

\* A teller that gave no request up uses the grants its supervisor gave to that very
\* request: jnl_supervisor names who authorized the transaction.
THEOREM GrantDelPedido ==
    ASSUME SinVuelta
    PROVE  Spec => []ConcedePedido
<1>1. IInv => ConcedePedido
  BY DEF IInv
<1> QED
  BY <1>1, InvarianteSupervision, PTL

\* While the counter of the station has not come round, no two requests of its list
\* have the same number: removr.c:164 then says true.
THEOREM NumeroPropio ==
    ASSUME SinVuelta
    PROVE  Spec => []NumeroUnico
<1>1. IInv => NumeroUnico
  <2> SUFFICES ASSUME IInv, NEW s \in Supervisores,
                      NEW i \in DOMAIN lista[s], NEW j \in DOMAIN lista[s],
                      lista[s][i].seq_num = lista[s][j].seq_num
               PROVE  i = j
    BY DEF NumeroUnico
  <2>1. DOMAIN lista[s] = 1 .. Len(lista[s])
    BY DEF IInv, TypeOK
  <2> QED
    BY <2>1 DEF IInv, Numeros
<1> QED
  BY <1>1, InvarianteSupervision, PTL

\* Without cancels nor failures, who waits in SRQ_wait_for_resp has something to
\* wait for: no request is dropped from the list unanswered.
THEOREM NingunaEsperaVana ==
    ASSUME SinVuelta
    PROVE  Spec => []NadieEsperaEnVano
<1>1. IInv => NadieEsperaEnVano
  BY EsperaAlgo
<1> QED
  BY <1>1, InvarianteSupervision, PTL

\* OVRro_pic_or_exit deletes by number the request the supervisor decided on, or
\* none, whatever came and went while the screen was up.
THEOREM BorradoDecidido ==
    ASSUME SinVuelta
    PROVE  Spec => BorraLoDecidido
<1>1. IInv /\ [Next]_vars =>
        [\A s \in Supervisores :
           (spc[s] = "borra" /\ spc'[s] = "recuenta" /\ vista[s].hay) =>
             \A e \in Range(lista[s]) \ Range(lista'[s]) :
                 e.oper = vista[s].oper /\ e.ped = vista[s].ped]_vars
  BY BorraPaso
<1> QED
  BY <1>1, InvarianteSupervision, PTL DEF Spec, BorraLoDecidido

=============================================================================
