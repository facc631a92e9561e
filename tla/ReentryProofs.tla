--------------------------- MODULE ReentryProofs ---------------------------
(***************************************************************************)
(* The reentry of offline transactions, for every number of tellers,       *)
(* records, crashes and cuts of the line.  IInv says who holds a record    *)
(* and what the tables may lack of it: no application by the host beyond   *)
(* the crashes, no exit behind its entry, and, until a station crashes,    *)
(* totals and treasury one step behind the journal at most.                *)
(***************************************************************************)
EXTENDS Reentry, FiniteSetTheorems, WellFoundedInduction, TLAPS

USE ProcesosAssumption, InterrumpeAssumption, ReentryMaxAssumption, FaltanAssumption

-----------------------------------------------------------------------------
(* The inductive invariant.                                                *)

\* From the read of a record to the end of its treatment; its journal written.
EnMano(p) == pc[p] \in {"decide", "graba", "reversa", "tesoro"}
Escrito(p) == pc[p] \in {"reversa", "tesoro"}
Grabando(p) == pc[p] \in {"graba", "reversa", "tesoro"}

\* A record is in the hands of one station.
Candado ==
    \A p, q \in Procesos : EnMano(p) /\ EnMano(q) /\ cur[p] = cur[q] => p = q

EnManos ==
    \A p \in Procesos :
        /\ EnMano(p) => cur[p] \in Regs
        /\ pc[p] \in {"decide", "graba"} => cur[p] \in Seleccion(p)
        /\ Grabando(p) => tran_status[p] # SinRegistro
        /\ Escrito(p) => jnl[cur[p]].st = tran_status[p]
        /\ pc[p] = "reversa" => p # Sup /\ Rechazada(tran_status[p]) /\ tots[cur[p]] = 1

\* An entry was sent after its exit was accepted, or rejected without a message.
EntradasEnMano ==
    \A p \in Procesos : Grabando(p) /\ EsEntrada(cur[p]) =>
        /\ jnl[cur[p]].sal # 0
        /\ IF mensaje[p] THEN Rechazada(tmov[jnl[cur[p]].sal].status)
           ELSE jnl[jnl[cur[p]].sal].st = HOST_ACCEPTED

Registros ==
    \A s \in Regs :
        /\ jnl[s].st = SinRegistro => jnl[s].tipo = "tran" /\ host[s] = 0
        /\ jnl[s].tipo = "salida" => tmov[s].status \in {UNPOSTED, jnl[s].st}
        /\ EsEntrada(s) /\ jnl[s].sal # 0 => jnl[jnl[s].sal].tipo = "salida"
        /\ jnl[s].st \in {UNPOSTED, HOST_ACCEPTED} => tots[s] = 1

\* A record without its answer written was applied at most once per crash.
Aplicadas ==
    \A s \in Regs :
        /\ host[s] <= 1 + caidas
        /\ jnl[s].st = UNPOSTED /\ (\A p \in Procesos : pc[p] = "graba" => cur[p] # s)
              => host[s] <= caidas

Totales ==
    caidas = 0 => \A s \in Regs \ ajenos : Rechazada(jnl[s].st) =>
        tots[s] = 0 \/ \E p \in Procesos : pc[p] = "reversa" /\ cur[p] = s

\* The entries that hold a movement: not rejected, or rejected by the host with
\* the movement still to be given back.
Retiene(e) ==
    \/ ~Rechazada(jnl[e].st)
    \/ \E p \in Procesos : Escrito(p) /\ cur[p] = e /\ ~mensaje[p]
Tomadoras(m) == {e \in EntradasDe(m) : Retiene(e)}

Movimientos ==
    caidas = 0 => \A m \in Regs : jnl[m].tipo = "salida" =>
        /\ tmov[m].status = jnl[m].st \/ \E p \in Procesos : Escrito(p) /\ cur[p] = m
        /\ \A e, f \in Tomadoras(m) : e = f
        /\ tmov[m].marca = IF Rechazada(tmov[m].status) THEN "A"
                           ELSE IF Tomadoras(m) = {} THEN "no" ELSE "I"

\* What a reentry has counted, against the records there are.
Grabados == {s \in Regs : jnl[s].st \notin {SinRegistro, UNPOSTED}}
EnCuenta(p) == IF Escrito(p) THEN 1 ELSE 0

Contados ==
    \A p \in Procesos :
        /\ pendientes[p] >= EnCuenta(p) - Cardinality(Grabados)
        /\ p # Sup /\ pc[p] # "libre" =>
              pendientes[p] >= Cardinality(Seleccion(p)) + EnCuenta(p)

IInv ==
    /\ TypeOK /\ Candado /\ EnManos /\ EntradasEnMano /\ Registros
    /\ Aplicadas /\ EntradaTrasSalida /\ Totales /\ Movimientos /\ Contados

-----------------------------------------------------------------------------
(* Lemmas about states, selections and counts.                             *)

\* What the order of the states is used for.
LEMMA Codigos ==
    /\ ~Rechazada(SinRegistro) /\ ~Rechazada(UNPOSTED) /\ ~Rechazada(HOST_ACCEPTED)
    /\ Rechazada(HOST_REJECTED) /\ Rechazada(RCV_RESET)
    /\ SinRegistro # UNPOSTED /\ SinRegistro # HOST_ACCEPTED
    /\ \A st \in {HOST_ACCEPTED, HOST_REJECTED, RCV_RESET} : st # UNPOSTED /\ st # SinRegistro
BY DEF Rechazada, SinRegistro, UNPOSTED, HOST_ACCEPTED, HOST_REJECTED, RCV_RESET

\* The selection of a reentry begins with a record of it.
LEMMA PrimeroEsta ==
    ASSUME NEW S \in SUBSET Regs, S # {}
    PROVE  Primero(S) \in S
<1>1. S \subseteq Nat
    BY DEF Regs
<1> DEFINE T == {0 .. x : x \in S}
<1>2. T \subseteq FiniteSubsetsOf(Nat) /\ T # {}
    BY <1>1, FS_Interval DEF FiniteSubsetsOf
<1>3. PICK X \in T : \A Y \in T : <<Y, X>> \notin StrictSubsetOrdering(Nat)
    BY <1>2, FS_StrictSubsetOrderingWellFounded, WFMin
<1>4. PICK x \in S : X = 0 .. x
    BY <1>3
<1>5. \A y \in S : x <= y
  <2> SUFFICES ASSUME NEW y \in S, y < x PROVE FALSE
      BY <1>1
  <2>1. 0 .. y \in SUBSET X /\ 0 .. y # X
      BY <1>1, <1>4
  <2>2. <<0 .. y, X>> \in StrictSubsetOrdering(Nat)
      BY <1>1, <1>4, <2>1 DEF StrictSubsetOrdering
  <2> QED
      BY <1>3, <2>2
<1> QED
    BY <1>5 DEF Primero

\* Sets of records are finite.
LEMMA Finitos ==
    /\ Cardinality(Regs) = MaxSeq /\ IsFiniteSet(Regs)
    /\ \A T \in SUBSET Regs :
          IsFiniteSet(T) /\ Cardinality(T) \in Nat /\ Cardinality(T) <= MaxSeq
<1>1. IsFiniteSet(Regs) /\ Cardinality(Regs) = MaxSeq
    BY FS_Interval DEF Regs
<1>2. ASSUME NEW T \in SUBSET Regs
      PROVE  IsFiniteSet(T) /\ Cardinality(T) \in Nat /\ Cardinality(T) <= MaxSeq
    BY <1>1, FS_Subset, FS_CardinalityType
<1> QED
    BY <1>1, <1>2

\* What is typed, field by field.
LEMMA Campos ==
    ASSUME TypeOK, NEW s \in Regs
    PROVE  /\ jnl[s] \in RegJnl /\ tmov[s] \in Mov /\ host[s] \in Nat /\ tots[s] \in 0 .. 1
           /\ jnl[s].sal \in 0 .. MaxSeq /\ (jnl[s].sal # 0 => jnl[s].sal \in Regs)
BY DEF TypeOK, RegJnl, Regs

\* A station that writes its answer has one, which is not UNPOSTED.
LEMMA Respuesta ==
    ASSUME IInv, NEW p \in Procesos, Grabando(p)
    PROVE  tran_status[p] \in {HOST_ACCEPTED, HOST_REJECTED, RCV_RESET}
BY DEF IInv, TypeOK, EnManos

-----------------------------------------------------------------------------
(* The steps, by what they do.                                             *)

\* A reentry that ends, and the crash of its station, leave the tables as they are.
LEMMA PasoFin ==
    ASSUME IInv, NEW p \in Procesos, Fin(p),
           UNCHANGED <<tablas, line, host, cortes, ajenos>>,
           \/ caidas' = caidas /\ ~Grabando(p)
           \/ caidas' = caidas + 1 /\ caidas < MaxCaidas
    PROVE  IInv'
<1>1. \A q \in Procesos :
          /\ pc'[q] = IF q = p THEN "libre" ELSE pc[q]
          /\ q # p => /\ cur'[q] = cur[q] /\ tran_status'[q] = tran_status[q]
                      /\ mensaje'[q] = mensaje[q] /\ pendientes'[q] = pendientes[q]
          /\ q = p => pendientes'[q] = 0
    BY DEF IInv, TypeOK, Fin
<1>2. /\ jnl' = jnl /\ tmov' = tmov /\ tots' = tots /\ host' = host /\ ajenos' = ajenos
      /\ caidas \in 0 .. MaxCaidas
      /\ caidas' = 0 => caidas = 0 /\ ~Grabando(p)
    BY DEF tablas, IInv, TypeOK
<1>3. TypeOK'
    BY DEF IInv, TypeOK, Fin, tablas
<1>4. Candado'
    BY <1>1 DEF IInv, Candado, EnMano
<1>5. EnManos'
    BY <1>1, <1>2 DEF IInv, EnManos, EnMano, Grabando, Escrito, Seleccion
<1>6. EntradasEnMano'
    BY <1>1, <1>2 DEF IInv, EntradasEnMano, Grabando, EsEntrada
<1>7. Registros'
    BY <1>2 DEF IInv, Registros, EsEntrada
<1>8. Aplicadas'
  <2>1. CASE caidas' = caidas /\ ~Grabando(p)
      BY <1>1, <1>2, <2>1 DEF IInv, Aplicadas, Grabando
  <2>2. CASE caidas' = caidas + 1
    <3>1. \A s \in Regs : host[s] <= 1 + caidas /\ host[s] \in Nat
        BY Campos DEF IInv, Aplicadas
    <3> QED
        BY <1>2, <2>2, <3>1 DEF Aplicadas
  <2> QED
      BY <2>1, <2>2
<1>9. EntradaTrasSalida'
    BY <1>2 DEF IInv, EntradaTrasSalida, EsEntrada
<1>10. Totales'
    BY <1>1, <1>2 DEF IInv, Totales, Grabando
<1>11. Movimientos'
  <2> SUFFICES ASSUME caidas' = 0 PROVE Movimientos'
      BY DEF Movimientos
  <2>1. \A q \in Procesos : /\ Escrito(q)' <=> Escrito(q)
                            /\ Escrito(q) => cur'[q] = cur[q] /\ mensaje'[q] = mensaje[q]
      BY <1>1, <1>2 DEF Escrito, Grabando
  <2>2. \A e \in Regs : Retiene(e)' <=> Retiene(e)
      BY <1>2, <2>1 DEF Retiene
  <2>3. \A m \in Regs : Tomadoras(m)' = Tomadoras(m)
      BY <1>2, <2>2 DEF Tomadoras, EntradasDe, EsEntrada
  <2> QED
      BY <1>2, <2>1, <2>3 DEF IInv, Movimientos
<1>12. Contados'
  <2>1. Grabados' = Grabados /\ \A q \in Procesos : Seleccion(q)' = Seleccion(q)
      BY <1>2 DEF Grabados, Seleccion
  <2>2. Cardinality(Grabados) \in Nat
      BY Finitos DEF Grabados
  <2> QED
      BY <1>1, <2>1, <2>2 DEF IInv, Contados, EnCuenta, Escrito
<1> QED
    BY <1>3, <1>4, <1>5, <1>6, <1>7, <1>8, <1>9, <1>10, <1>11, <1>12 DEF IInv

\* A station takes a record nobody has, from a selection of its own.
LEMMA PasoToma ==
    ASSUME IInv, NEW p \in Procesos, NEW s \in Seleccion(p), ~Bloqueado(p, s),
           pc[p] \in {"primera", "lee", "decide"},
           pc' = [pc EXCEPT ![p] = "decide"], cur' = [cur EXCEPT ![p] = s],
           ent_sal_1' \in [Procesos -> Nat],
           UNCHANGED <<tablas, tran_status, mensaje, pendientes, reentry_reset,
                       line, host, caidas, cortes, ajenos>>
    PROVE  IInv'
<1>1. /\ s \in Regs /\ jnl[s].st = UNPOSTED
      /\ \A q \in Procesos : /\ pc'[q] = IF q = p THEN "decide" ELSE pc[q]
                             /\ cur'[q] = IF q = p THEN s ELSE cur[q]
    BY DEF IInv, TypeOK, Seleccion
<1>2. /\ jnl' = jnl /\ tmov' = tmov /\ tots' = tots /\ host' = host /\ ajenos' = ajenos
      /\ caidas' = caidas /\ tran_status' = tran_status /\ mensaje' = mensaje
      /\ line' = line /\ cortes' = cortes /\ reentry_reset' = reentry_reset
      /\ pendientes' = pendientes
    BY DEF tablas
<1>3. TypeOK'
  <2>1. /\ pc' \in [Procesos -> {"libre", "primera", "lee", "decide", "graba", "reversa", "tesoro"}]
        /\ cur' \in [Procesos -> 0 .. MaxSeq]
      BY <1>1 DEF IInv, TypeOK, Regs
  <2> QED
      BY <1>2, <2>1 DEF IInv, TypeOK
<1>4. Candado'
  <2>1. \A q \in Procesos : q # p /\ EnMano(q) => cur[q] # s
      BY <1>1, Respuesta, Codigos DEF IInv, EnManos, EnMano, Escrito, Grabando, Bloqueado
  <2> QED
      BY <1>1, <2>1 DEF IInv, Candado, EnMano
<1>5. EnManos'
    BY <1>1, <1>2 DEF IInv, EnManos, EnMano, Grabando, Escrito, Seleccion
<1>6. EntradasEnMano'
    BY <1>1, <1>2 DEF IInv, EntradasEnMano, Grabando, EsEntrada
<1>7. Registros'
    BY <1>2 DEF IInv, Registros, EsEntrada
<1>8. Aplicadas'
    BY <1>1, <1>2 DEF IInv, Aplicadas
<1>9. EntradaTrasSalida'
    BY <1>2 DEF IInv, EntradaTrasSalida, EsEntrada
<1>10. Totales'
    BY <1>1, <1>2 DEF IInv, Totales
<1>11. Movimientos'
  <2>1. \A q \in Procesos : /\ Escrito(q)' <=> Escrito(q)
                            /\ Escrito(q) => cur'[q] = cur[q]
      BY <1>1 DEF Escrito
  <2>2. \A e \in Regs : Retiene(e)' <=> Retiene(e)
      BY <1>2, <2>1 DEF Retiene
  <2>3. \A m \in Regs : Tomadoras(m)' = Tomadoras(m)
      BY <1>2, <2>2 DEF Tomadoras, EntradasDe, EsEntrada
  <2> QED
      BY <1>2, <2>1, <2>3 DEF IInv, Movimientos
<1>12. Contados'
  <2>1. Grabados' = Grabados /\ \A q \in Procesos : Seleccion(q)' = Seleccion(q)
      BY <1>2 DEF Grabados, Seleccion
  <2> QED
      BY <1>1, <1>2, <2>1 DEF IInv, Contados, EnCuenta, Escrito
<1> QED
    BY <1>3, <1>4, <1>5, <1>6, <1>7, <1>8, <1>9, <1>10, <1>11, <1>12 DEF IInv

\* A station lets a record go, or starts: it has nothing in its hands.
LEMMA PasoSinMano ==
    ASSUME IInv, NEW p \in Procesos, NEW l \in {"primera", "lee"},
           pc[p] \in {"libre", "decide"}, pc' = [pc EXCEPT ![p] = l],
           cur' = cur \/ cur' = [cur EXCEPT ![p] = 0],
           ent_sal_1' \in [Procesos -> Nat],
           \/ pendientes' = pendientes /\ pc[p] = "decide"
           \/ pendientes' = [pendientes EXCEPT ![p] = Cardinality(Seleccion(p))],
           UNCHANGED <<tablas, tran_status, mensaje, reentry_reset,
                       line, host, caidas, cortes, ajenos>>
    PROVE  IInv'
<1>1. \A q \in Procesos : /\ pc'[q] = IF q = p THEN l ELSE pc[q]
                          /\ q # p => cur'[q] = cur[q] /\ pendientes'[q] = pendientes[q]
    BY DEF IInv, TypeOK
<1>2. /\ jnl' = jnl /\ tmov' = tmov /\ tots' = tots /\ host' = host /\ ajenos' = ajenos
      /\ caidas' = caidas /\ tran_status' = tran_status /\ mensaje' = mensaje
      /\ line' = line /\ cortes' = cortes /\ reentry_reset' = reentry_reset
    BY DEF tablas
<1>c. Seleccion(p) \in SUBSET Regs /\ Grabados \in SUBSET Regs
    BY DEF Seleccion, Grabados
<1>n. /\ Cardinality(Seleccion(p)) \in 0 .. MaxSeq /\ Cardinality(Grabados) \in Nat
      /\ pendientes \in [Procesos -> -MaxSeq .. MaxSeq]
    BY <1>c, Finitos DEF IInv, TypeOK
<1>3. TypeOK'
  <2>1. /\ pc' \in [Procesos -> {"libre", "primera", "lee", "decide", "graba", "reversa", "tesoro"}]
        /\ cur' \in [Procesos -> 0 .. MaxSeq]
      BY DEF IInv, TypeOK
  <2>2. pendientes' \in [Procesos -> -MaxSeq .. MaxSeq]
      BY <1>n
  <2> QED
      BY <1>2, <2>1, <2>2 DEF IInv, TypeOK
<1>4. Candado'
    BY <1>1 DEF IInv, Candado, EnMano
<1>5. EnManos'
    BY <1>1, <1>2 DEF IInv, EnManos, EnMano, Grabando, Escrito, Seleccion
<1>6. EntradasEnMano'
    BY <1>1, <1>2 DEF IInv, EntradasEnMano, Grabando, EsEntrada
<1>7. Registros'
    BY <1>2 DEF IInv, Registros, EsEntrada
<1>8. Aplicadas'
    BY <1>1, <1>2 DEF IInv, Aplicadas
<1>9. EntradaTrasSalida'
    BY <1>2 DEF IInv, EntradaTrasSalida, EsEntrada
<1>10. Totales'
    BY <1>1, <1>2 DEF IInv, Totales
<1>11. Movimientos'
  <2>1. \A q \in Procesos : /\ Escrito(q)' <=> Escrito(q)
                            /\ Escrito(q) => cur'[q] = cur[q]
      BY <1>1 DEF Escrito
  <2>2. \A e \in Regs : Retiene(e)' <=> Retiene(e)
      BY <1>2, <2>1 DEF Retiene
  <2>3. \A m \in Regs : Tomadoras(m)' = Tomadoras(m)
      BY <1>2, <2>2 DEF Tomadoras, EntradasDe, EsEntrada
  <2> QED
      BY <1>2, <2>1, <2>3 DEF IInv, Movimientos
<1>12. Contados'
  <2>1. Grabados' = Grabados /\ \A q \in Procesos : Seleccion(q)' = Seleccion(q)
      BY <1>2 DEF Grabados, Seleccion
  <2>2. EnCuenta(p) = 0 /\ EnCuenta(p)' = 0 /\ \A q \in Procesos : EnCuenta(q)' = EnCuenta(q)
      BY <1>1 DEF EnCuenta, Escrito
  <2>3. CASE pendientes' = pendientes /\ pc[p] = "decide"
      BY <1>1, <2>1, <2>2, <2>3 DEF IInv, Contados
  <2>4. CASE pendientes' = [pendientes EXCEPT ![p] = Cardinality(Seleccion(p))]
    <3>1. pendientes'[p] = Cardinality(Seleccion(p))
        BY <1>n, <2>4
    <3> QED
        BY <1>1, <1>n, <2>1, <2>2, <3>1 DEF IInv, Contados
  <2> QED
      BY <2>3, <2>4
<1> QED
    BY <1>3, <1>4, <1>5, <1>6, <1>7, <1>8, <1>9, <1>10, <1>11, <1>12 DEF IInv

\* The answer of the host, or the rejection of an entry, is still to be written.
LEMMA PasoRespuesta ==
    ASSUME IInv, NEW p \in Procesos, pc[p] = "decide",
           NEW st \in {HOST_ACCEPTED, HOST_REJECTED, RCV_RESET}, NEW rech \in BOOLEAN,
           NEW d \in {0, 1}, PorGrabar(p, st, rech),
           host' = [host EXCEPT ![cur[p]] = @ + d], rech => d = 0,
           EsEntrada(cur[p]) =>
               /\ jnl[cur[p]].sal # 0
               /\ IF rech THEN Rechazada(tmov[jnl[cur[p]].sal].status)
                  ELSE jnl[jnl[cur[p]].sal].st = HOST_ACCEPTED
    PROVE  IInv'
<1>1. /\ cur[p] \in Regs /\ jnl[cur[p]].st = UNPOSTED
      /\ \A q \in Procesos : /\ pc'[q] = IF q = p THEN "graba" ELSE pc[q]
                             /\ tran_status'[q] = IF q = p THEN st ELSE tran_status[q]
                             /\ mensaje'[q] = IF q = p THEN rech ELSE mensaje[q]
    BY DEF IInv, TypeOK, EnManos, EnMano, Seleccion, PorGrabar
<1>2. /\ jnl' = jnl /\ tmov' = tmov /\ tots' = tots /\ ajenos' = ajenos /\ cur' = cur
      /\ caidas' = caidas /\ pendientes' = pendientes
      /\ line' = line /\ cortes' = cortes /\ reentry_reset' = reentry_reset
      /\ ent_sal_1' = ent_sal_1
    BY DEF tablas, PorGrabar
<1>h. /\ caidas \in Nat
      /\ \A s \in Regs : /\ host[s] \in Nat
                         /\ host'[s] = IF s = cur[p] THEN host[s] + d ELSE host[s]
    BY DEF IInv, TypeOK
<1>3. TypeOK'
  <2>1. /\ pc' \in [Procesos -> {"libre", "primera", "lee", "decide", "graba", "reversa", "tesoro"}]
        /\ tran_status' \in [Procesos -> {SinRegistro, HOST_ACCEPTED, HOST_REJECTED, RCV_RESET}]
        /\ mensaje' \in [Procesos -> BOOLEAN]
      BY DEF IInv, TypeOK, PorGrabar
  <2>2. host' \in [Regs -> Nat]
      BY <1>1 DEF IInv, TypeOK
  <2> QED
      BY <1>2, <2>1, <2>2 DEF IInv, TypeOK
<1>4. Candado'
    BY <1>1, <1>2 DEF IInv, Candado, EnMano
<1>5. EnManos'
    BY <1>1, <1>2, Codigos DEF IInv, EnManos, EnMano, Grabando, Escrito, Seleccion
<1>6. EntradasEnMano'
    BY <1>1, <1>2 DEF IInv, EntradasEnMano, Grabando, EsEntrada
<1>7. Registros'
  <2>1. \A s \in Regs : jnl[s].st = SinRegistro => host'[s] = host[s]
      BY <1>1, <1>h, Codigos
  <2> QED
      BY <1>2, <2>1 DEF IInv, Registros, EsEntrada
<1>8. Aplicadas'
  <2>1. host[cur[p]] <= caidas
      BY <1>1 DEF IInv, Aplicadas, Candado, EnMano
  <2> QED
      BY <1>1, <1>2, <1>h, <2>1 DEF IInv, Aplicadas
<1>9. EntradaTrasSalida'
    BY <1>1, <1>2, <1>h DEF IInv, EntradaTrasSalida, EsEntrada
<1>10. Totales'
    BY <1>1, <1>2 DEF IInv, Totales
<1>11. Movimientos'
  <2>1. \A q \in Procesos : /\ Escrito(q)' <=> Escrito(q)
                            /\ Escrito(q) => mensaje'[q] = mensaje[q]
      BY <1>1 DEF Escrito
  <2>2. \A e \in Regs : Retiene(e)' <=> Retiene(e)
      BY <1>2, <2>1 DEF Retiene
  <2>3. \A m \in Regs : Tomadoras(m)' = Tomadoras(m)
      BY <1>2, <2>2 DEF Tomadoras, EntradasDe, EsEntrada
  <2> QED
      BY <1>2, <2>1, <2>3 DEF IInv, Movimientos
<1>12. Contados'
  <2>1. Grabados' = Grabados /\ \A q \in Procesos : Seleccion(q)' = Seleccion(q)
      BY <1>2 DEF Grabados, Seleccion
  <2> QED
      BY <1>1, <1>2, <2>1 DEF IInv, Contados, EnCuenta, Escrito
<1> QED
    BY <1>3, <1>4, <1>5, <1>6, <1>7, <1>8, <1>9, <1>10, <1>11, <1>12 DEF IInv

\* The journal record takes the answer: it leaves every selection, and the totals
\* and the treasury are still to be done.
LEMMA PasoDiario ==
    ASSUME IInv, NEW p \in Procesos, JNLreentry_upd(p),
           NEW s, s = cur[p], NEW st, st = tran_status[p]
    PROVE  IInv'
<1>1. /\ s \in Regs /\ s \in Seleccion(p) /\ jnl[s].st = UNPOSTED /\ pc[p] = "graba"
      /\ st \in {HOST_ACCEPTED, HOST_REJECTED, RCV_RESET} /\ st # UNPOSTED /\ st # SinRegistro
  <2>1. Grabando(p) /\ EnMano(p)
      BY DEF JNLreentry_upd, Grabando, EnMano
  <2> QED
      BY <2>1, Respuesta, Codigos DEF IInv, EnManos, Seleccion, JNLreentry_upd
<1>2. /\ \A q \in Procesos : q # p => pc'[q] = pc[q]
      /\ pc'[p] = IF p # Sup /\ Rechazada(st) THEN "reversa" ELSE "tesoro"
      /\ tmov' = tmov /\ tots' = tots /\ cur' = cur /\ tran_status' = tran_status
      /\ mensaje' = mensaje /\ pendientes' = pendientes /\ host' = host /\ caidas' = caidas
      /\ ent_sal_1' = ent_sal_1 /\ reentry_reset' = reentry_reset /\ line' = line
      /\ cortes' = cortes
    BY DEF IInv, TypeOK, JNLreentry_upd
<1>3. \A t \in Regs : /\ jnl'[t].tipo = jnl[t].tipo /\ jnl'[t].de = jnl[t].de
                      /\ jnl'[t].sal = jnl[t].sal
                      /\ jnl'[t].st = IF t = s THEN st ELSE jnl[t].st
  <2>1. jnl' = [jnl EXCEPT ![s].st = st] /\ jnl \in [Regs -> RegJnl]
      BY DEF IInv, TypeOK, JNLreentry_upd
  <2> QED
      BY <1>1, <2>1 DEF RegJnl
<1>4. ajenos' = IF p = Sup THEN ajenos \cup {s} ELSE ajenos
    BY DEF JNLreentry_upd
<1>5. \A q \in Procesos : q # p /\ EnMano(q) => cur[q] # s
    BY <1>1 DEF IInv, Candado, EnMano
<1>6. TypeOK'
  <2>1. pc' \in [Procesos -> {"libre", "primera", "lee", "decide", "graba", "reversa", "tesoro"}]
      BY DEF IInv, TypeOK, JNLreentry_upd
  <2>2. jnl' \in [Regs -> RegJnl]
    <3>1. jnl' = [jnl EXCEPT ![s].st = st] /\ jnl \in [Regs -> RegJnl]
        BY DEF IInv, TypeOK, JNLreentry_upd
    <3> QED
        BY <1>1, <3>1 DEF RegJnl
  <2>3. ajenos' \subseteq Regs
      BY <1>1, <1>4 DEF IInv, TypeOK
  <2> QED
      BY <1>2, <2>1, <2>2, <2>3 DEF IInv, TypeOK
<1>7. Candado'
    BY <1>1, <1>2, <1>5 DEF IInv, Candado, EnMano
<1>8. EnManos'
  <2>1. tots[s] = 1
      BY <1>1 DEF IInv, Registros
  <2>2. /\ EnMano(p)' /\ Grabando(p)' /\ Escrito(p)' /\ pc'[p] \notin {"decide", "graba"}
        /\ pc'[p] = "reversa" => p # Sup /\ Rechazada(st)
      BY <1>2 DEF EnMano, Grabando, Escrito
  <2>3. \A q \in Procesos : q # p /\ EnMano(q) => cur[q] \in Regs /\ cur[q] # s
      BY <1>5 DEF IInv, EnManos
  <2> QED
      BY <1>1, <1>2, <1>3, <2>1, <2>2, <2>3
         DEF IInv, EnManos, EnMano, Grabando, Escrito, Seleccion
<1>9. EntradasEnMano'
  <2>1. \A t \in Regs : jnl[t].sal # 0 => jnl[t].sal \in Regs
      BY Campos DEF IInv
  <2>2. Grabando(p) /\ \A q \in Procesos : Grabando(q)' <=> Grabando(q)
      BY <1>1, <1>2 DEF Grabando
  <2>3. \A q \in Procesos : Grabando(q) => cur[q] \in Regs
      BY DEF IInv, EnManos, EnMano, Grabando
  <2> QED
      BY <1>1, <1>2, <1>3, <2>1, <2>2, <2>3, Codigos DEF IInv, EntradasEnMano, EsEntrada
<1>10. Registros'
  <2>1. \A t \in Regs : jnl[t].sal # 0 => jnl[t].sal \in Regs
      BY Campos DEF IInv
  <2> QED
      BY <1>1, <1>2, <1>3, <2>1 DEF IInv, Registros, EsEntrada
<1>11. Aplicadas'
    BY <1>1, <1>2, <1>3 DEF IInv, Aplicadas
<1>12. EntradaTrasSalida'
  <2>1. \A t \in Regs : jnl[t].sal # 0 => jnl[t].sal \in Regs
      BY Campos DEF IInv
  <2> QED
      BY <1>1, <1>2, <1>3, <2>1, Codigos DEF IInv, EntradaTrasSalida, EsEntrada
<1>13. Totales'
    BY <1>1, <1>2, <1>3, <1>4 DEF IInv, Totales
<1>14. Movimientos'
  <2> SUFFICES ASSUME caidas = 0, NEW m \in Regs, jnl[m].tipo = "salida"
               PROVE  /\ \/ tmov[m].status = jnl'[m].st
                         \/ \E q \in Procesos : Escrito(q)' /\ cur[q] = m
                      /\ \A e, f \in Tomadoras(m)' : e = f
                      /\ tmov[m].marca = IF Rechazada(tmov[m].status) THEN "A"
                                         ELSE IF Tomadoras(m)' = {} THEN "no" ELSE "I"
      BY <1>2, <1>3 DEF Movimientos
  <2>1. Escrito(p)' /\ ~Escrito(p) /\ \A q \in Procesos : q # p => (Escrito(q)' <=> Escrito(q))
      BY <1>1, <1>2 DEF Escrito
  <2>2. /\ \A e \in Regs : e # s => (Retiene(e)' <=> Retiene(e))
        /\ Retiene(s) /\ (~mensaje[p] => Retiene(s)')
    <3>1. ASSUME NEW e \in Regs, e # s PROVE Retiene(e)' <=> Retiene(e)
      <4>1. jnl'[e].st = jnl[e].st
          BY <1>3, <3>1
      <4>2. \A q \in Procesos : Escrito(q)' /\ cur[q] = e <=> Escrito(q) /\ cur[q] = e
          BY <2>1, <3>1
      <4> QED
          BY <1>2, <4>1, <4>2 DEF Retiene
    <3>2. Retiene(s)
        BY <1>1, Codigos DEF Retiene
    <3>3. ASSUME ~mensaje[p] PROVE Retiene(s)'
      <4>1. Escrito(p)' /\ cur'[p] = s /\ ~mensaje'[p]
          BY <1>2, <2>1, <3>3
      <4> QED
          BY <4>1 DEF Retiene
    <3> QED
        BY <3>1, <3>2, <3>3
  <2>3. /\ tmov[m].status = jnl[m].st \/ \E q \in Procesos : Escrito(q) /\ cur[q] = m
        /\ \A e, f \in Tomadoras(m) : e = f
        /\ tmov[m].marca = IF Rechazada(tmov[m].status) THEN "A"
                           ELSE IF Tomadoras(m) = {} THEN "no" ELSE "I"
      BY DEF IInv, Movimientos
  <2>4. \/ tmov[m].status = jnl'[m].st
        \/ \E q \in Procesos : Escrito(q)' /\ cur[q] = m
      BY <1>3, <2>1, <2>3
  <2>5. EntradasDe(m)' = EntradasDe(m) /\ EntradasDe(m) \subseteq Regs
      BY <1>3 DEF EntradasDe, EsEntrada
  <2>6. Tomadoras(m)' \subseteq Tomadoras(m)
      BY <2>2, <2>5 DEF Tomadoras
  <2>7. Tomadoras(m)' = Tomadoras(m) \/ Rechazada(tmov[m].status)
    <3>1. CASE mensaje[p] /\ s \in EntradasDe(m)
      <4>1. EsEntrada(s) /\ jnl[s].sal = m
          BY <3>1 DEF EntradasDe
      <4> QED
          BY <1>1, <3>1, <4>1 DEF IInv, EntradasEnMano, Grabando
    <3>2. CASE ~(mensaje[p] /\ s \in EntradasDe(m))
      <4>1. ASSUME NEW e \in EntradasDe(m) PROVE Retiene(e)' <=> Retiene(e)
        <5>1. CASE e # s
            BY <2>2, <2>5, <5>1
        <5>2. CASE e = s
            BY <2>2, <3>2, <5>2
        <5> QED
            BY <5>1, <5>2
      <4> QED
          BY <2>5, <4>1 DEF Tomadoras
    <3> QED
        BY <3>1, <3>2
  <2> QED
      BY <2>3, <2>4, <2>6, <2>7
<1>15. Contados'
  <2>1. /\ Grabados' = Grabados \cup {s} /\ s \notin Grabados /\ Grabados \in SUBSET Regs
        /\ \A q \in Procesos : /\ Seleccion(q)' = Seleccion(q) \ {s}
                               /\ Seleccion(q) \in SUBSET Regs
      BY <1>1, <1>3 DEF Grabados, Seleccion
  <2>2. /\ Cardinality(Grabados) \in Nat /\ Cardinality(Grabados') = Cardinality(Grabados) + 1
      BY <2>1, Finitos, FS_AddElement
  <2>3. \A q \in Procesos :
           /\ Cardinality(Seleccion(q)) \in Nat
           /\ Cardinality(Seleccion(q)') \in Nat
           /\ Cardinality(Seleccion(q)') <= Cardinality(Seleccion(q))
    <3> TAKE q \in Procesos
    <3>1. IsFiniteSet(Seleccion(q)) /\ Seleccion(q)' \in SUBSET Seleccion(q)
        BY <2>1, Finitos
    <3> QED
        BY <3>1, FS_Subset, FS_CardinalityType
  <2>4. Cardinality(Seleccion(p)') = Cardinality(Seleccion(p)) - 1
    <3>1. IsFiniteSet(Seleccion(p)) /\ s \in Seleccion(p)
        BY <1>1, <2>1, Finitos
    <3>2. Cardinality(Seleccion(p) \ {s}) = Cardinality(Seleccion(p)) - 1
        BY <3>1, FS_RemoveElement
    <3> QED
        BY <2>1, <3>2
  <2>5. /\ EnCuenta(p) = 0 /\ EnCuenta(p)' = 1
        /\ \A q \in Procesos : q # p => EnCuenta(q)' = EnCuenta(q)
        /\ \A q \in Procesos : EnCuenta(q) \in {0, 1}
      BY <1>1, <1>2 DEF EnCuenta, Escrito
  <2>6. \A q \in Procesos : pc'[q] # "libre" => pc[q] # "libre"
      BY <1>1, <1>2
  <2>7. pendientes \in [Procesos -> Int]
      BY DEF IInv, TypeOK
  <2> QED
      BY <1>2, <2>2, <2>3, <2>4, <2>5, <2>6, <2>7 DEF IInv, Contados
<1> QED
    BY <1>6, <1>7, <1>8, <1>9, <1>10, <1>11, <1>12, <1>13, <1>14, <1>15 DEF IInv

\* The totals of the teller give back a rejected transaction.
LEMMA PasoReversa ==
    ASSUME IInv, NEW p \in Procesos, JNLreentry_upd_tots(p),
           NEW s, s = cur[p]
    PROVE  IInv'
<1>1. /\ s \in Regs /\ pc[p] = "reversa" /\ tots[s] = 1 /\ p # Sup
      /\ Rechazada(tran_status[p]) /\ jnl[s].st = tran_status[p]
    BY DEF IInv, EnManos, EnMano, Escrito, JNLreentry_upd_tots
<1>2. /\ \A q \in Procesos : pc'[q] = IF q = p THEN "tesoro" ELSE pc[q]
      /\ \A t \in Regs : tots'[t] = IF t = s THEN 0 ELSE tots[t]
    BY <1>1 DEF IInv, TypeOK, JNLreentry_upd_tots, Reversada
<1>3. /\ jnl' = jnl /\ tmov' = tmov /\ cur' = cur /\ tran_status' = tran_status
      /\ mensaje' = mensaje /\ pendientes' = pendientes /\ host' = host /\ caidas' = caidas
      /\ ent_sal_1' = ent_sal_1 /\ reentry_reset' = reentry_reset /\ line' = line
      /\ cortes' = cortes /\ ajenos' = ajenos
    BY DEF JNLreentry_upd_tots
<1>4. TypeOK'
  <2>1. /\ pc' \in [Procesos -> {"libre", "primera", "lee", "decide", "graba", "reversa", "tesoro"}]
        /\ tots' \in [Regs -> 0 .. 1]
      BY <1>1 DEF IInv, TypeOK, JNLreentry_upd_tots, Reversada
  <2> QED
      BY <1>3, <2>1 DEF IInv, TypeOK
<1>5. /\ \A q \in Procesos : /\ EnMano(q)' <=> EnMano(q)
                             /\ Escrito(q)' <=> Escrito(q)
                             /\ Grabando(q)' <=> Grabando(q)
      /\ \A q \in Procesos : q # p /\ EnMano(q) => cur[q] # s
    BY <1>1, <1>2 DEF IInv, Candado, EnMano, Escrito, Grabando
<1>6. Candado'
    BY <1>3, <1>5 DEF IInv, Candado
<1>7. EnManos'
  <2>1. \A q \in Procesos : q # p /\ pc[q] = "reversa" => cur[q] # s /\ cur[q] \in Regs
      BY <1>5 DEF IInv, EnManos, EnMano
  <2>2. \A q \in Procesos : Seleccion(q)' = Seleccion(q)
      BY <1>3 DEF Seleccion
  <2> QED
      BY <1>2, <1>3, <1>5, <2>1, <2>2 DEF IInv, EnManos
<1>8. EntradasEnMano'
    BY <1>3, <1>5 DEF IInv, EntradasEnMano, EsEntrada
<1>9. Registros'
  <2>1. jnl[s].st \notin {UNPOSTED, HOST_ACCEPTED}
      BY <1>1, Codigos
  <2> QED
      BY <1>2, <1>3, <2>1 DEF IInv, Registros, EsEntrada
<1>10. Aplicadas'
    BY <1>1, <1>2, <1>3 DEF IInv, Aplicadas
<1>11. EntradaTrasSalida'
    BY <1>3 DEF IInv, EntradaTrasSalida, EsEntrada
<1>12. Totales'
    BY <1>1, <1>2, <1>3 DEF IInv, Totales
<1>13. Movimientos'
  <2>1. \A e \in Regs : Retiene(e)' <=> Retiene(e)
      BY <1>3, <1>5 DEF Retiene
  <2>2. \A m \in Regs : Tomadoras(m)' = Tomadoras(m)
      BY <1>3, <2>1 DEF Tomadoras, EntradasDe, EsEntrada
  <2> QED
      BY <1>3, <1>5, <2>2 DEF IInv, Movimientos
<1>14. Contados'
  <2>1. Grabados' = Grabados /\ \A q \in Procesos : Seleccion(q)' = Seleccion(q)
      BY <1>3 DEF Grabados, Seleccion
  <2>2. \A q \in Procesos : /\ EnCuenta(q)' = EnCuenta(q)
                            /\ pc'[q] # "libre" => pc[q] # "libre"
      BY <1>1, <1>2, <1>5 DEF EnCuenta
  <2> QED
      BY <1>3, <2>1, <2>2 DEF IInv, Contados
<1> QED
    BY <1>4, <1>6, <1>7, <1>8, <1>9, <1>10, <1>11, <1>12, <1>13, <1>14 DEF IInv

\* The treasury takes the answer: an exit gives its state to its movement, an entry
\* the host rejected gives its movement back.
LEMMA PasoTesoro ==
    ASSUME IInv, NEW p \in Procesos, Tesoro(p),
           NEW s, s = cur[p], NEW st, st = tran_status[p]
    PROVE  IInv'
<1>1. /\ s \in Regs /\ pc[p] = "tesoro" /\ jnl[s].st = st /\ Escrito(p) /\ EnMano(p) /\ Grabando(p)
      /\ st \in {HOST_ACCEPTED, HOST_REJECTED, RCV_RESET} /\ st # UNPOSTED /\ st # SinRegistro
  <2>1. pc[p] = "tesoro" /\ Escrito(p) /\ EnMano(p) /\ Grabando(p)
      BY DEF Tesoro, Escrito, EnMano, Grabando
  <2> QED
      BY <2>1, Respuesta, Codigos DEF IInv, EnManos
<1>2. \A q \in Procesos :
          /\ pc'[q] = IF q = p THEN "lee" ELSE pc[q]
          /\ pendientes'[q] = IF q = p THEN pendientes[q] - 1 ELSE pendientes[q]
          /\ q # p => /\ cur'[q] = cur[q] /\ tran_status'[q] = tran_status[q]
                      /\ mensaje'[q] = mensaje[q]
    BY DEF IInv, TypeOK, Tesoro
<1>3. /\ jnl' = jnl /\ tots' = tots /\ host' = host /\ caidas' = caidas
      /\ ent_sal_1' = ent_sal_1 /\ reentry_reset' = reentry_reset /\ line' = line
      /\ cortes' = cortes /\ ajenos' = ajenos
    BY DEF Tesoro
<1>4. EsEntrada(s) =>
          /\ jnl[s].sal # 0 /\ jnl[s].sal \in Regs /\ jnl[jnl[s].sal].tipo = "salida"
          /\ IF mensaje[p] THEN Rechazada(tmov[jnl[s].sal].status)
             ELSE jnl[jnl[s].sal].st = HOST_ACCEPTED
    BY <1>1, Campos DEF IInv, EntradasEnMano, Registros
\* The movement of an exit, and that an entry gives back.
<1>5. \A m \in Regs :
          /\ tmov'[m].status = IF m = s /\ jnl[s].tipo = "salida" THEN st ELSE tmov[m].status
          /\ tmov'[m].marca =
                IF m = s /\ jnl[s].tipo = "salida"
                THEN IF Rechazada(st) THEN "A" ELSE tmov[m].marca
                ELSE IF EsEntrada(s) /\ m = jnl[s].sal /\ Rechazada(st) /\ ~mensaje[p]
                THEN "no" ELSE tmov[m].marca
  <2>1. tmov \in [Regs -> Mov]
      BY DEF IInv, TypeOK
  <2>2. CASE jnl[s].tipo = "salida"
    <3>1. tmov' = [tmov EXCEPT ![s] = CDSsal_status_teso(@, st)]
        BY <2>2 DEF Tesoro, EsEntrada
    <3>2. \A m \in Regs : tmov'[m] = IF m = s THEN CDSsal_status_teso(tmov[s], st) ELSE tmov[m]
        BY <1>1, <2>1, <3>1
    <3>3. \A m \in Regs :
             /\ CDSsal_status_teso(tmov[m], st).status = st
             /\ CDSsal_status_teso(tmov[m], st).marca =
                    IF Rechazada(st) THEN "A" ELSE tmov[m].marca
        BY DEF CDSsal_status_teso
    <3> QED
        BY <1>1, <2>2, <3>2, <3>3 DEF EsEntrada
  <2>3. CASE EsEntrada(s) /\ Rechazada(st) /\ ~mensaje[p]
    <3>1. tmov' = [tmov EXCEPT ![jnl[s].sal] = CDSstatus_teso_mov(@)]
        BY <2>3 DEF Tesoro, EsEntrada
    <3>2. \A m \in Regs : tmov'[m] = IF m = jnl[s].sal THEN CDSstatus_teso_mov(tmov[m])
                                     ELSE tmov[m]
        BY <1>4, <2>1, <2>3, <3>1
    <3>3. \A m \in Regs : /\ CDSstatus_teso_mov(tmov[m]).status = tmov[m].status
                          /\ CDSstatus_teso_mov(tmov[m]).marca = "no"
        BY <2>1 DEF CDSstatus_teso_mov, Mov
    <3> QED
        BY <2>3, <3>2, <3>3 DEF EsEntrada
  <2>4. CASE jnl[s].tipo # "salida" /\ ~(EsEntrada(s) /\ Rechazada(st) /\ ~mensaje[p])
    <3>1. tmov' = tmov
        BY <2>4 DEF Tesoro
    <3> QED
        BY <2>4, <3>1
  <2> QED
      BY <2>2, <2>3, <2>4
<1>c. /\ Cardinality(Grabados) \in 0 .. MaxSeq /\ EnCuenta(p) = 1
      /\ pendientes[p] \in Int /\ pendientes[p] >= 1 - Cardinality(Grabados)
  <2>1. Grabados \in SUBSET Regs
      BY DEF Grabados
  <2> QED
      BY <1>1, <2>1, Finitos DEF IInv, TypeOK, Contados, EnCuenta
<1>6. TypeOK'
  <2>1. /\ pc' \in [Procesos -> {"libre", "primera", "lee", "decide", "graba", "reversa", "tesoro"}]
        /\ cur' \in [Procesos -> 0 .. MaxSeq] /\ mensaje' \in [Procesos -> BOOLEAN]
        /\ tran_status' \in [Procesos -> {SinRegistro, HOST_ACCEPTED, HOST_REJECTED, RCV_RESET}]
      BY DEF IInv, TypeOK, Tesoro
  <2>2. pendientes[p] - 1 \in -MaxSeq .. MaxSeq
      BY <1>c DEF IInv, TypeOK
  <2>3. pendientes' \in [Procesos -> -MaxSeq .. MaxSeq]
      BY <2>2 DEF IInv, TypeOK, Tesoro
  <2>4. tmov' \in [Regs -> Mov]
    <3>1. tmov \in [Regs -> Mov]
        BY DEF IInv, TypeOK
    <3>2. \A m \in Regs : /\ CDSsal_status_teso(tmov[m], st) \in Mov
                          /\ CDSstatus_teso_mov(tmov[m]) \in Mov
        BY <1>1, <3>1 DEF CDSsal_status_teso, CDSstatus_teso_mov, Mov
    <3>3. \/ tmov' = [tmov EXCEPT ![s] = CDSsal_status_teso(@, st)]
          \/ tmov' = [tmov EXCEPT ![jnl[s].sal] = CDSstatus_teso_mov(@)]
          \/ tmov' = tmov
        BY DEF Tesoro
    <3> QED
        BY <3>1, <3>2, <3>3
  <2> QED
      BY <1>3, <2>1, <2>3, <2>4 DEF IInv, TypeOK
<1>7. /\ \A q \in Procesos : q = p => ~EnMano(q)' /\ ~Escrito(q)' /\ ~Grabando(q)'
      /\ \A q \in Procesos : q # p => /\ EnMano(q)' <=> EnMano(q)
                                      /\ Escrito(q)' <=> Escrito(q)
                                      /\ Grabando(q)' <=> Grabando(q)
                                      /\ EnMano(q) => cur[q] # s
    BY <1>1, <1>2 DEF IInv, Candado, EnMano, Escrito, Grabando
<1>8. Candado'
    BY <1>2, <1>7 DEF IInv, Candado
<1>9. EnManos'
  <2>1. \A q \in Procesos : Seleccion(q)' = Seleccion(q)
      BY <1>3 DEF Seleccion
  <2> QED
      BY <1>2, <1>3, <1>7, <2>1 DEF IInv, EnManos
\* A movement already rejected stays so.
<1>10. \A m \in Regs : jnl[m].tipo = "salida" /\ Rechazada(tmov[m].status)
                          => Rechazada(tmov'[m].status)
    BY <1>1, <1>5, Codigos DEF IInv, Registros
<1>11. EntradasEnMano'
  <2>1. ASSUME NEW q \in Procesos, q # p, Grabando(q), EsEntrada(cur[q])
        PROVE  /\ jnl[cur[q]].sal # 0
               /\ IF mensaje[q] THEN Rechazada(tmov'[jnl[cur[q]].sal].status)
                  ELSE jnl[jnl[cur[q]].sal].st = HOST_ACCEPTED
    <3>1. cur[q] \in Regs
        BY <2>1 DEF IInv, EnManos, EnMano, Grabando
    <3>2. jnl[cur[q]].sal # 0 /\ jnl[cur[q]].sal \in Regs /\ jnl[jnl[cur[q]].sal].tipo = "salida"
        BY <2>1, <3>1, Campos DEF IInv, EntradasEnMano, Registros
    <3> QED
        BY <1>10, <2>1, <3>2 DEF IInv, EntradasEnMano
  <2> QED
      BY <1>2, <1>3, <1>7, <2>1 DEF EntradasEnMano, EsEntrada
<1>12. Registros'
    BY <1>1, <1>3, <1>5 DEF IInv, Registros, EsEntrada
<1>13. Aplicadas'
    BY <1>1, <1>2, <1>3 DEF IInv, Aplicadas
<1>14. EntradaTrasSalida'
    BY <1>3 DEF IInv, EntradaTrasSalida, EsEntrada
<1>15. Totales'
    BY <1>1, <1>2, <1>3 DEF IInv, Totales
<1>16. Movimientos'
  <2> SUFFICES ASSUME caidas = 0, NEW m \in Regs, jnl[m].tipo = "salida"
               PROVE  /\ \/ tmov'[m].status = jnl[m].st
                         \/ \E q \in Procesos : Escrito(q)' /\ cur'[q] = m
                      /\ \A e, f \in Tomadoras(m)' : e = f
                      /\ tmov'[m].marca = IF Rechazada(tmov'[m].status) THEN "A"
                                          ELSE IF Tomadoras(m)' = {} THEN "no" ELSE "I"
      BY <1>3 DEF Movimientos
  <2>1. /\ tmov[m].status = jnl[m].st \/ \E q \in Procesos : Escrito(q) /\ cur[q] = m
        /\ \A e, f \in Tomadoras(m) : e = f
        /\ tmov[m].marca = IF Rechazada(tmov[m].status) THEN "A"
                           ELSE IF Tomadoras(m) = {} THEN "no" ELSE "I"
      BY DEF IInv, Movimientos
  <2>2. \/ tmov'[m].status = jnl[m].st
        \/ \E q \in Procesos : Escrito(q)' /\ cur'[q] = m
    <3>1. CASE m = s
        BY <1>1, <1>5, <3>1
    <3>2. CASE m # s
      <4>1. tmov'[m].status = tmov[m].status
          BY <1>5, <3>2
      <4>2. \A q \in Procesos : Escrito(q) /\ cur[q] = m => Escrito(q)' /\ cur'[q] = m
          BY <1>2, <1>7, <3>2
      <4> QED
          BY <2>1, <4>1, <4>2
    <3> QED
        BY <3>1, <3>2
  <2>3. EntradasDe(m)' = EntradasDe(m) /\ EntradasDe(m) \subseteq Regs
      BY <1>3 DEF EntradasDe, EsEntrada
  <2>4. ASSUME NEW e \in Regs, e # s PROVE Retiene(e)' <=> Retiene(e)
    <3>1. \A q \in Procesos : Escrito(q)' /\ cur'[q] = e /\ ~mensaje'[q]
                                  <=> Escrito(q) /\ cur[q] = e /\ ~mensaje[q]
        BY <1>2, <1>7, <2>4
    <3> QED
        BY <1>3, <3>1 DEF Retiene
  <2>5. Retiene(s)' <=> ~Rechazada(st)
    <3>1. \A q \in Procesos : ~(Escrito(q)' /\ cur'[q] = s)
        BY <1>2, <1>7 DEF EnMano, Escrito
    <3> QED
        BY <1>1, <1>3, <3>1 DEF Retiene
  <2>6. Retiene(s) <=> ~Rechazada(st) \/ ~mensaje[p]
    <3>1. \A q \in Procesos : Escrito(q) /\ cur[q] = s => q = p
        BY <1>7 DEF EnMano, Escrito
    <3> QED
        BY <1>1, <3>1 DEF Retiene
  <2>7. Tomadoras(m)' \subseteq Tomadoras(m)
    <3>1. ASSUME NEW e \in EntradasDe(m), Retiene(e)' PROVE Retiene(e)
        BY <2>3, <2>4, <2>5, <2>6, <3>1
    <3> QED
        BY <2>3, <3>1 DEF Tomadoras
  <2>8. CASE EsEntrada(s) /\ jnl[s].sal = m /\ Rechazada(st) /\ ~mensaje[p]
    <3>1. s \in Tomadoras(m) /\ s \notin Tomadoras(m)'
        BY <1>1, <2>5, <2>6, <2>8 DEF Tomadoras, EntradasDe
    <3>2. Tomadoras(m)' = {}
        BY <2>1, <2>7, <3>1
    <3>3. tmov'[m].marca = "no" /\ tmov'[m].status = tmov[m].status
        BY <1>5, <2>8 DEF EsEntrada
    <3>4. ~Rechazada(tmov[m].status)
      <4>1. jnl[m].st = HOST_ACCEPTED /\ tmov[m].status \in {UNPOSTED, jnl[m].st}
          BY <1>4, <2>8 DEF IInv, Registros
      <4> QED
          BY <4>1, Codigos
    <3> QED
        BY <2>2, <3>2, <3>3, <3>4
  <2>9. CASE ~(EsEntrada(s) /\ jnl[s].sal = m /\ Rechazada(st) /\ ~mensaje[p])
    <3>1. Tomadoras(m)' = Tomadoras(m)
      <4>1. ASSUME NEW e \in EntradasDe(m) PROVE Retiene(e)' <=> Retiene(e)
        <5>1. CASE e # s
            BY <2>3, <2>4, <5>1
        <5>2. CASE e = s
          <6>1. EsEntrada(s) /\ jnl[s].sal = m
              BY <5>2 DEF EntradasDe
          <6> QED
              BY <2>5, <2>6, <2>9, <5>2, <6>1
        <5> QED
            BY <5>1, <5>2
      <4> QED
          BY <2>3, <4>1 DEF Tomadoras
    <3>2. CASE m = s
      <4>1. /\ tmov'[m].status = st
            /\ tmov'[m].marca = IF Rechazada(st) THEN "A" ELSE tmov[m].marca
            /\ tmov[m].status \in {UNPOSTED, st}
          BY <1>1, <1>5, <3>2 DEF IInv, Registros
      <4>2. ~Rechazada(st) => ~Rechazada(tmov[m].status)
          BY <4>1, Codigos
      <4> QED
          BY <2>1, <2>2, <3>1, <4>1, <4>2
    <3>3. CASE m # s
      <4>1. tmov'[m].status = tmov[m].status /\ tmov'[m].marca = tmov[m].marca
          BY <1>5, <2>9, <3>3
      <4> QED
          BY <2>1, <2>2, <3>1, <4>1
    <3> QED
        BY <3>2, <3>3
  <2> QED
      BY <2>8, <2>9
<1>17. Contados'
  <2>1. Grabados' = Grabados /\ \A q \in Procesos : Seleccion(q)' = Seleccion(q)
      BY <1>3 DEF Grabados, Seleccion
  <2>2. /\ EnCuenta(p)' = 0
        /\ \A q \in Procesos : q # p => EnCuenta(q)' = EnCuenta(q)
      BY <1>7 DEF EnCuenta
  <2>3. Seleccion(p) \in SUBSET Regs
      BY DEF Seleccion
  <2>4. Cardinality(Seleccion(p)) \in Nat
      BY <2>3, Finitos
  <2> QED
      BY <1>1, <1>2, <1>c, <2>1, <2>2, <2>4 DEF IInv, Contados
<1> QED
    BY <1>6, <1>8, <1>9, <1>11, <1>12, <1>13, <1>14, <1>15, <1>16, <1>17 DEF IInv

\* A new record of the day, with what its kind does to the treasury and the host.
LEMMA PasoAlta ==
    ASSUME IInv, NEW c \in Cajeros, NEW s \in Regs, NEW tipo \in Tipo, NEW sal \in 0 .. MaxSeq,
           NEW st \in {UNPOSTED, HOST_ACCEPTED}, Alta(c, s, tipo, sal, st),
           tmov' \in [Regs -> Mov], host' \in [Regs -> Nat],
           \A t \in Regs : host'[t] = IF t = s THEN host'[s] ELSE host[t],
           host'[s] \in {0, 1}, host'[s] = 1 => tipo = "salida" /\ st = HOST_ACCEPTED,
           \A m \in Regs :
               /\ tmov'[m].status = IF m = s /\ tipo = "salida" THEN st ELSE tmov[m].status
               /\ tmov'[m].marca = IF m = s /\ tipo = "salida" THEN "no"
                                   ELSE IF m = sal /\ tipo = "entrada" THEN "I"
                                   ELSE tmov[m].marca,
           tipo = "entrada" /\ sal # 0 =>
               /\ jnl[sal].tipo = "salida" /\ tmov[sal].status \in {UNPOSTED, HOST_ACCEPTED}
               /\ tmov[sal].marca = "no"
    PROVE  IInv'
<1>1. /\ jnl[s].st = SinRegistro /\ jnl[s].tipo = "tran" /\ host[s] = 0
      /\ c \in Procesos => pc[c] = "libre"
    BY DEF Alta, IInv, Registros
<1>2. \A t \in Regs :
          /\ t # s => jnl'[t] = jnl[t] /\ tots'[t] = tots[t]
          /\ t = s => /\ jnl'[t].st = st /\ jnl'[t].tipo = tipo /\ jnl'[t].de = c
                      /\ jnl'[t].sal = sal /\ tots'[t] = 1
    BY DEF Alta, IInv, TypeOK
<1>3. /\ pc' = pc /\ cur' = cur /\ tran_status' = tran_status /\ mensaje' = mensaje
      /\ ent_sal_1' = ent_sal_1 /\ pendientes' = pendientes /\ reentry_reset' = reentry_reset
      /\ line' = line /\ caidas' = caidas /\ cortes' = cortes /\ ajenos' = ajenos
    BY DEF Alta, estacion
<1>4. TypeOK'
  <2>1. jnl' \in [Regs -> RegJnl] /\ tots' \in [Regs -> 0 .. 1]
      BY DEF Alta, IInv, TypeOK, RegJnl
  <2> QED
      BY <1>3, <2>1 DEF IInv, TypeOK
<1>5. st # SinRegistro /\ ~Rechazada(st)
    BY Codigos
\* The new record is in nobody's hands, and nothing comes from it yet.
<1>6. \A q \in Procesos : EnMano(q) => cur[q] \in Regs /\ cur[q] # s
    BY <1>1, Codigos DEF IInv, EnManos, EnMano, Grabando, Escrito, Seleccion
<1>7. \A t \in Regs : EsEntrada(t) /\ jnl[t].sal # 0 =>
          jnl[t].sal \in Regs /\ jnl[t].sal # s /\ jnl[jnl[t].sal].tipo = "salida"
    BY <1>1, Campos DEF IInv, Registros
<1>8. Candado'
    BY <1>3 DEF IInv, Candado, EnMano
<1>9. EnManos'
  <2>1. \A q \in Procesos : /\ EnMano(q)' <=> EnMano(q)
                            /\ Escrito(q)' <=> Escrito(q)
                            /\ Grabando(q)' <=> Grabando(q)
      BY <1>3 DEF EnMano, Escrito, Grabando
  <2>2. \A q \in Procesos : EnMano(q) => /\ jnl'[cur[q]] = jnl[cur[q]]
                                         /\ tots'[cur[q]] = tots[cur[q]]
      BY <1>2, <1>6
  <2>3. \A q \in Procesos : EnMano(q) /\ cur[q] \in Seleccion(q) => cur[q] \in Seleccion(q)'
      BY <1>3, <2>2 DEF Seleccion
  <2> QED
      BY <1>3, <1>6, <2>1, <2>2, <2>3 DEF IInv, EnManos, EnMano, Escrito
<1>10. EntradasEnMano'
  <2>1. ASSUME NEW q \in Procesos, Grabando(q), EsEntrada(cur[q])'
        PROVE  /\ jnl'[cur[q]].sal # 0
               /\ IF mensaje[q] THEN Rechazada(tmov'[jnl'[cur[q]].sal].status)
                  ELSE jnl'[jnl'[cur[q]].sal].st = HOST_ACCEPTED
    <3>1. cur[q] \in Regs /\ jnl'[cur[q]] = jnl[cur[q]] /\ EsEntrada(cur[q])
        BY <1>2, <1>3, <1>6, <2>1 DEF EnMano, Grabando, EsEntrada
    <3>2. /\ jnl[cur[q]].sal # 0
          /\ IF mensaje[q] THEN Rechazada(tmov[jnl[cur[q]].sal].status)
             ELSE jnl[jnl[cur[q]].sal].st = HOST_ACCEPTED
        BY <2>1, <3>1 DEF IInv, EntradasEnMano
    <3>3. jnl[cur[q]].sal \in Regs /\ jnl[cur[q]].sal # s
        BY <1>7, <3>1, <3>2
    <3> QED
        BY <1>2, <3>1, <3>2, <3>3
  <2> QED
      BY <1>3, <2>1 DEF EntradasEnMano, Grabando
<1>11. Registros'
  <2>1. ASSUME NEW t \in Regs
        PROVE  /\ jnl'[t].st = SinRegistro => jnl'[t].tipo = "tran" /\ host'[t] = 0
               /\ jnl'[t].tipo = "salida" => tmov'[t].status \in {UNPOSTED, jnl'[t].st}
               /\ jnl'[t].tipo = "entrada" /\ jnl'[t].sal # 0 => jnl'[jnl'[t].sal].tipo = "salida"
               /\ jnl'[t].st \in {UNPOSTED, HOST_ACCEPTED} => tots'[t] = 1
    <3>1. CASE t = s
      <4>1. tipo = "entrada" /\ sal # 0 => sal \in Regs /\ sal # s /\ jnl[sal].tipo = "salida"
          BY <1>1 DEF Regs
      <4> QED
          BY <1>2, <1>5, <3>1, <4>1
    <3>2. CASE t # s
      <4>1. jnl'[t] = jnl[t] /\ tots'[t] = tots[t] /\ host'[t] = host[t]
            /\ tmov'[t].status = tmov[t].status
          BY <1>2, <3>2
      <4>2. jnl[t].tipo = "entrada" /\ jnl[t].sal # 0 => jnl'[jnl[t].sal].tipo = "salida"
          BY <1>2, <1>7 DEF EsEntrada
      <4> QED
          BY <4>1, <4>2 DEF IInv, Registros
    <3> QED
        BY <3>1, <3>2
  <2> QED
      BY <2>1 DEF Registros, EsEntrada
<1>12. Aplicadas'
  <2>1. caidas \in Nat /\ \A t \in Regs : host'[t] \in Nat
      BY DEF IInv, TypeOK
  <2>2. st = UNPOSTED => host'[s] = 0
      BY Codigos
  <2> QED
      BY <1>2, <1>3, <2>1, <2>2 DEF IInv, Aplicadas
<1>13. EntradaTrasSalida'
  <2>1. ASSUME NEW t \in Regs, jnl'[t].tipo = "entrada", jnl'[t].sal # 0, host'[t] > 0
        PROVE  jnl'[jnl'[t].sal].st = HOST_ACCEPTED
    <3>1. t # s
        BY <1>2, <2>1
    <3>2. jnl'[t] = jnl[t] /\ host'[t] = host[t] /\ EsEntrada(t)
        BY <1>2, <2>1, <3>1 DEF EsEntrada
    <3>3. jnl[jnl[t].sal].st = HOST_ACCEPTED /\ jnl'[jnl[t].sal] = jnl[jnl[t].sal]
        BY <1>2, <1>7, <2>1, <3>2 DEF IInv, EntradaTrasSalida
    <3> QED
        BY <3>2, <3>3
  <2> QED
      BY <2>1 DEF EntradaTrasSalida, EsEntrada
<1>14. Totales'
    BY <1>2, <1>3, <1>5 DEF IInv, Totales
<1>15. Movimientos'
  <2>1. \A e \in Regs : Retiene(e)' <=> (e = s \/ Retiene(e))
    <3>1. ASSUME NEW e \in Regs, e = s PROVE Retiene(e)'
        BY <1>2, <1>5, <3>1 DEF Retiene
    <3>2. ASSUME NEW e \in Regs, e # s PROVE Retiene(e)' <=> Retiene(e)
      <4>1. jnl'[e] = jnl[e]
          BY <1>2, <3>2
      <4> QED
          BY <1>3, <4>1 DEF Retiene, Escrito
    <3> QED
        BY <3>1, <3>2
  <2> SUFFICES ASSUME caidas = 0, NEW m \in Regs, jnl'[m].tipo = "salida"
               PROVE  /\ \/ tmov'[m].status = jnl'[m].st
                         \/ \E q \in Procesos : Escrito(q) /\ cur[q] = m
                      /\ \A e, f \in Tomadoras(m)' : e = f
                      /\ tmov'[m].marca = IF Rechazada(tmov'[m].status) THEN "A"
                                          ELSE IF Tomadoras(m)' = {} THEN "no" ELSE "I"
      BY <1>3 DEF Movimientos, Escrito
  <2>2. \A e \in Regs : EsEntrada(e)' <=> IF e = s THEN tipo = "entrada" ELSE EsEntrada(e)
      BY <1>2 DEF EsEntrada
  <2>3. \A e \in Regs : e # s => jnl'[e].sal = jnl[e].sal
      BY <1>2
  <2>4. ~EsEntrada(s) /\ m # 0 /\ m \in Regs
      BY <1>1 DEF EsEntrada, Regs
  <2>5. CASE tipo = "entrada" /\ m = sal
    <3>1. jnl[m].tipo = "salida" /\ m # s /\ tmov[m].marca = "no"
          /\ tmov[m].status \in {UNPOSTED, HOST_ACCEPTED}
        BY <1>1, <2>4, <2>5
    <3>2. ~Rechazada(tmov[m].status)
        BY <3>1, Codigos
    <3>3. Tomadoras(m) = {}
        BY <3>1, <3>2 DEF IInv, Movimientos
    <3>4. Tomadoras(m)' = {s}
      <4>1. ASSUME NEW e \in Tomadoras(m)' PROVE e = s
          BY <2>1, <2>2, <2>3, <3>3, <4>1 DEF Tomadoras, EntradasDe
      <4>2. s \in Tomadoras(m)'
          BY <1>2, <2>1, <2>2, <2>5 DEF Tomadoras, EntradasDe
      <4> QED
          BY <4>1, <4>2
    <3>5. /\ tmov'[m].marca = "I" /\ tmov'[m].status = tmov[m].status
          /\ jnl'[m].st = jnl[m].st
        BY <1>2, <2>5, <3>1
    <3>6. tmov[m].status = jnl[m].st \/ \E q \in Procesos : Escrito(q) /\ cur[q] = m
        BY <3>1 DEF IInv, Movimientos
    <3> QED
        BY <3>2, <3>4, <3>5, <3>6
  <2>6. CASE ~(tipo = "entrada" /\ m = sal)
    <3>1. Tomadoras(m)' = Tomadoras(m)
      <4>1. \A e \in Regs : (EsEntrada(e)' /\ jnl'[e].sal = m /\ Retiene(e)')
                                <=> (EsEntrada(e) /\ jnl[e].sal = m /\ Retiene(e))
          BY <1>2, <2>1, <2>2, <2>3, <2>4, <2>6
      <4> QED
          BY <4>1 DEF Tomadoras, EntradasDe
    <3>2. CASE m = s
      <4>1. Tomadoras(m) = {}
          BY <1>7, <2>4, <3>2 DEF Tomadoras, EntradasDe
      <4>2. tmov'[m].status = st /\ tmov'[m].marca = "no" /\ jnl'[m].st = st
          BY <1>2, <3>2
      <4> QED
          BY <1>5, <3>1, <4>1, <4>2
    <3>3. CASE m # s
      <4>1. jnl'[m] = jnl[m] /\ tmov'[m].status = tmov[m].status /\ tmov'[m].marca = tmov[m].marca
          BY <1>2, <2>6, <3>3
      <4> QED
          BY <3>1, <4>1 DEF IInv, Movimientos
    <3> QED
        BY <3>2, <3>3
  <2> QED
      BY <2>5, <2>6
<1>16. Contados'
  <2>1. Grabados \in SUBSET Grabados' /\ Grabados' \in SUBSET Regs
      BY <1>1, <1>2 DEF Grabados
  <2>2. /\ Cardinality(Grabados) \in Nat /\ Cardinality(Grabados') \in Nat
        /\ Cardinality(Grabados) <= Cardinality(Grabados')
    <3>1. IsFiniteSet(Grabados')
        BY <2>1, Finitos
    <3> QED
        BY <2>1, <3>1, FS_Subset, FS_CardinalityType
  <2>3. \A q \in Procesos : q # Sup /\ pc[q] # "libre" => Seleccion(q)' = Seleccion(q)
    <3> TAKE q \in Procesos
    <3> HAVE q # Sup /\ pc[q] # "libre"
    <3>1. q # c
        BY <1>1
    <3>2. \A t \in Regs : (jnl'[t].st = UNPOSTED /\ jnl'[t].de = q)
                              <=> (jnl[t].st = UNPOSTED /\ jnl[t].de = q)
        BY <1>1, <1>2, <3>1, Codigos
    <3> QED
        BY <3>2 DEF Seleccion
  <2>4. \A q \in Procesos : EnCuenta(q)' = EnCuenta(q) /\ EnCuenta(q) \in {0, 1}
      BY <1>3 DEF EnCuenta, Escrito
  <2>5. pendientes \in [Procesos -> Int]
      BY DEF IInv, TypeOK
  <2> QED
      BY <1>3, <2>2, <2>3, <2>4, <2>5 DEF IInv, Contados
<1> QED
    BY <1>4, <1>8, <1>9, <1>10, <1>11, <1>12, <1>13, <1>14, <1>15, <1>16 DEF IInv

\* The line and the request to stop touch nothing of it.
LEMMA PasoQuieto ==
    ASSUME IInv, TypeOK',
           UNCHANGED <<tablas, pc, cur, tran_status, mensaje, pendientes, host, caidas, ajenos>>
    PROVE  IInv'
<1>1. /\ jnl' = jnl /\ tmov' = tmov /\ tots' = tots /\ host' = host /\ ajenos' = ajenos
      /\ caidas' = caidas /\ tran_status' = tran_status /\ mensaje' = mensaje
      /\ pc' = pc /\ cur' = cur /\ pendientes' = pendientes
    BY DEF tablas
<1>2. Candado' /\ EnManos' /\ EntradasEnMano' /\ Registros'
    BY <1>1 DEF IInv, Candado, EnManos, EntradasEnMano, Registros, EnMano, Grabando, Escrito,
                Seleccion, EsEntrada
<1>3. Aplicadas' /\ EntradaTrasSalida' /\ Totales'
    BY <1>1 DEF IInv, Aplicadas, EntradaTrasSalida, Totales, EsEntrada
<1>4. Movimientos'
  <2>1. \A m \in Regs : Tomadoras(m)' = Tomadoras(m)
      BY <1>1 DEF Tomadoras, EntradasDe, EsEntrada, Retiene, Escrito
  <2> QED
      BY <1>1, <2>1 DEF IInv, Movimientos, Escrito
<1>5. Contados'
    BY <1>1 DEF IInv, Contados, Grabados, EnCuenta, Escrito, Seleccion
<1> QED
    BY <1>2, <1>3, <1>4, <1>5 DEF IInv

-----------------------------------------------------------------------------
(* The actions.                                                            *)

\* The tables as they are before the first transaction.
LEMMA ReenvioInicial == Init => IInv
<1> SUFFICES ASSUME Init PROVE IInv
    OBVIOUS
<1>1. (CHOOSE c \in Cajeros : TRUE) \in Cajeros
    OBVIOUS
<1>2. TypeOK
  <2>1. jnl \in [Regs -> RegJnl] /\ tmov \in [Regs -> Mov]
    <3>1. 0 \in 0 .. MaxSeq /\ "tran" \in Tipo
        BY DEF Tipo
    <3> QED
        BY <1>1, <3>1 DEF Init, RegJnl, Mov
  <2>2. tots \in [Regs -> 0 .. 1] /\ host \in [Regs -> Nat]
      BY DEF Init
  <2>3. /\ pc \in [Procesos -> {"libre", "primera", "lee", "decide", "graba", "reversa", "tesoro"}]
        /\ cur \in [Procesos -> 0 .. MaxSeq] /\ mensaje \in [Procesos -> BOOLEAN]
        /\ tran_status \in [Procesos -> {SinRegistro, HOST_ACCEPTED, HOST_REJECTED, RCV_RESET}]
        /\ ent_sal_1 \in [Procesos -> Nat] /\ pendientes \in [Procesos -> -MaxSeq .. MaxSeq]
        /\ reentry_reset \in [Procesos -> BOOLEAN]
      BY DEF Init
  <2>4. line = FALSE /\ caidas = 0 /\ cortes = 0 /\ ajenos = {}
      BY DEF Init
  <2>5. line \in BOOLEAN /\ ajenos \subseteq Regs
      BY <2>4
  <2>6. caidas \in 0 .. MaxCaidas /\ cortes \in 0 .. MaxCortes
      BY <2>4
  <2> QED
      BY <2>1, <2>2, <2>3, <2>5, <2>6 DEF TypeOK
<1>3. /\ \A s \in Regs : jnl[s].st = SinRegistro /\ jnl[s].tipo = "tran" /\ host[s] = 0
      /\ \A p \in Procesos : pc[p] = "libre" /\ pendientes[p] = 0
      /\ caidas = 0
    BY DEF Init
<1>4. Candado /\ EnManos /\ EntradasEnMano
    BY <1>3 DEF Candado, EnManos, EntradasEnMano, EnMano, Grabando, Escrito
<1>5. Registros /\ Aplicadas /\ EntradaTrasSalida /\ Totales /\ Movimientos
    BY <1>3, Codigos DEF Registros, Aplicadas, EntradaTrasSalida, Totales, Movimientos, EsEntrada
<1>6. Contados
  <2>1. Grabados \in SUBSET Regs
      BY DEF Grabados
  <2>2. Cardinality(Grabados) \in Nat
      BY <2>1, Finitos
  <2> QED
      BY <1>3, <2>2 DEF Contados, EnCuenta, Escrito
<1> QED
    BY <1>2, <1>4, <1>5, <1>6 DEF IInv

\* The reading of the next record, after a skip or a whole record.
LEMMA PasoLee ==
    ASSUME IInv, NEW p \in Procesos,
           TRANreentry(p) \/ Primera(p) \/ Completa(p) \/ LeerProximo(p) \/ Abandona(p)
               \/ Saltea(p) \/ SinLinea(p) \/ Cae(p)
    PROVE  IInv'
<1>1. Seleccion(p) \in SUBSET Regs
    BY DEF Seleccion
<1>2. CASE TRANreentry(p)
    BY <1>2, PasoSinMano DEF TRANreentry, IInv, TypeOK
<1>3. CASE Primera(p)
  <2>1. CASE Seleccion(p) = {} \/ Bloqueado(p, Primero(Seleccion(p)))
      BY <1>3, <2>1, PasoFin DEF Primera, Grabando
  <2>2. CASE ~(Seleccion(p) = {} \/ Bloqueado(p, Primero(Seleccion(p))))
    <3>1. Primero(Seleccion(p)) \in Seleccion(p)
        BY <1>1, <2>2, PrimeroEsta
    <3> QED
        BY <1>3, <2>2, <3>1, PasoToma DEF Primera, Toma, IInv, TypeOK
  <2> QED
      BY <2>1, <2>2
<1>4. CASE Completa(p)
    BY <1>4, PasoFin DEF Completa, Grabando
<1>5. CASE LeerProximo(p)
  <2>1. CASE Bloqueado(p, Primero(Seleccion(p)))
      BY <1>5, <2>1, PasoFin DEF LeerProximo, Grabando
  <2>2. CASE ~Bloqueado(p, Primero(Seleccion(p)))
    <3>1. Primero(Seleccion(p)) \in Seleccion(p)
        BY <1>1, <1>5, PrimeroEsta DEF LeerProximo
    <3> QED
        BY <1>5, <2>2, <3>1, PasoToma DEF LeerProximo, Toma, IInv, TypeOK
  <2> QED
      BY <2>1, <2>2
<1>6. CASE Abandona(p)
    BY <1>6, PasoFin DEF Abandona, Grabando
<1>7. CASE Saltea(p)
  <2> DEFINE S == {t \in Seleccion(p) : t > cur[p]}
  <2>1. /\ ent_sal_1' \in [Procesos -> Nat] /\ pendientes' = pendientes /\ pc[p] = "decide"
        /\ UNCHANGED <<tablas, tran_status, mensaje, pendientes, reentry_reset,
                       line, host, caidas, cortes, ajenos>>
      BY <1>7 DEF Saltea, Salteada, TrasSaltear, IInv, TypeOK
  <2>2. CASE S # {} /\ ~Bloqueado(p, Primero(S))
    <3>1. Primero(S) \in Seleccion(p)
      <4>1. Primero(S) \in S
          BY <1>1, <2>2, PrimeroEsta
      <4> QED
          BY <4>1
    <3>2. cur' = [cur EXCEPT ![p] = Primero(S)] /\ pc' = pc
        BY <1>7, <2>2 DEF Saltea
    <3>3. pc' = [pc EXCEPT ![p] = "decide"]
        BY <2>1, <3>2 DEF IInv, TypeOK
    <3> QED
        BY <2>1, <2>2, <3>1, <3>2, <3>3, PasoToma
  <2>3. CASE ~(S # {} /\ ~Bloqueado(p, Primero(S)))
    <3>1. pc' = [pc EXCEPT ![p] = "lee"] /\ cur' = [cur EXCEPT ![p] = 0]
        BY <1>7, <2>3 DEF Saltea
    <3> QED
        BY <2>1, <3>1, PasoSinMano
  <2> QED
      BY <2>2, <2>3
<1>8. CASE SinLinea(p)
    BY <1>8, PasoFin DEF SinLinea, SeEnvia, Grabando
<1>9. CASE Cae(p)
    BY <1>9, PasoFin DEF Cae
<1> QED
    BY <1>2, <1>3, <1>4, <1>5, <1>6, <1>7, <1>8, <1>9

\* What is sent has its exit accepted, if it has one.
LEMMA PasoEnvia ==
    ASSUME IInv, NEW p \in Procesos, RechazaEntrada(p) \/ COMM_host_tran(p)
    PROVE  IInv'
<1>1. pc[p] = "decide" /\ cur[p] \in Regs
    BY DEF RechazaEntrada, COMM_host_tran, SeEnvia, IInv, EnManos, EnMano
<1>2. CASE RechazaEntrada(p)
  <2>1. host' = [host EXCEPT ![cur[p]] = @ + 0]
      BY <1>1, <1>2 DEF RechazaEntrada, IInv, TypeOK
  <2> QED
      BY <1>1, <1>2, <2>1, PasoRespuesta DEF RechazaEntrada, Salida
<1>3. CASE COMM_host_tran(p)
  <2>1. EsEntrada(cur[p]) => jnl[cur[p]].sal # 0 /\ jnl[jnl[cur[p]].sal].st = HOST_ACCEPTED
    <3> SUFFICES ASSUME EsEntrada(cur[p])
                 PROVE  jnl[cur[p]].sal # 0 /\ jnl[jnl[cur[p]].sal].st = HOST_ACCEPTED
        OBVIOUS
    <3> DEFINE m == jnl[cur[p]].sal
    <3>1. m # 0 /\ tmov[m].status # UNPOSTED /\ ~Rechazada(tmov[m].status)
        BY <1>3 DEF COMM_host_tran, SeEnvia, SinSalida, Salida
    <3>2. m \in Regs /\ jnl[m].tipo = "salida"
        BY <1>1, <3>1, Campos DEF IInv, Registros
    <3>3. jnl[m].st = tmov[m].status /\ jnl[m].st # SinRegistro
        BY <3>1, <3>2 DEF IInv, Registros
    <3>4. jnl[m].st \in {SinRegistro, UNPOSTED, HOST_ACCEPTED, HOST_REJECTED, RCV_RESET}
        BY <3>2, Campos DEF IInv, RegJnl
    <3> QED
        BY <3>1, <3>3, <3>4, Codigos
  <2>2. PICK r \in {<<HOST_ACCEPTED, 1>>, <<HOST_REJECTED, 0>>, <<RCV_RESET, 0>>, <<RCV_RESET, 1>>} :
            PorGrabar(p, r[1], FALSE) /\ host' = [host EXCEPT ![cur[p]] = @ + r[2]]
      BY <1>3 DEF COMM_host_tran
  <2>3. r[1] \in {HOST_ACCEPTED, HOST_REJECTED, RCV_RESET} /\ r[2] \in {0, 1}
      BY <2>2
  <2> QED
      BY <1>1, <2>1, <2>2, <2>3, PasoRespuesta
<1> QED
    BY <1>2, <1>3

\* The new records of the day.
LEMMA PasoAltas ==
    ASSUME IInv, NEW c \in Cajeros, NEW s \in Regs,
           AltaTran(c, s) \/ AltaSalida(c, s) \/ AltaEntrada(c, s) \/ AltaSinMov(c, s)
    PROVE  IInv'
<1>1. /\ tmov \in [Regs -> Mov] /\ host \in [Regs -> Nat]
      /\ 0 \in 0 .. MaxSeq /\ 0 \notin Regs
      /\ "tran" \in Tipo /\ "salida" \in Tipo /\ "entrada" \in Tipo
    BY DEF IInv, TypeOK, Tipo, Regs
<1>2. CASE AltaTran(c, s)
  <2>1. Alta(c, s, "tran", 0, UNPOSTED) /\ tmov' = tmov /\ host' = host
      BY <1>2 DEF AltaTran
  <2>2. host'[s] = 0
      BY <2>1 DEF Alta, IInv, Registros
  <2> QED
      BY <1>1, <2>1, <2>2, PasoAlta
<1>3. CASE AltaSalida(c, s)
  <2> DEFINE st == IF line THEN HOST_ACCEPTED ELSE UNPOSTED
  <2>1. /\ Alta(c, s, "salida", 0, st) /\ st \in {UNPOSTED, HOST_ACCEPTED}
        /\ tmov' = [tmov EXCEPT ![s] = [status |-> st, marca |-> "no"]]
        /\ host' = [host EXCEPT ![s] = IF line THEN 1 ELSE 0]
      BY <1>3 DEF AltaSalida
  <2>2. /\ tmov' \in [Regs -> Mov] /\ host' \in [Regs -> Nat]
        /\ \A t \in Regs : host'[t] = IF t = s THEN host'[s] ELSE host[t]
        /\ host'[s] \in {0, 1} /\ (host'[s] = 1 => st = HOST_ACCEPTED)
      BY <1>1, <2>1 DEF Mov
  <2>3. \A m \in Regs :
            /\ tmov'[m].status = IF m = s THEN st ELSE tmov[m].status
            /\ tmov'[m].marca = IF m = s THEN "no" ELSE tmov[m].marca
      BY <1>1, <2>1
  <2> HIDE DEF st
  <2> QED
      BY <1>1, <2>1, <2>2, <2>3, PasoAlta
<1>4. CASE AltaEntrada(c, s)
  <2>1. PICK m \in Regs : /\ PuedeEntrar(c, m) /\ Alta(c, s, "entrada", m, UNPOSTED)
                          /\ tmov' = [tmov EXCEPT ![m].marca = "I"]
      BY <1>4 DEF AltaEntrada
  <2>2. host' = host
      BY <1>4 DEF AltaEntrada
  <2>3. /\ tmov' \in [Regs -> Mov]
        /\ \A t \in Regs : /\ tmov'[t].status = tmov[t].status
                           /\ tmov'[t].marca = IF t = m THEN "I" ELSE tmov[t].marca
      BY <1>1, <2>1 DEF Mov
  <2>4. /\ host'[s] = 0 /\ m \in 0 .. MaxSeq
        /\ jnl[m].tipo = "salida" /\ tmov[m].status \in {UNPOSTED, HOST_ACCEPTED}
        /\ tmov[m].marca = "no"
      BY <2>1, <2>2 DEF Alta, IInv, Registros, PuedeEntrar, Regs
  <2> QED
      BY <1>1, <2>1, <2>2, <2>3, <2>4, PasoAlta
<1>5. CASE AltaSinMov(c, s)
  <2>1. Alta(c, s, "entrada", 0, UNPOSTED) /\ tmov' = tmov /\ host' = host
      BY <1>5 DEF AltaSinMov
  <2>2. host'[s] = 0
      BY <2>1 DEF Alta, IInv, Registros
  <2> QED
      BY <1>1, <2>1, <2>2, PasoAlta
<1> QED
    BY <1>2, <1>3, <1>4, <1>5

\* One lemma per kind of step, put together.
LEMMA ReenvioPaso == IInv /\ [Next]_vars => IInv'
<1> SUFFICES ASSUME IInv, [Next]_vars PROVE IInv'
    OBVIOUS
<1>1. ASSUME NEW c \in Cajeros, NEW s \in Regs,
             AltaTran(c, s) \/ AltaSalida(c, s) \/ AltaEntrada(c, s) \/ AltaSinMov(c, s)
      PROVE  IInv'
    BY <1>1, PasoAltas
<1>2. CASE CambiaLinea
  <2>1. TypeOK'
      BY <1>2 DEF IInv, TypeOK, CambiaLinea, tablas, estacion
  <2> QED
      BY <1>2, <2>1, PasoQuieto DEF CambiaLinea, estacion
<1>3. ASSUME NEW p \in Procesos, TRANreentry(p) \/ Paso(p) \/ RENtran_reset(p) \/ Cae(p)
      PROVE  IInv'
  <2>1. CASE RENtran_reset(p)
    <3>1. TypeOK'
        BY <2>1 DEF IInv, TypeOK, RENtran_reset, tablas
    <3> QED
        BY <2>1, <3>1, PasoQuieto DEF RENtran_reset
  <2> QED
      BY <1>3, <2>1, PasoLee, PasoEnvia, PasoDiario, PasoReversa, PasoTesoro DEF Paso
<1>4. CASE UNCHANGED vars
  <2>1. TypeOK'
      BY <1>4 DEF IInv, TypeOK, vars, tablas, estacion
  <2> QED
      BY <1>4, <2>1, PasoQuieto DEF vars, estacion
<1> QED
    BY <1>1, <1>2, <1>3, <1>4 DEF Next

-----------------------------------------------------------------------------
\* Who holds each record, and what the tables may lack of it, in every state.
THEOREM ReenvioSiempre == Spec => []IInv
<1> QED
    BY ReenvioInicial, ReenvioPaso, PTL DEF Spec

\* No transaction is applied by the host more than once, but for one per crash of a
\* station between the answer and the journal (JNLreentry_sel, JNLreentry_upd).
THEOREM UnaVezSiempre == Spec => []UnaVez
<1>1. IInv => UnaVez
    BY DEF IInv, Aplicadas, UnaVez
<1> QED
    BY <1>1, ReenvioSiempre, PTL

\* The host has an entry of cash only after it accepted the exit it came from,
\* whoever sends each and in whatever order (CDSent_status_teso).
THEOREM EntradaTrasSalidaSiempre == Spec => []EntradaTrasSalida
<1>1. IInv => EntradaTrasSalida
    BY DEF IInv
<1> QED
    BY <1>1, ReenvioSiempre, PTL

\* Journal, totals and treasury agree on every record no reentry is at, as long as
\* no station crashed in one (JNLreentry_upd, CDSsal_status_teso, CDSstatus_teso_mov).
THEOREM ReenvioInvSiempre == Spec => []ReenvioInv
<1>1. IInv => TotalesConcuerdan
  <2> SUFFICES ASSUME IInv, caidas = 0, NEW s \in Regs \ ajenos,
                      jnl[s].st # SinRegistro, ~EnCurso(s)
               PROVE  tots[s] = IF Rechazada(jnl[s].st) THEN 0 ELSE 1
      BY DEF TotalesConcuerdan
  <2>1. CASE Rechazada(jnl[s].st)
      BY <2>1 DEF IInv, Totales, EnCurso
  <2>2. CASE ~Rechazada(jnl[s].st)
    <3>1. jnl[s].st \in {UNPOSTED, HOST_ACCEPTED}
        BY <2>2, Campos, Codigos DEF IInv, RegJnl
    <3> QED
        BY <2>2, <3>1 DEF IInv, Registros
  <2> QED
      BY <2>1, <2>2
<1>2. IInv => MovimientoConcuerda
  <2> SUFFICES ASSUME IInv, caidas = 0, NEW m \in Regs,
                      jnl[m].tipo = "salida", jnl[m].st # SinRegistro,
                      ~EnCurso(m), \A e \in EntradasDe(m) : ~EnCurso(e)
               PROVE  LET vivas == {e \in EntradasDe(m) : ~Rechazada(jnl[e].st)}
                      IN /\ tmov[m].status = jnl[m].st
                         /\ Cardinality(vivas) <= 1
                         /\ IF Rechazada(jnl[m].st) THEN tmov[m].marca = "A"
                            ELSE tmov[m].marca = IF vivas = {} THEN "no" ELSE "I"
      BY DEF MovimientoConcuerda
  <2> DEFINE vivas == {e \in EntradasDe(m) : ~Rechazada(jnl[e].st)}
  <2>1. tmov[m].status = jnl[m].st
      BY DEF IInv, Movimientos, EnCurso, Escrito
  <2>2. Tomadoras(m) = vivas
      BY DEF Tomadoras, Retiene, EnCurso, Escrito
  <2>3. /\ \A e, f \in vivas : e = f
        /\ tmov[m].marca = IF Rechazada(jnl[m].st) THEN "A" ELSE IF vivas = {} THEN "no" ELSE "I"
      BY <2>1, <2>2 DEF IInv, Movimientos
  <2>4. Cardinality(vivas) <= 1
    <3> HIDE DEF vivas
    <3>1. CASE vivas = {}
      <4>1. Cardinality({}) = 0
          BY FS_EmptySet
      <4> QED
          BY <3>1, <4>1
    <3>2. CASE vivas # {}
      <4>1. PICK e \in vivas : TRUE
          BY <3>2
      <4>2. vivas = {e}
          BY <2>3, <4>1
      <4>3. Cardinality({e}) = 1
          BY FS_Singleton
      <4> QED
          BY <4>2, <4>3
    <3> QED
        BY <3>1, <3>2
  <2> QED
      BY <2>1, <2>3, <2>4
<1>3. IInv => ReenvioInv
    BY <1>1, <1>2 DEF IInv, ReenvioInv
<1> QED
    BY <1>3, ReenvioSiempre, PTL

\* The request of a reentry is cleared only when the teller has nothing left to send
\* (RENmisc_clear_req): the counter never falls below the records of the selection.
THEOREM PedidoSeLimpiaSiempre == Spec => PedidoSeLimpia
<1>1. ASSUME IInv, NEW p \in Procesos \ {Sup}, pc[p] # "libre", pendientes[p] = 0
      PROVE  Seleccion(p) = {}
  <2>1. Seleccion(p) \in SUBSET Regs
      BY DEF Seleccion
  <2>2. IsFiniteSet(Seleccion(p)) /\ Cardinality(Seleccion(p)) \in Nat
      BY <2>1, Finitos
  <2>3. Cardinality(Seleccion(p)) = 0
      BY <1>1, <2>2 DEF IInv, Contados, EnCuenta
  <2> QED
      BY <2>2, <2>3, FS_EmptySet
<1>2. IInv /\ [Next]_vars =>
          [\A p \in Procesos \ {Sup} :
              pc[p] # "libre" /\ pc'[p] = "libre" /\ pendientes[p] = 0 => Seleccion(p) = {}]_vars
    BY <1>1
<1> QED
    BY <1>2, ReenvioSiempre, PTL DEF Spec, PedidoSeLimpia

=============================================================================
