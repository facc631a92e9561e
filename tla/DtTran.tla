------------------------------- MODULE DtTran -------------------------------
(***************************************************************************)
(* The stack of transactions of the desktop (CSR:dt_tran) and the driver   *)
(* that uses it.  Every running transaction has a slot with the list of    *)
(* the fields it was first to use; its end clears them, which is all that  *)
(* separates the data of one transaction from the data of the next one.    *)
(* Routines called inside a transaction open slots of their own.  The      *)
(* levels of one application are one stack here, above the desktop.        *)
(***************************************************************************)
EXTENDS Naturals, SequencesExt, FiniteSetsExt

CONSTANTS
    Base,        \* LST:drv:TRAN_desktop, the transaction of slot 0
    Trans,       \* lists of transactions the driver runs
    Rutinas,     \* routines that bracket their work with START and END
    Campos,      \* fields with the autoclear flag
    NADA,        \* an empty slot
    SSIZE,       \* slots
    MaxNivel,    \* bound: levels of the driver's stack, the desktop included
    MaxAnidadas  \* bound: brackets open inside a transaction

ASSUME SSIZEAssumption == SSIZE \in Nat \ {0}
ASSUME NombresAssumption ==
    Base \notin Trans \cup Rutinas /\ NADA \notin Trans \cup Rutinas \cup {Base}
ASSUME BoundsAssumption == MaxNivel \in Nat \ {0} /\ MaxAnidadas \in Nat

VARIABLES
    tran,        \* the C module: slots, the list in use, the fields' flags
    pila,        \* INDstack_funct up to stack_cnt
    anidadas,    \* brackets a routine has open in the running transaction
    casos        \* history, since the stack was last reset: a bracket was closed
                 \* ("cierre") or left open ("abandono"), a start found no slot
                 \* ("lleno"); "antes" when any happened before that

varsTran == <<tran, pila, anidadas, casos>>

Ranuras == 0 .. SSIZE - 1
Vacia == [id |-> NADA, campos |-> {}]
Nivel == Len(pila) + Len(anidadas)

\* nivel is history: the level that wrote first what the field holds, 0 when
\* the field is clear.
dt_tran_init ==
    [ranura  |-> [i \in Ranuras |-> IF i = 0 THEN [id |-> Base, campos |-> {}] ELSE Vacia],
     lista   |-> 0,
     listado |-> {},
     nivel   |-> [f \in Campos |-> 0]]

Con(t, id) == {i \in Ranuras : t.ranura[i].id = id}

\* The list of slot i is emptied and its fields can be listed again.
Desmarca(t, i) ==
    [t EXCEPT !.listado = @ \ t.ranura[i].campos, !.ranura[i].campos = {}]

\* Mutant: the end of a transaction leaves the fields of its list alone.
NoBorra(t, i) == Desmarca(t, i)

clr_fld_list(t, i) ==
    [Desmarca(t, i) EXCEPT
        !.nivel = [f \in Campos |-> IF f \in t.ranura[i].campos THEN 0 ELSE @[f]]]

\* Mutant: the new transaction may list again what an outer one listed.
ArrancaDesmarcado(t, id) ==
    IF id = Base THEN Desmarca(t, t.lista)
    ELSE IF Con(t, NADA) = {} THEN t
    ELSE LET i == Min(Con(t, NADA)) IN
         [t EXCEPT !.ranura[i].id = id, !.lista = i, !.listado = {}]

dt_tran_start(t, id) ==
    IF id = t.ranura[0].id THEN Desmarca(t, t.lista)
    ELSE IF Con(t, NADA) = {} THEN t                     \* Stack Overflow
    ELSE LET i == Min(Con(t, NADA)) IN
         [t EXCEPT !.ranura[i].id = id, !.lista = i]

dt_tran_restart(t, id) ==
    IF Con(t, id) = {} THEN t
    ELSE LET i == Min(Con(t, id)) IN
         [t EXCEPT !.lista = i, !.listado = @ \cup t.ranura[i].campos]

\* The end goes back to slot 0, whichever slot was in use before the start.
dt_tran_end(t, id) ==
    IF Con(t, id) = {} THEN t
    ELSE LET i == Min(Con(t, id))
             u == IF i = 0 THEN t ELSE [clr_fld_list(t, i) EXCEPT !.ranura[i] = Vacia]
         IN [Desmarca(u, 0) EXCEPT !.lista = 0]

dt_tran_reset(t) ==
    [ranura  |-> [i \in Ranuras |-> IF i = 0 THEN [t.ranura[0] EXCEPT !.campos = {}] ELSE Vacia],
     lista   |-> 0,
     listado |-> t.listado \ UNION {t.ranura[i].campos : i \in Ranuras},
     nivel   |-> [f \in Campos |->
                    IF \E i \in Ranuras \ {0} : f \in t.ranura[i].campos THEN 0 ELSE t.nivel[f]]]

\* A field written for the first time since its flag was reset is listed.
add_field_rec(t, f) ==
    LET u == [t EXCEPT !.nivel[f] = IF @ = 0 THEN Nivel ELSE @] IN
    IF f \in t.listado THEN u
    ELSE [u EXCEPT !.listado = @ \cup {f}, !.ranura[t.lista].campos = @ \cup {f}]

InitTran ==
    /\ tran = dt_tran_start(dt_tran_init, Base)
    /\ pila = <<Base>>
    /\ anidadas = <<>>
    /\ casos = {}

-----------------------------------------------------------------------------

reset_stack(t, p) == dt_tran_restart(dt_tran_restart(t, Base), Last(p))

save_stack(t, p) == dt_tran_restart(dt_tran_restart(t, Base), Last(p))

SinRanura == IF Con(tran, NADA) = {} THEN casos \cup {"lleno"} ELSE casos

\* The driver stacks the running function and starts the one chosen.
driver_load(id) ==
    /\ anidadas = <<>> /\ Len(pila) < MaxNivel /\ id \notin Range(pila)
    /\ tran' = dt_tran_start(save_stack(tran, pila), id)
    /\ pila' = Append(pila, id)
    /\ casos' = SinRanura
    /\ UNCHANGED anidadas

end_tran ==
    /\ anidadas = <<>> /\ Len(pila) > 1
    /\ pila' = Front(pila)
    /\ tran' = reset_stack(dt_tran_end(tran, Last(pila)), pila')
    /\ UNCHANGED <<anidadas, casos>>

\* Mutant: leaving the application ends the level on top only.
SoloLaUltima(t) == dt_tran_end(t, Last(pila))

TodasDesdeArriba(t) ==
    LET fin[n \in 0 .. Len(pila) - 1] ==
            IF n = 0 THEN t ELSE dt_tran_end(fin[n - 1], pila[Len(pila) - n + 1])
    IN  fin[Len(pila) - 1]

end_tran_exit_app ==
    /\ anidadas = <<>> /\ Len(pila) > 1
    /\ pila' = <<Base>>
    /\ tran' = reset_stack(TodasDesdeArriba(tran), pila')
    /\ UNCHANGED <<anidadas, casos>>

\* The reset key runs driver_main again, in the middle of a bracket too.
reset_all ==
    /\ tran' = dt_tran_start(dt_tran_reset(tran), Base)
    /\ pila' = <<Base>>
    /\ anidadas' = <<>>
    /\ casos' = IF casos = {} THEN {} ELSE {"antes"}

Usa(f) ==
    /\ tran' = add_field_rec(tran, f)
    /\ UNCHANGED <<pila, anidadas, casos>>

\* A routine opens its own bracket, and inside it one for the transaction of
\* each record of the session, which may be the one that is running.
Abre(id) ==
    /\ Len(pila) > 1 /\ Len(anidadas) < MaxAnidadas
    /\ IF anidadas = <<>> THEN id \in Rutinas ELSE id \in Trans
    /\ tran' = dt_tran_start(tran, id)
    /\ anidadas' = Append(anidadas, id)
    /\ casos' = SinRanura
    /\ UNCHANGED pila

Cierra ==
    /\ anidadas # <<>>
    /\ tran' = dt_tran_end(tran, Last(anidadas))
    /\ anidadas' = Front(anidadas)
    /\ casos' = casos \cup {"cierre"}
    /\ UNCHANGED pila

\* combo_builder returns when it gets no number, after drv:prev_funct and
\* before FIN DEL PROCESO.
Abandona ==
    /\ Len(anidadas) = 1
    /\ tran' = reset_stack(tran, pila)
    /\ anidadas' = <<>>
    /\ casos' = casos \cup {"abandono"}
    /\ UNCHANGED pila

Driver ==
    \/ \E id \in Trans : driver_load(id)
    \/ end_tran
    \/ end_tran_exit_app
    \/ reset_all

Rutina == (\E id \in Rutinas \cup Trans : Abre(id)) \/ Cierra \/ Abandona

NextTran == Driver \/ (\E f \in Campos : Usa(f)) \/ Rutina

SpecTran == InitTran /\ [][NextTran]_varsTran

-----------------------------------------------------------------------------

TypeTran ==
    /\ tran.ranura \in [Ranuras -> [id : Trans \cup Rutinas \cup {Base, NADA},
                                    campos : SUBSET Campos]]
    /\ tran.lista \in Ranuras
    /\ tran.listado \subseteq Campos
    /\ tran.nivel \in [Campos -> 0 .. MaxNivel + MaxAnidadas]
    /\ pila \in Seq(Trans \cup {Base}) /\ Len(pila) \in 1 .. MaxNivel
    /\ anidadas \in Seq(Trans \cup Rutinas) /\ Len(anidadas) <= MaxAnidadas
    /\ casos \subseteq {"cierre", "abandono", "lleno", "antes"}

\* No field keeps what a level that has ended wrote in it: a transaction never
\* starts with the data of another one.  It holds until a routine closes a bracket
\* inside a transaction, which leaves the desktop's list in use (dt_tran_end).
SinBasura ==
    casos = {} => \A f \in Campos : tran.nivel[f] <= Nivel

\* Every slot in use, the desktop's apart, belongs to a level that is open; a
\* routine that leaves its bracket open, or a start that found no slot, breaks
\* it until the reset key.
RanurasJustas ==
    LET usadas == {i \in Ranuras \ {0} : tran.ranura[i].id # NADA} IN
    casos \subseteq {"cierre", "antes"} =>
        /\ Cardinality(usadas) = Nivel - 1
        /\ {tran.ranura[i].id : i \in usadas} = Range(Tail(pila)) \cup Range(anidadas)

\* A field marked as listed is in one list, and a listed field is marked: a
\* mark left behind would keep the field out of every list from then on, and
\* no end of transaction would clear it again.
MarcasConcuerdan ==
    /\ tran.listado = UNION {tran.ranura[i].campos : i \in Ranuras}
    /\ \A i, j \in Ranuras :
        i # j => tran.ranura[i].campos \cap tran.ranura[j].campos = {}

\* The fields used now go to the list of the level that runs now, with the same
\* exception as SinBasura.
ListaPropia ==
    casos = {} => tran.ranura[tran.lista].id = Last(pila \o anidadas)

\* The slots, the marks and the list in use are those of the levels that are open.
DriverInv == TypeTran /\ RanurasJustas /\ MarcasConcuerdan /\ ListaPropia

\* The end of a level leaves alone what the levels below it wrote, unless it is
\* the bracket of a record whose transaction is one of those that run.  The
\* desktop's own fields are not covered: its list is emptied at every end.
NoPisa ==
    [][(/\ casos = {} /\ Nivel' = Nivel - 1
        /\ anidadas # <<>> => Last(anidadas) \notin Range(pila \o Front(anidadas))) =>
        \A f \in Campos :
            tran.nivel[f] \in 2 .. Nivel' => tran'.nivel[f] = tran.nivel[f]]_varsTran

=============================================================================
