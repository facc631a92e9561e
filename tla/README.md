# Verification of the branch teller application (V47.06)

The repository holds the teller ("caja") application of a branch network: screens and
business rules in OFB, a 4GL, under `src/moaproj/V47.06/src`, and the C runtime that
executes OFB under `src/MOA/src/csr`. Every paid bill, money order or sale becomes a
*transaction*: it is journaled in the data base of the branch, sent to a central host
over an unreliable line, and closed in journal and totals. This directory models that
path, checks it with TLC and proves part of it with TLAPS. Paths below are relative to
`src/moaproj/V47.06/src` unless they begin with `src/`.

## 1. Inventory

| component | state it keeps | operations | depends on | hard behaviour |
|---|---|---|---|---|
| Journal (`TLR/JNL`, `TLR/CUST/jnl`) | `TABjnl`: a record per sequence number with status, flags, corrected sequence; `tlr:sequence` in memory | `JNLtran`, `JNLprelog_tran`, `jnl_header`, `JNLupdate_commit/backout`, `JNLinitialize`, `jnl_cust_chk_snddwn`, `jnl_init_resync` | communications, totals, falls | record written twice (prelog, close) with a wait in between; crash anywhere; resynchronisation at login |
| Totals (`TLR/TOTS`) | a record per operator and day: last sequence, amounts, open/closed | `TOTScommit`, `TOTSbackout`, `TOTSinitialize`, `TOTSopen_day`, `TOTSclose_day` | journal | must agree with the journal after a crash |
| Host communications (`HCOMM/ONACOMM`) | `tran_status`, `on_line`, event routine of the session | `COMM_stat_init`, `COMM_send`, `COMM_rcv`, `COMM_rcv_event`, `COMM_hoststat_update`, `COMM_unso` | host, line | lost, refused and late answers; line events inside a wait |
| Falls, operator side (`SIAF/CDS`, `SIAF/MISC`, `OP/cds`, `giros/cds`) | `jnl_caidas`: a row per transaction whose answer never came | `CDSop_marca_cien`, `CDSchk_trxs_caidas`, `MISCesp_desb_99`, `CDSjnl_mayor_cien`, `analiza_tran`, `MISCjnl_reverso_auto`, `MISCjnl_corregida` | journal, communications, RT batch | recovery that falls itself; a second process on the same rows |
| RT batch (`batch`, `giros/cds`) | its current row | `OFBbatch_CaidasVuelo`, `CDSrec_caidas_batch`, `MISCtrat_recup_batch`, `MISCact_tx_caida`, `CDSupd_jnl_caidas` | the same tables, its own session | runs beside every teller, dies, is launched again |
| Login (`OP/tran`) | profile of the operator | `TRANlogin` | journal, totals, falls | runs after a crash, beside the RT batch |
| Reentry (`HCOMM/REENTRY`) | record in course, skipped entries, pending counter | `TRANreentry`, `TRANreentry_all`, `RENmisc_reentry`, `JNLreentry_sel`, `JNLreentry_upd` | journal, totals, treasury, communications | a teller's and a supervisor's reentry over the same records; interrupted, cut off or dead in the middle |
| Service requests (`HCOMM/MOA2MOA`) | event flags, answer fields | `SRQ_service_moa`, `SRQ_ro_send_*`, `SRQ_wait_for_resp`, `SRQ_op_status` | other workstations | the event script runs between any two calls; answers without a number; time-outs |
| Supervisor override (`OVR`, `SIAF/OVR`, `src/MOA/src/csr/removr.c`) | list of requests with 16-bit numbers, flag, indicator, menu of the supervisor | `OVRro_ovr_proc`, `PDISoverride`, `PCOLoverride`, `PBgrant_request`, `OVRro_pic_or_exit`, `saovreq_*` | service requests | request, answer, cancel and time-out race; the list changes under the menu |
| Batch manager (`batch`) | batches to launch | `OFBmanejadorBatch`, `OFBprocesoBatch` | RT batch | fairness of the RT batch |
| Treasury (`TES`) | record of the cash rendered, movements between drawer and treasury | entries, exits, opening, close and forced close of a teller | journal, totals | marks written one by one by two stations; two-sided movements |
| Driver (`DRV`) | stack of running functions | `driver_load`, `end_tran`, `reset_all`, `save_stack`, `reset_stack` | OFB runtime | data of one transaction must not reach the next |
| OFB runtime (`src/MOA/src/csr`) | slots of transactions and lists of fields (`tran.c`), lists of totals (`totalist.c`), requests (`removr.c`), file handles (`file_rw.c`) | the `CSR:` calls of the OFB programs; user interface | - | tables shared by every routine of the process |
| Products (`POST`, `giros`, `tele`, `GALI`, `PLATAF`), administration (`ADMIN`, `CAL`, `DDE`, `odbc`, `WINHELP`, `TEMPLATE`, `UTL`, `LIB`, `NAUSER`) | screens, fields, tables | validations, layouts, menus | driver calls `JNLtran` | data and user interface |
| Other host variants (`HCOMM/MSSNA-`, `HCOMM/CTC-`), installer (`src/MOA/src/tsetup`) | - | - | - | not part of the running system |

What makes the core correct:

* what the host applied is counted in the totals or a cancellation is owed for it, and
  no crash, lost message or second recovery makes the branch forget it;
* what the totals count was applied by the host and is counted once;
* journal, `jnl_caidas` and totals agree on what a transaction is;
* two recoverers never work on the same row;
* every transaction begun ends, and every fall is resolved once the line stays up;
* an offline transaction is sent once, by whoever sends it, and journal, totals and
  treasury agree on what the host answered;
* a grant is used once, by the teller and for the request it was given to;
* the cash the record carries from one day to the next is the cash in the drawer;
* totals kept step by step, totals rebuilt and totals brought up to date after a crash
  are those of the transactions that stand;
* a transaction never starts with the data of another one.

`PROJECT.json` ("components") lists the same parts with their status, and "hazards" the
places in the code where these can go wrong, with the properties that cover them.

## 2. How a transaction runs, and how the model follows it

`JNLtran` writes the journal record with status MEMO (*prelog*), computes the initial
status (`COMM_stat_init`), recovers the falls of the operator if there is line
(`CDSchk_trxs_caidas`, `CDSjnl_mayor_cien`), sends and waits (`COMM_host_tran`), inserts a
row in `jnl_caidas` when the final status is above 100 (`CDSop_marca_cien`), and closes
journal and totals in one unit of work. A *fall* ("caida en vuelo") is a transaction the
branch backed out without knowing whether the host applied it; recovering it is sending
a message 400 that cancels it. The operator does it before its next transaction; the RT
batch of the branch does it in rounds. A row is marked 98 while the operator works on it
and 99 while the batch does. Marks left behind by a process that died are undone by the
login, by the next round, or by the clock (`FREE_LOCKED_REG_TIME`, half an hour).

### Modules

| module | content |
|---|---|
| `Estados` | the status codes of `INCLUDE/HCOMMSTD.H` and the two filters over them |
| `CaidasEnVuelo` | the teller's process, its login, the RT batch, and (external) host and line; state invariants and action properties |
| `CaidasInv` | the inductive invariants `IInv`, `RInv`, `SInv`, `CInv`, `DInv`, in named conjuncts |
| `Desenlace` | abstract specification: what a branch promises of each transaction |
| `CaidasDesenlace` | the refinement mapping from `CaidasEnVuelo` to `Desenlace` |
| `CaidasLiveness` | fairness and the liveness properties |
| `MCCaidas` | the model with its invariant and its refinement, for one run |
| `CaidasProofs` | theorems and proofs about `CaidasEnVuelo`: journal, totals, rows, outcomes; with the batch between transactions, that nothing is lost, that what is counted is applied, and the refinement of `Desenlace` |
| `SupervisionRemota` | remote supervision: the teller's wait, the list of `removr.c`, the supervisor's menu, the messages |
| `SupervisionRemotaProofs` | theorems and proofs about `SupervisionRemota` |
| `ConsultaOperador` | the question whether an operator is signed on at another station |
| `ConsultaOperadorProofs` | theorems and proofs about `ConsultaOperador` |
| `Reentry` | the reentry of offline transactions by the teller and by the supervisor, with treasury and totals |
| `ReentryProofs` | theorems and proofs about `Reentry` |
| `DiaDeCaja` | opening, close and forced close of the teller's day, over the totals record and the record of the cash |
| `DiaDeCajaProofs` | theorems and proofs about `DiaDeCaja` |
| `FechaTotales` | the date and sequence that tie the totals record to the journal, and the resynchronisation at sign-on |
| `FechaTotalesProofs` | theorems and proofs about `FechaTotales` |
| `TotalesJournal` | the buckets of the totals, corrections, reentries and the rebuild from the journal |
| `TotalesJournalProofs` | theorems and proofs about `TotalesJournal` |
| `DtTran` | the slots and lists of fields of the transactions, and the driver that uses them |
| `FileRW` | the table of files of the OFB programs |
| `CsrProofs` | theorems and proofs about `FileRW` and `DtTran` |

`CaidasEnVuelo` composes journal, totals (as counts), communications, `jnl_caidas`, login
and batch, because their hazards are in the interleavings of the four. `Reentry` composes
journal, totals, treasury and two stations; `DiaDeCaja`, teller and treasurer over two
tables; `SupervisionRemota`, two tellers, a supervisor and the routines of the list in C.
`FechaTotales` and `TotalesJournal` look closer at what `CaidasEnVuelo` takes for granted of
the totals: the marks that say what was totalised, and the amounts. Plausible bugs of the
code, used to see that each property can fail, stand before the definition they change.

The rest of this section is about `CaidasEnVuelo`; section 3 is about the others.

### State

| variable | in the code |
|---|---|
| `jnl[s]` | record `s` of `TABjnl`: `st` jnl_status, `viaja` has a send routine, `solo` only the operator may recover it (`post:SiNo_aux == "S"`), `rev` an automatic reversal, `corr` jnl_sequence_corr |
| `cai[s]` | row of `jnl_caidas` for sequence `s`: status and `solo`; `NoCai` when there is none |
| `tots` | `tots_sequence`, and how many times each transaction was totalled (abstracts the amounts) |
| `pc`, `cur`, `sequence`, `tran_status`, `sndrt`, `cancel` | where the teller is, `tlr:aux_sequence`, `tlr:sequence`, `hcomm:tran_status`, `hcomm:INDhost_sndrt`, flag `controla_marca,cancel` |
| `fila`, `orig`, `rev`, `cod` | row under recovery (or record under examination at a login), `status_orig`, sequence of the reversal, `CodRespuesta_comm` |
| `rpc`, `rfila`, `rorig`, `rstatus`, `rcod` | the same for the RT batch |
| `line` | flag `on_line`; `host`, `net`, `ans`: what the host did, requests and answers under way |
| `crashes` | crashes so far (bounded by `MaxCaidas`) |

An action is the code between two points at which another process can run: a commit to
the data base or a wait. So the insertion of the row and the close of the journal are
two actions (two units of work in the code, `CDSgen_jnl_caidas` and `jnl_update_tran`),
while journal and totals change together (`Cierra`); at a login the row and the
journal record of `jnl_cust_chk_snddwn` are two actions, too.

The teller: `JNLprelog_tran`, `COMM_stat_init`, `CDSchk_trxs_caidas`,
`RecuperacionesPendientes` and `LiberaAbandonada` (the two ways out of `MISCesp_desb_99`),
`COMM_send`, `COMM_rcv_event`, `SinRespuesta`, `ErrorComm`, `CDSop_marca_cien`, `Cierra`.
Its recovery: `TomaFila`, `MISCjnl_reverso_auto`, `AnalizaSinLinea` (the return -2),
`EnviaReverso`, `MISCjnl_corregida`, `CierraFila`, `CaidaEnReverso`, `FinRecuperacion`.
The login: `TRANlogin`, `jnl_cust_chk_snddwn`, `ActualizaJournal`, `jnl_init_resync`.
The batch: `RtEmpieza`, `RtToma`, `RtEncuentra`/`RtBorra`, `RtEnvia`, `RtRecibe`,
`RtSinRespuesta`, `RtActualiza`, `RtCierraFila`, `RtCaida`, `RtAgota`, `RtTermina`.
`Cae` and `RtCae` kill a process: memory is lost, the tables stay.

### Assumptions of the model

* One operator and one RT batch. Rows carry their operator, and an operator never looks
  at the rows of another, so operators interact only through the host.
* Data base locks: a record a process holds locked is not changed by another one.
  `JnlBloqueado` is the case where the code notices the lock and ignores it
  (`MISCact_tx_caida:31`): it returns before it looks at the status of the answer, so that
  the row keeps what it had and the round goes on (`SinJournal`), also when the 400 fell.
* `COMM_stat_init` of the active variant returns 0 or -2; the branch on -3 in
  `MISCtrat_recup_batch:86-89` is never taken and `RtEnvia` has none.
* No manual corrections: the records of `CaidasEnVuelo` with the flag of correction are the
  automatic reversals, which take their list of totals away (`MISCjnl_reverso_auto:188`), so
  that the branch of `JNLcustom_resync:41-43` for a fallen correction adds nothing.
* The clock: half an hour is longer than the time a live process needs for one row, so
  a row is freed by the clock only when its holder has left it (`~FilaDeRT`, `~FilaDeOp`
  in `LiberaAbandonada` and `CDSupd_jnl_caidas`). `UnSoloRecuperador` rests on it.
* The host (external) applies or refuses a 200, refuses a 200 whose cancellation it has
  seen, and answers a 400 with "00" undone now, "98" undone before, "09" nothing to undo
  or "95" can no longer be undone. These are the codes `MISCupdate_reverso` and
  `MISCact_tx_caida` tell apart.
* Only families that wait for the line before giving up (`COMM_stat_init:113-117`) are
  modelled: without line they get SEND_ERROR, never UNPOSTED. Offline transactions belong
  to `Reentry`.
* Fields nobody reads again before they are written are cleared when their use ends
  (`LimpiaReverso`, `LimpiaLote`).

### Constants

`MaxSeq` bounds the sequence numbers of a day; a transaction begins only if its recovery
and those pending still find numbers (`Reserva`), so that the bound never blocks a
recovery. `MaxCaidas` bounds crashes; `QuienCae` says which process can crash.
`Familias` says which transactions the teller begins: "local" ones do not travel, "operador" ones
only the operator recovers, "normal" ones the batch may.
`FallosLinea` is the set of states a line event leaves during a wait (105, 106, 108 are
treated alike, and the runs use one). `ModoRT` is "no" (no batch), "serie" (a round and a
transaction or login do not overlap, a round may follow a crash at any point) or "libre" (every
interleaving). `PosibleOff` is the set of values of `siaf:posible_off` a fallen
transaction can have. `RespTardias` says whether an answer can arrive in a later wait; it is
FALSE in every run (section 5).

## 3. The other modules

### SupervisionRemota and ConsultaOperador

A teller without supervisor authority picks a supervisor signed on at another station and
sends a request (`SRQ_ro_send_req`); the event script of the other station,
`SRQ_service_moa`, inserts it in the list of `removr.c` (`RecibePedido`), numbers it with
16 bits (`Asigna`, `Siguiente`), and lights an indicator. The supervisor opens the menu
(`PDISoverride`, `PCOLoverride` and what follows each), sees one request (`Muestra`, which also
sends the acknowledge), answers (`PBrequest`), and `OVRro_pic_or_exit` deletes the request, counts
and clears the indicator, in three actions because the event script runs between two
calls. The teller's wait is `Despierta` (one flag looked at per wake-up) or `Vence` (reset key
or time-out, with its cancel). `cobrados` and `concedidos` are history: grants used and given.

`ConsultaOperador` is the question `SRQ_op_status` asks before a record of an operator is
freed. A flag holds the number of the answer that set it, which the code does not have;
`leida` and `sueltas` are history.

Assumptions: messages between two stations keep their order; the fields of
the screen are cleared on leaving the menu; the answer to a blank screen is taken as sent
without an error, and reaches nobody; what an answer sets at a teller that is not
waiting is left out (the next request resets it: `SRQ_ro_send_req:73-75`,
`OVRro_ovr_proc:58`). `MaxCanal` bounds the acknowledges on their way when a request is opened.

### Reentry

`jnl` holds the day's records in the order of the key; `tmov` the treasury movement of each exit
of cash; `tots` what each record adds to the totals of its teller. `TRANreentry`, `Primera`,
`LeerProximo`, `Completa`, `Saltea`, `RechazaEntrada`, `COMM_host_tran`, `SinLinea`,
`JNLreentry_upd`, `JNLreentry_upd_tots`, `Tesoro` and `Abandona` are the loop of
`RENmisc_reentry` cut at every update of a table and every message; `Alta...` are the
transactions of the day. Exit, entry, journal, totals and treasury are written in
different units of work, by the teller's station and by the supervisor's.

Assumptions: a FINDFIRST evaluates its selection when it runs and keeps its record locked
until the update; `tes:ent_sal_1` is 0 when the reentry starts; a fall inside the reentry leaves
RCV_RESET with the transaction applied or not; the pending counter may go below zero for the
supervisor, whose records others send meanwhile. `op_reentry_aut` and `tlr_reentry_req`, which no
live code sets, are left out. So is the rebuild of the totals a teller's reentry ends with when
something is still pending (`TRANreentry:71`, `SVAL_rtot_dia1`): its selection is of another kind
(below, TotalesJournal). The second FINDFIRST of `RENmisc_reentry:211-214`, for what is left of the
selection, is one action with the first.

### DiaDeCaja

The totals record (`tots`: status, date, cash, initial cash) and the record of the cash rendered
(`rend`) are written by the teller (`PRETopen_day`, `TRANcall_efvo_ini`, `CDSinit_rend_cajero`,
`CDSinit_rend_tots`, `SENDclose_day`, `JNLprelog_tran`, `JNLupdate_commit`) and by the treasurer's
forced close (`VerificaOperador`, `LeeRendicion`, `MarcaTotales`, `MarcaRendicion`). `pend` is a
journal record whose unit of work is still to be done; `APPLinit` resynchronises it. `caja`, the
cash in the drawer, and `casos` are history.

Assumptions: a lock that cannot be had is an error return; one means of payment; the date
changes with nobody signed on; a day reopened after a forced close loads no cash; the treasurer's
locks go when it fails; the pre-logged opening of an earlier date is not found by the
selection of the next start.

### DtTran

`tran.c` keeps `SSIZE` slots (thirty in the code); each has the list of the fields its transaction
was first to write, and its end clears them. `dt_tran_start`, `dt_tran_restart`, `dt_tran_end`,
`dt_tran_reset`, `add_field_rec` are its entry points, as operators; `driver_load`, `end_tran`,
`end_tran_exit_app`, `reset_all` are the driver; `Abre`, `Cierra`, `Abandona` a routine that opens
slots of its own inside a transaction (`MISCajusteUP`, `combo_builder`). `nivel[f]` is history: the
level that wrote first what field `f` holds.

Assumptions: the levels of one application are one stack above the desktop; a transaction that is on
the stack is not started again, which `driver_load` leaves to what calls it; every field is
autoclear; `DT_TRAN_INIT` runs once; the switch between suspended applications, the current
field and the cursor are left out. `clr_fld_list` and `add_field_rec` belong to the closed run time
and are modelled from their use.

### FechaTotales and TotalesJournal

`FechaTotales` holds the two marks of the totals record, the date and the sequence of the last
transaction totalised, and the two dates of a journal record. `TOTScommit` leaves `jnl_date`,
`TOTSbackout` `jnl_bus_date`; at sign-on `JNLinitialize` selects by `jnl_date` and `jnl_check_sync`
compares `jnl_bus_date`. `veces[i]` is history: how many times record `i` was totalised. The
order in which the context gives the last record is one of two (`Ultimo`). Opening and close are
atomic with their totals here (`DiaDeCaja` has the crash in between); a day its operator did
not close is closed by the treasurer, who does not touch the profile.

`TotalesJournal` holds the buckets, changed by `csr:total_list` (`total_list`, from
`totalist.c`) with the list of each transaction; `KEYScorrection` and `MISCmarca_corregida` correct a
transaction and then mark the original; `JNLreentry_upd` and `ReentraSupervisor` answer what was
done without line; `SVAL_rtot_dia` rebuilds the buckets from the journal. Memory and record are one
set of buckets; close and totals, and the whole rebuild, are atomic. Only sales and sessions
can be corrected. The other rebuild, `SVAL_rtot_dia1`, selects by `INDtots_append` and is not
modelled. Malformed lists, the cancellation of money orders, deferred rejections and
earlier dates are left out.

### FileRW

The table of numbers of `file_rw.c`, the buffer the C library keeps for each, and the paths.
`Vuelca` is the library writing a part of its buffer when it likes. Two handles stand for eight.
The programs close what they wrote before they read it, and a path has one writer. The IBS
forms, which no program calls, and the deletion of a file are left out.

## 4. Properties and runs

Parts of an invariant are definitions of their own, with their comments, in the module; a run
checks their conjunction. Times are of two workers.

| run | instance | states, time |
|---|---|---|
| `Serie` | `MCCaidas`: MaxSeq 3, a batch between transactions, the teller crashes once, posible_off TRUE | 815 thousand, 1.5 min |
| `Libre` | `CaidasLiveness` (`SpecCajero`): MaxSeq 3, the batch free, no crash, transactions the batch may recover | 1.6 million, 2.5 min |
| `Resuelve` | `CaidasLiveness` (`SpecLote`): MaxSeq 2, batch in series, one crash of either | 44 thousand, 20 s |
| `Ovr` | `SupervisionRemota`: 2 tellers, 1 supervisor, 2 requests, numbers modulo 3 (never reached), one failure of the server, requests given up | 447 thousand, 2 min |
| `Reenvio` | `Reentry`: 2 tellers, reentry of one and of the supervisor, 2 records, a crash, a cut | 372 thousand, 1.5 min |
| `Caja` | `DiaDeCaja`: 3 dates, 3 transactions, 3 crashes | 842 thousand, 15 s |
| `Driver` | `DtTran`: 4 slots, 2 transactions, a routine, 2 fields, 3 levels and 2 brackets | 1.0 million, 20 s |
| `Fechas` | `FechaTotales`: 3 dates, 5 records, 2 crashes | 1.8 million, 35 s |
| `Totales` | `TotalesJournal`: 4 records, 2 amounts, a crash | 738 thousand, 70 s |
| `Consulta` | `ConsultaOperador`: 2 operators, 3 questions | 17 thousand, 1 s |
| `Archivos` | `FileRW`: 2 handles, 3 numbers, a path, a crash | 953 thousand, 1 min |
| `MemoLiberada` | `CaidasEnVuelo`: MaxSeq 2, the batch free, 2 crashes of either | **violated** (section 5) |

| run | property | kind | what it says |
|---|---|---|---|
| `Serie` | `IInv` | invariant | the inductive invariant of the proofs, `TypeOK` among its parts |
| | `NoLostInFlight` | invariant | applied by the host and not totalled implies: still running, or a row asks for its cancellation, or the coming login will make one |
| | `ContadaAplicada` | invariant | what is totalled is applied by the host and not undone |
| | `CuentaUnaVez` | invariant | nothing is totalled twice |
| | `Tomada98EnUso` | invariant | a row marked 98 is the one the operator is recovering, or the next login will free it |
| | `FilaConcuerda` | invariant | between transactions, a row the batch recovers has the status of its journal record |
| | `ImplementaDesenlace` | refinement | `CaidasEnVuelo` implements `Desenlace` |
| `Libre` | `UnSoloRecuperador` | invariant | operator and batch are never on the same row |
| | `CanceladaEsAnulada` | invariant | the journal says cancelled only of what the host has undone |
| | `DesenlaceEstable` | action | an outcome in the journal is never rewritten |
| | `TransaccionTermina` | liveness | a transaction begun ends, also when it first recovers falls or waits for a 99 of a batch that stopped |
| | `DesenlaceEstable` | action | and the batch does not write over what that login decided |
| `Resuelve` | `CaidaResuelta` | liveness | with the line up for good, every row the batch may recover is closed with an outcome, or the login makes it again |
| `Ovr` | `SupervisionInv` | invariant | `TypeOK`; a teller uses no more grants than it was given (`UnaPorConcesion`); the indicator is off when the list is empty (`IndicadorConPendientes`) |
| | `ConcedePedido` | invariant | a grant used was given by that supervisor for that request |
| | `NadieEsperaEnVano` | invariant | who waits has something to wait for |
| | `BorraLoDecidido` | action | an answer deletes the request that was on the screen |
| | `PedidoTermina` | liveness | a wait for a supervisor ends |
| `Reenvio` | `ReenvioInv` | invariant | `TypeOK`; the totals count what the journal does not call rejected (`TotalesConcuerdan`); movement and entries agree (`MovimientoConcuerda`) |
| | `UnaVez` | invariant | a record is sent once, but for a crash |
| | `EntradaTrasSalida` | invariant | an entry is applied only after its exit was accepted |
| | `PedidoSeLimpia` | action | a reentry that ends with counter 0 leaves no record |
| | `ReentryTermina` | liveness | a reentry ends |
| `Caja` | `CajaInv` | invariant | the inductive invariant of the proofs: `TypeOK`; the treasurer never marks the cash of a day in use (`ForzadoFuera`, `Candados`); dates in order; what each record says of the cash |
| | `SaldoConservado` | invariant | initial cash and cash of the day are the drawer |
| | `RendidoFiel` | invariant | what the next day starts with is the drawer |
| | `LimpiaRendido` | action | cash is cleared only after it was rendered |
| `Driver` | `DriverInv` | invariant | `TypeTran`; a slot per open level (`RanurasJustas`); a field is in one list when it is marked (`MarcasConcuerdan`); the list in use is that of the level on top (`ListaPropia`) |
| | `SinBasura` | invariant | no field keeps what a level that ended wrote |
| | `NoPisa` | action | the end of a level leaves the fields of the levels below |
| `Fechas` | `UnaVez` | invariant | a record is totalised once at most |
| | `CaidaTotalizada` | invariant | after a sign-on nothing accepted is missing |
| | `ClaveUnica` | invariant | accounting date and sequence tell records apart |
| `Totales` | `MarcasInv` | invariant | `TypeOK`; a transaction is marked as corrected when, and only when, it is (`MarcaCierta`, `MarcaFiel`) |
| | `ReconstruccionExacta` | invariant | the rebuild gives the totals of the transactions that stand |
| | `UnaReversa` | invariant | a transaction is corrected once |
| | `CadaPaso` | action | every step moves the buckets by what it changes of the transactions that stand |
| `Consulta` | `RespuestaDelConsultado` | invariant | the answer of a wait is that of its question or, after a time-out, one whose wait ended without it |
| `Archivos` | `ArchivosInv` | invariant | `TypeOK`; no FILE of the table is lost (`NingunoSuelto`); what was flushed survives a crash (`FirmeQueda`) |
| | `EscritoEsta` | invariant | what was reported as written is on the path or on its way |
| | `LineaEntera` | invariant | a line read up to its end has all its characters |

`Desenlace` has one phase per transaction (new, open, owes a cancellation, counted,
closed) and a Boolean for the host. Counting needs the host's application, closing needs
its absence, and the host undoes only what owes a cancellation. `FaseDe` reads the phase
off the journal, the row, the totals and the teller's process.

### Why the bounds are enough

The invariants and action properties of the runs are also proved for every bound (section 7), which
is the better answer; what follows is why the runs reach the interesting cases, and why the
liveness properties are worth their bounds.

* `CaidasEnVuelo`: three sequence numbers hold a fall, its reversal and a transaction after
  them, which is every relation between records the code makes (a reversal points to one
  record, a login looks at the last one, the filter takes rows one by one). With `MaxSeq` 2
  no transaction starts while a row is pending, because its reversal would have no number
  (`Reserva`): a fall is then recovered by the batch or re-examined by a login, and that is
  what `Resuelve` asks about (a 99 of a dead batch, a record without its row after a crash of
  the teller). The operator's own recovery, and so the 98, and the wait for a 99
  (`MISCesp_desb_99:47`) need three, and occur in `Serie` (the 98) and `Libre` (both). `Libre` leaves to
  `Serie` the transactions that do not travel and those only the operator recovers (`Familias`): the
  batch has no row of theirs to contend for. No passing run has the batch free and a login, which is what locks a
  journal record under the batch (`MISCact_tx_caida:31`): it was checked apart, with `MaxSeq` 2 and one
  crash of the teller (421 thousand), where `CerradaConDesenlace` and `DesenlaceEstable` hold, and both
  are proved for every mode of the batch and any crashes. With two crashes of either, the
  batch free and `MaxSeq` 2 (1.7 million), `IInv`, `CuentaUnaVez`, `CanceladaEsAnulada`
  and `DesenlaceEstable` hold. `TransaccionTermina` also holds with `MaxSeq` 3, the batch in series, a
  crash of the batch and every family (911 thousand).
* `SupervisionRemota`: two requests are those of one teller, one given up, or of two tellers at
  one supervisor, which is what flags, lists and indicator can confuse. Two requests take two of the
  three values of the counter: it does not come round in `Ovr` (section 5 says what happens when it does).
* `Reentry`: two records are an exit and its entry, or two of one teller; two stations take them
  in every order.
* `DiaDeCaja`: three dates are a day, its close or its loss, and the day that finds it; three crashes
  reach the opening, the close and the forced close in one behaviour.
* `DtTran`: two levels above the desktop and two brackets fill the four slots and overflow them.
* `FechaTotales`: five records are two days with opening and close; two crashes, a sign-on after a
  sign-on.
* `TotalesJournal`: four records are a transaction, its correction and two others around them;
  amounts 1 and 2 tell one transaction from two.
* `FileRW`: paths of six characters and a field of four hold a line longer than the field, a line
  and a half, and a buffer split at every place.

Every property of a passing run has a mutant (`PROJECT.json`, "mutants"): a plausible
bug of the code (a wrong bound, a missing condition, a status kept instead of written)
that TLC finds with the same configuration. They stand before the definition they change.

Deadlock is checked except where a day, a journal or a path that reached its bound may really
stop (`Ovr`, `Reenvio`, `Caja`, `Fechas`, `Totales`, `Archivos`).

## 5. Where the code and its documents disagree

The run `MemoLiberada` checks `ContadaAplicada` with the batch free and crashes of either, and is
violated: `CDSupd_jnl_caidas:101` gives a row left at 99 the status of its journal record, which
is still MEMO when the teller died before its close; the next login takes that 2 for an
outcome and totals a transaction the host never applied, against `JNLcustom_resync:40`
("totalizan si era reversa").

What follows was met while modelling; no run is listed for it.

Supervision:

* `src/MOA/src/csr/removr.c:164` says "Now assign unique sequence number for override request", and
  line 167 gives the next value of a counter of 16 bits that skips 0, without a look at the list. A request
  that stays (its cancel was lost, or nobody answers it) has a namesake one turn, 65535 requests, later;
  gets and deletes take the first with the number. `NumeroPropio` proves the comment right until then;
  with `MaxPedidos = Ciclo` TLC finds `NumeroUnico` violated.

Reentry:

* `RENmisc_reentry:82-84` goes on after an entry whose exit is not sent; each pass counts the same
  entry again (81), and line 208 compares that count with the records left: with one entry and
  three transactions the loop says "Completado" with the third untried. (`ReentryTermina` asks that it
  ends, `PedidoSeLimpia` only of a counter at 0.)
* `JNLreentry_upd:94` takes a rejected transaction out of the totals in a second unit of work, and the
  supervisor's reentry does not do it at all (65-69). (`caidas` and `ajenos` in
  `TotalesConcuerdan`.)

The teller's day:

* `TOTSopen_day:58` "Realiza la limpieza de totales cuando no es reapertura" reads `drv:descrip` (59),
  which a crash loses: the resync of a REOPENCA clears the totals. (No reopening in `casos` of
  `SaldoConservado`.)
* `CDSinit_rend_cajero:81-82` "Actualizo las dos marcas en el mismo lugar, para evitar problemas si se cae
  en el medio": they are two updates without a unit of work, and a crash separates them. (No
  property says they agree; `SaldoConservado` and `RendidoFiel` hold in spite of it.)
* `MISCmarca_ciefor_caj:42-48` refuses a forced close when the operator is inside, with one unlocked
  read of `op_node_id`: a teller who signs on after it, and finds the record rendered locked,
  works while the close writes the cash copied before; the totals are marked (97) before the record
  rendered is (143). (`casos = {}` in `RendidoFiel`.)

Driver and files:

* `src/MOA/src/csr/tran.c:313`: the end of a bracket makes the desktop current, and a routine inside a
  transaction does not restart the one around it; what it writes afterwards stays, as
  `DRV/MAIN/Drv/end_tran:191` says ("queda con basura entre una trx y otra"). (`casos = {}` in `SinBasura` and `ListaPropia`.)
* `MISCajusteUP:155-156`: the bracket of a record whose transaction is the running one ends the
  running one (`tran.c:285-286`). (`Last(anidadas) \notin Range(pila \o Front(anidadas))` in `NoPisa`.)
* `combo_builder:60` and `:68` leave without the end that line 323 marks; the slot stays until a reset.
  (`casos` in `RanurasJustas`.)
* `file_rw.c:96`: a number outside 1 to 8 (53, 63) is opened, even truncated, kept nowhere, and answered
  with 0. (`ArchivosInv` speaks of the table.)
* `file_rw.c:136` compares the result of `fwrite` with EOF, which it never is: a write that failed is
  reported as done, against line 110. (`ajeno` in `EscritoEsta`.)
* `file_rw.c:341` "Discard trailing NEWLINE?" discards the last character of every piece of a long line,
  and of a line without its end. (`lectura.fin` in `LineaEntera`.)
* `file_rw.c:183` says -1 is the end of the file; line 212 looks before it reads, so that one more
  reading answers 0 with nothing. (No property.)
* `rangechk.c:192` and `:312`: an entry with an end missing is compared with the text of an earlier entry,
  and an interval whose longer end sorts first rejects both its ends, against lines 101-105 and
  134-136. (Not modelled.)

Totals:

* `TOTScommit:130-131` leaves `jnl_date` "para que no se reinicien los totales ante una caida";
  `TOTSbackout:34` still leaves `jnl_bus_date`, and `jnl_check_sync:36` compares `jnl_bus_date` with a mark
  that holds `jnl_date`: with a transaction of an earlier accounting date a crash loses its totals,
  or a record is totalised again, or the day in course is flagged closed. (`SinAnterior` in every
  property of `FechaTotales`; without it each is violated.)
* `SVAL_rtot_dia:57` rebuilds every 99023 with the list of the end of session, `TOTScommit:35` subtracts
  credit notes. (`Valen("nc") = {}` for the bucket of sessions in `ReconstruccionExacta`.)
* `SVAL_rtot_dia1:30` clears the buckets before a selection (34) that can fail and return (40). (The rebuild is atomic here.)
* `JNLtran:409` marks the original of a correction in another unit of work: a crash in between lets
  it be corrected again, against `KEYScorrection:61-63`. (`caidas` in `UnaReversa`, `MarcaFiel`,
  `ReconstruccionExacta`, `CadaPaso`.)
* `JNLreentry_upd:88` takes a rejected correction out of the totals and leaves its number in the
  original, which can then never be corrected and which the rebuild leaves out.
  (`ReversaRechazada` in `MarcaCierta` and `ReconstruccionExacta`, `ReversaPendiente` in `CadaPaso`.)

## 6. Fairness

`SpecCajero`: weak fairness of the steps of the teller's process inside a transaction or a
login. It is one thread that goes on until it waits, and each wait has a time-out of its own (`COMM
waitformsg hcomm:timeout`, the counter of `MISCesp_desb_99`): `SinRespuesta` and
`RecuperacionesPendientes` are among those steps. Nothing is assumed of the user, of the host or of the
line, nor of the batch, which may stop anywhere for ever. `TransaccionTermina` needs no more: the
operator's wait for the row of a batch that stopped with a 99 ends by its own counter.

`SpecLote` adds, for `CaidaResuelta`: the batch goes on with its round, whose waits end too
(`MISCesp_linea_batch`), and runs again and again
(`OFBrecupCaidasVuelo` is a loop that sleeps and calls `OFBbatch_CaidasVuelo`); infinitely
many of its rounds find the abandoned 98 older than half an hour (`RondaTardia`); and,
strongly, sends, answers of the host to a 400 and their reception. The last is what a
line that is up gives: attempts repeated for ever succeed some time. The property
is conditional on the line staying up. It concerns the rows the batch may recover;
rows marked `solo` wait for their operator, who is under no obligation to come back.

`SupervisionRemota` (`FairSpec`): the routine of a teller goes on, by a wake-up or by the time-out
`OVR_WAIT_TIME`. Nothing is assumed of the supervisor or of the messages. `PedidoTermina`
excepts the supervisor who opens and leaves requests for ever, because each acknowledge starts
the time again (`SRQ_wait_for_resp:49`).

`Reentry` (`FairSpec`): each station's loop goes on by itself; its messages have the time-out of
`COMM_host_tran`. Nothing is assumed of user or line.

## 7. What is proved

Every theorem holds for every value of the constants its module's assumptions allow: any number
of transactions, records, days, questions, files and crashes, and all orders of the processes.
TLC evaluates the assumptions in the runs. Theorems with a hypothesis of their own (`ASSUME ...
PROVE Spec => ...`) say so below, and why it is needed. The obligations are those `tlapm
--summary` counts.

| module | theorem | property |
|---|---|---|
| `CaidasProofs` (5254) | `Invariante` | `[]IInv` |
| | `TypeOKSiempre`, `CuentaSiempre`, `RecuperadorSiempre` | `[]TypeOK`, `[]CuentaUnaVez`, `[]UnSoloRecuperador` |
| | `ReversoInvariante` | `[](IInv /\ RInv)`, if `RespTardias = FALSE` |
| | `CanceladaSiempre`, `CerradaSiempre`, `DesenlaceEstableSiempre` | `[]CanceladaEsAnulada`, `[]CerradaConDesenlace` and `DesenlaceEstable`, if `RespTardias = FALSE` |
| | `SerieInvariante` | `[](IInv /\ RInv /\ SInv)`, if `EnSerie` |
| | `NoSePierdeSiempre`, `Tomada98Siempre`, `FilaConcuerdaSiempre` | `[]NoLostInFlight`, `[]Tomada98EnUso`, `[]FilaConcuerda`, if `EnSerie` |
| | `ContadaSiempre` | `[]ContadaAplicada`, if `EnSerie` and `MaxCaidas <= 1` |
| | `DesenlaceSiempre` | `ImplementaDesenlace`, the refinement, if `EnSerie` and `MaxCaidas <= 1` |
| `FechaTotalesProofs` (762) | `TipoCorrecto` | `[]TypeOK` |
| | `UnaVezSiempre`, `CaidaTotalizadaSiempre`, `ClaveUnicaSiempre` | the three invariants of the run `Fechas` |
| | `MarcasSiguenSiempre`, `FechaContableSiempre`, `SoloLaUltimaSiempre` | one record at most is after the marks of the totals; a teller posts on the date of the opening; what a step totalises is the last record |
| `DiaDeCajaProofs` (595) | `CajaSiempre`, `SaldoConservadoSiempre`, `RendidoFielSiempre`, `LimpiaRendidoSiempre` | the four properties of the run `Caja` |
| `ReentryProofs` (1427) | `ReenvioSiempre` | the inductive invariant |
| | `ReenvioInvSiempre`, `UnaVezSiempre`, `EntradaTrasSalidaSiempre`, `PedidoSeLimpiaSiempre` | the four safety properties of the run `Reenvio` |
| `ConsultaOperadorProofs` (395) | `ConsultaSiempre`, `RespuestaDelConsultadoSiempre` | where the number of each question is; `[]RespuestaDelConsultado` |
| `CsrProofs` (4432) | `ArchivosInvariante`, `ArchivosSiempre`, `EscritoEstaSiempre`, `LineaEnteraSiempre` | the inductive invariant and the three properties of the run `Archivos` |
| | `SpecTran_TInv` | the inductive invariant of the slots |
| | `SpecTran_DriverInv`, `SpecTran_SinBasura`, `SpecTran_NoPisa` | the three properties of the run `Driver` |
| `TotalesJournalProofs` (2611) | `Spec_MarcasInv`, `Spec_UnaReversa`, `Spec_ReconstruccionExacta`, `Spec_CadaPaso` | the four properties of the run `Totales` |
| `SupervisionRemotaProofs` (4554) | `IndicadorNuncaSolo` | `[](TypeOK /\ IndicadorConPendientes)` |
| | `InvarianteSupervision` | the inductive invariant, if `SinVuelta` |
| | `SupervisionSegura`, `GrantDelPedido`, `NingunaEsperaVana`, `BorradoDecidido` | the four safety properties of the run `Ovr`, if `SinVuelta` |
| | `NumeroPropio` | `[]NumeroUnico`, if `SinVuelta` |

### Falls

`CaidasInv` states four invariants, each relying on the ones before it.

`IInv` is inductive without any hypothesis. That nothing is totalled twice needs that the totals
never run ahead of the journal (`JournalAlDia`), that the transaction being closed lies beyond
the sequence of the totals (`TrxEnCurso`), and that nothing beyond it is counted
(`CuentaAlDia`): then `Cierra` and `jnl_init_resync`, which both add one, do it for a
transaction with count 0. That the sequence is up to date after a recovery needs that a
reversal takes the number after the last record. One recoverer per row needs that a row
of the operator carries 98 or is `solo`, and a row of the batch carries 99 and is not
(`FilasTomadas`), which the freeing of rows preserves only because of the assumption on the clock
in section 2.

`RInv` ties the journal to the host. The batch is free and anything may crash; what it needs is
that an answer is for the wait that reads it (`Correo`), which is `RespTardias = FALSE`. With it,
what a recovery is about to write is what the host did (`DesenlaceOp`, `DesenlaceRt`), a row has
no outcome before its journal record (`FilaDebida`, whose second half is `CerradaConDesenlace`), and
so no outcome is false and none is rewritten.

`SInv` says who owes what of every transaction: a row is to be recovered, waits for a login, is in
the hands of the teller or of the batch, or is closed (`FilaSana`, four named phases), and what
the host has applied, or may still apply, is never out of sight (`NadaPerdido`). It needs
`EnSerie`, and TLC shows that it needs each part: with `PosibleOff` FALSE a row gets a status its
journal record has not; a batch that dies with a 99 has it freed with 104, and the next round
deletes the row for want of a record; a batch beside a transaction deletes the row before the
close. The teller may die any number of times.

`CInv` adds what one crash gives: no login finds a record another login began to examine
(`SinCerrarAun`), so that what is totalled a second time over was applied. With two crashes
`ContadaAplicada` is false (section 5).

`DesenlaceSiempre` is the step simulation. A step changes the journal record, the row, the count
and the host of one transaction (`Actor`, `ActorUnico`); for that one, a lemma per phase
(`DesdeNueva`, `DesdeDebe`, `DesdeAbierta`, `DesdeElFinal`) says to which phase of `Desenlace` it may go, and
`FaseQuieta` that the others stay; `HostMueve` does the same for the host. `DInv` is what the
simulation needs besides: that one row is with the teller and one with the batch at most. The
attempt showed that two guards of the first definition of `FaseDe` overlapped, so that the phase
of a transaction without send routine depended on a choice; the definition now has one order.

Each file is laid out as: lemmas on types of functional updates; which actions leave which
variables alone; then, per conjunct of the invariant, one lemma with a step per action that can
disturb it; initial state, inductive step; the theorems.

### The other modules

`FechaTotalesProofs`: the invariant adds to the types and to the place of the marks (`MarcasAlDia`: on
the last record, or on the one before with the last pending) the order of the journal by date and
sequence (`Orden`), what the station's own date and sequence owe to the marks (`Estacion`) and what
is already counted (`Cuentas`). The order makes the record that `Ultimo` finds the last of the
journal under both orders of the context, and the pending one then is the only one a sign-on can
take. It holds while no transaction has an earlier date; no step makes that true
again once it is false, so `SinAnterior => IInv` is preserved by every step (LEMMA `Invariante`),
and the types are proved without it.

`DiaDeCajaProofs`: `CajaInv` is inductive as it stands in `DiaDeCaja`, and is checked by the run. Two
locks keep the treasurer out of a day in use (`Candados`); the dates of the two records and of the
station are in order (`Fechas`); nothing is pending between days (`NoSobra`); and as long as the
day is not one of the cases of section 5 (`Sano`) what each record holds, and what the step in
course has read, is the cash of the drawer (`RendicionSana`, `TotalesSanos`, `PasoSano`).

`ReentryProofs`: a record is in the hands of one station (`Candado`, `EnManos`); an entry in hand has
its exit settled (`EntradasEnMano`); a record without answer was applied once per crash at most
(`Aplicadas`); the totals and the movements lack only what the station that has the record is
about to write (`Totales`, `Movimientos`); and the counter covers the records of the selection
(`Contados`), which is what `PedidoSeLimpia` rests on. That two stations never take one record uses
the lock of FINDFIRST.

`ConsultaOperadorProofs`: the number of a question is in at most one of the two queues and the flag
(`UnSoloLugar`), and one that is nowhere was lost or read (`TodasDebidas`).

`CsrProofs`, files: a path that is open exists, and who writes it has it alone (`UnEscritor`), so that
what waits for a path is one buffer; `Escritura` is the common form of a line, a flush, a close and
the library's own moment, proved once (`PasoEscritor`). For `LineaEntera`, a line is a piece of what
is left of the file (`Linea_`), and the letters of a line that has its end are those without
its last character (`SinFinal`).

`CsrProofs`, transactions: none of the three properties is inductive. That there are as many slots
in use as levels says nothing of which slot an end frees, and that the fields of an ended level are
clear needs its list to be in the slot its start took. `TInv` says four things, each for as long as it
is true. Whatever the routines do, slot 0 and only slot 0 is the desktop's, an empty slot lists nothing, the
list in use is that of a slot in use, and a field is marked when it is in a list and in one only
(`ModuloBien`); the levels of the driver have different names (`PilasBien`). Until a bracket is left
open or a start finds no slot, there is a slot for each level with its name, a different one each, and no
others (`Reparto`); when two levels have one name the end frees the first slot with it, so that the
survivor may keep the slot of the other, and the assignment is an existential. Until a bracket is
closed, the slots are in the order of the levels, no field has a writer above the level that runs, and a
field first written at a level above the desktop is in the list of that level (`EnOrden`). `NoPisa` follows step by step
(`ConservaPaso`): the end of a level frees the last slot of `EnOrden`, which is the first with its
name because of the guard of the property. The proof found that guard too narrow as first stated: it asked
only that the name be none of the driver's levels, and two brackets of one name, one inside the other, free each
other's slot. `TInv` was checked with TLC at the bounds of `Driver` and with three brackets
(1.4 million states) before it was proved; the run checks its consequences.

`TotalesJournalProofs`: `MarcasInv` and `UnaReversa` are inductive together (`IInv`): a transaction that can be
corrected has had one correction less than the crashes allow (`Corregible`), the pending mark is that of the
last record, and the reentry answers nothing before what it corrects. `ReconstruccionExacta` needs no step: in
a state where the invariant holds, the rebuild and `Contado` are sums over the same records, and
what is left is that a loop over the journal and one over the members of a list give the sum. The
sum of a bucket up to each record is equal in both, by induction on the record. `CadaPaso` takes one lemma for
each kind of step: a new transaction, a correction, its mark, an answer at the reentry (`NuevaTotales`,
`CorreccionTotales`, `MarcaTotales`, `ReentraTotales`). The bucket of the
initial cash, which its list replaces and does not add to, is right in every state (`InicialAlDia`).

The loops of the code are recursive functions, not recursive operators nor folds, which lets the provers
expand one step of them (`Bucle`). Induction over their index comes from the well-foundedness of the
naturals (`WFMin` of the library, which takes a set and not an operator): a set of indices that
has 0 and the next of each of its elements has all of them (`InduccionHasta`).

`SupervisionRemotaProofs`: `IInv` follows a request from the teller that makes it to the grant he uses.
A request on its way has not reached any list, screen or grant (`Camino`); in a list a number, and
a request, is there once, and no number is ahead of the counter (`Numeros`); the screen shows one of the list, or
one whose teller took it back (`Pantalla`). A teller in the wait is in one of three phases: the
request or its acknowledge is on its way (`EsperaCamino`), it is in the list or on the screen
(`EsperaLista`), or it was answered (`EsperaRespuesta`). The grants that are still to be read are
given and not used, and to each corresponds one message or flag (`Cuenta`): the count of
`UnaPorConcesion` is an injection, kept by every step (`Respuestas` says which request each answer is
of). `Indicador` is inductive with the types alone.

`SinVuelta` (`MaxPedidos < Ciclo`) is the hypothesis that no station has numbered 65535 requests since it
was started; the run `Ovr` satisfies it. It is needed: when the number of a
new request is that of one still in the list, `saovreq_delete` goes by the number and may take the other,
and the supervisor may then grant one request twice. The program does nothing against it.

### What is only model-checked

* Liveness under fairness (`CaidaResuelta`, `TransaccionTermina`, `PedidoTermina`, `ReentryTermina`), out
  of the prover's reach.
* That two abstractions are right: the closed routines of the interpreter (`clr_fld_list`,
  `add_field_rec`) and the host are modelled from their use, and the theorems are about the model.

Every invariant and every action property of a passing run is stated by a theorem; the ones that need a hypothesis of
their own (`EnSerie`, `RespTardias = FALSE`, `MaxCaidas <= 1`, `SinVuelta`) have it because without it they are
false, and section 5 or the paragraphs above say in which behaviour.

## 8. What is not modelled, and the plan

* Inside the modelled components: the header V1.05 with its own matching of answers (status 112),
  the variants of the fall for massive giros and Pago Facil, the international giros whose
  refusals come in another field, the second send of a transaction after a grant
  (`JNLtran:264`), signature reentries, linked and multiple transactions, failures of the data
  base (returns -1).
* Rows of other days: recoveries filter by date, the model of the falls has one day.
* The rest of the run time in C: check digits and ranges (sequential text algorithms without
  state), the calculator (decimal and floating-point conversions of a closed library), plain
  lists over the compiled dictionary, whose format is closed, and windows, printing, DDE and
  terminal emulation, which are input and output.
* The other components of section 1, for the reasons in `PROJECT.json`.

The mapped lines are a small share of the C sources, and will stay so: of these, a half is an old
copy of the other (`src/MOA/src_old`), and most of the rest is the installer, the generator of
dialogs, the user interface and the numeric library. The logic of the branch is in the OFB
files, which have no extension; they are what the map points to.

Done: the falls, their invariants and the refinement; reentry; supervision and queries; the day;
the driver's stack; files; totals and their marks; and the proofs of section 7. Left, in order:

1. composition of supervision with the second send of a transaction (`JNLtran:264`);
2. `CabeceraPF`: header V1.05 and the resends of Pago Facil (status 112, `MISCpfacil_reenvio`);
3. check digits and ranges as functions, against reference definitions.
