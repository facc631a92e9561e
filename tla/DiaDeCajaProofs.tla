-------------------------- MODULE DiaDeCajaProofs --------------------------
(***************************************************************************)
(* The day of a teller, for every number of days, transactions and crashes: *)
(* CajaInv is inductive, and the cash of an open day, of a close and of an  *)
(* opening follow from it.                                                 *)
(***************************************************************************)
EXTENDS DiaDeCaja, TLAPS

USE DiaMaxAssumption

RegTots == [estado : {"A", "O", "C"}, fecha : Dias, efvo : Int, inic : Int]
RegPend == [tran : Trans, fecha : Dias, importe : Int]

\* What the unit of work of a journal record does to the totals.
LEMMA CommitDe ==
    ASSUME NEW t \in RegTots, NEW r \in RegPend, NEW d
    PROVE  /\ TOTScommit(t, r, d) \in RegTots
           /\ TOTScommit(t, r, d).fecha = r.fecha
           /\ r.tran \in {"OPENDAY", "REOPENCA"} =>
                /\ TOTScommit(t, r, d).estado = "C"
                /\ d # "REOPENCA" => TOTScommit(t, r, d).efvo = 0 /\ TOTScommit(t, r, d).inic = 0
                /\ d = "REOPENCA" => /\ TOTScommit(t, r, d).efvo = t.efvo
                                     /\ TOTScommit(t, r, d).inic = t.inic
           /\ r.tran = "CARGA" => /\ TOTScommit(t, r, d).estado = t.estado
                                  /\ TOTScommit(t, r, d).efvo = t.efvo
                                  /\ TOTScommit(t, r, d).inic = r.importe
           /\ r.tran = "CLOSEDAY" => /\ TOTScommit(t, r, d).estado = "C"
                                     /\ TOTScommit(t, r, d).efvo = t.efvo
                                     /\ TOTScommit(t, r, d).inic = t.inic
           /\ r.tran = "OP" => /\ TOTScommit(t, r, d).estado = t.estado
                               /\ TOTScommit(t, r, d).efvo = t.efvo + r.importe
                               /\ TOTScommit(t, r, d).inic = t.inic
<1> DEFINE Son(u, e, x, i) ==
              u \in RegTots /\ u.estado = e /\ u.efvo = x /\ u.inic = i
<1>1. CASE r.tran \in {"OPENDAY", "REOPENCA"}
  <2> DEFINE u == TOTSopen_day(t, d)
  <2>1. TOTScommit(t, r, d) = [u EXCEPT !.fecha = r.fecha]
      BY <1>1 DEF TOTScommit
  <2>2. CASE d = "REOPENCA"
    <3>1. Son(u, "C", t.efvo, t.inic)
        BY <2>2 DEF TOTSopen_day, RegTots
    <3> HIDE DEF u
    <3> QED
        BY <1>1, <2>1, <2>2, <3>1 DEF RegTots, RegPend
  <2>3. CASE d # "REOPENCA"
    <3> DEFINE a == [t EXCEPT !.estado = "C"]
               b == [a EXCEPT !.efvo = 0]
    <3>a. a \in RegTots /\ a.estado = "C"
        BY DEF RegTots
    <3> HIDE DEF a
    <3>b. b \in RegTots /\ b.estado = "C" /\ b.efvo = 0
        BY <3>a DEF RegTots
    <3>c. u = [b EXCEPT !.inic = 0]
        BY <2>3 DEF TOTSopen_day, a
    <3> HIDE DEF b, u
    <3>1. Son(u, "C", 0, 0)
        BY <3>b, <3>c DEF RegTots
    <3> QED
        BY <1>1, <2>1, <2>3, <3>1 DEF RegTots, RegPend
  <2> QED
      BY <2>2, <2>3
<1>2. CASE r.tran = "CARGA"
    BY <1>2 DEF TOTScommit, TOTS8800, RegTots, RegPend, Trans
<1>3. CASE r.tran = "CLOSEDAY"
    BY <1>3 DEF TOTScommit, TOTSclose_day, RegTots, RegPend, Trans
<1>4. CASE r.tran = "OP"
  <2> DEFINE u == [t EXCEPT !.efvo = @ + r.importe]
  <2>1. TOTScommit(t, r, d) = [u EXCEPT !.fecha = r.fecha]
      BY <1>4 DEF TOTScommit
  <2>2. Son(u, t.estado, t.efvo + r.importe, t.inic)
      BY DEF RegTots, RegPend
  <2> HIDE DEF u
  <2> QED
      BY <1>4, <2>1, <2>2 DEF RegTots, RegPend
<1> QED
    BY <1>1, <1>2, <1>3, <1>4 DEF RegPend, Trans

\* The sign-on only sets op_node_id.
LEMMA Paso_Identifica == CajaInv /\ Identifica => CajaInv'
<1> SUFFICES ASSUME CajaInv, Identifica PROVE CajaInv'
    OBVIOUS
<1>1. TypeOK'
    BY DEF CajaInv, Identifica, registros, tesorero, TypeOK, Dias, Montos, Casos, Trans
<1>2. ForzadoFuera' /\ Candados'
    BY DEF CajaInv, Identifica, registros, tesorero, TypeOK, ForzadoFuera, Candados, RendLibre, EnCaja, Fechas, Dias, Montos
<1>3. Fechas'
    BY DEF CajaInv, Identifica, registros, tesorero, TypeOK, Fechas, EnCaja, SinPend, Dias, Montos
<1>4. NoSobra'
    BY DEF CajaInv, Identifica, registros, tesorero, TypeOK, Fechas, NoSobra, EnCaja, En, Saldo, SinPend, RendLibre, Dias, Montos
<1>5. Sano' => RendicionSana' /\ TotalesSanos' /\ PasoSano'
    BY DEF CajaInv, Identifica, registros, tesorero, TypeOK, ForzadoFuera, Candados, Fechas, NoSobra, Sano, RendicionSana, TotalesSanos, PasoSano, Abrible, En, Escribiendo, Saldo, SinPend, EnCaja, RendLibre, Trans, Dias, Montos, Casos
<1> QED
    BY <1>1, <1>2, <1>3, <1>4, <1>5 DEF CajaInv

\* An opening starts from a closed day, so the record rendered is Abrible.
LEMMA Paso_PRETopen_day == CajaInv /\ PRETopen_day => CajaInv'
<1> SUFFICES ASSUME CajaInv, PRETopen_day PROVE CajaInv'
    OBVIOUS
<1>1. TypeOK'
    BY DEF CajaInv, PRETopen_day, SinCerrar, YaCerrada, registros, tesorero, TypeOK, Dias, Montos, Casos, Trans
<1>2. ForzadoFuera' /\ Candados'
    BY DEF CajaInv, PRETopen_day, SinCerrar, YaCerrada, registros, tesorero, TypeOK, ForzadoFuera, Candados, RendLibre, EnCaja, Fechas, Dias, Montos
<1>3. Fechas'
    BY DEF CajaInv, PRETopen_day, SinCerrar, YaCerrada, registros, tesorero, TypeOK, Fechas, EnCaja, SinPend, Dias, Montos
<1>4. NoSobra'
    BY DEF CajaInv, PRETopen_day, SinCerrar, YaCerrada, registros, tesorero, TypeOK, Fechas, NoSobra, EnCaja, En, Saldo, SinPend, RendLibre, Dias, Montos
<1>5. Sano' => RendicionSana' /\ TotalesSanos' /\ PasoSano'
    BY DEF CajaInv, PRETopen_day, SinCerrar, YaCerrada, registros, tesorero, TypeOK, ForzadoFuera, Candados, Fechas, NoSobra, Sano, RendicionSana, TotalesSanos, PasoSano, Abrible, En, Escribiendo, Saldo, SinPend, EnCaja, RendLibre, Trans, Dias, Montos, Casos
<1> QED
    BY <1>1, <1>2, <1>3, <1>4, <1>5 DEF CajaInv

\* A dismissed opening leaves Sano; ESC changes no record.
LEMMA Paso_NoAbre == CajaInv /\ NoAbre => CajaInv'
<1> SUFFICES ASSUME CajaInv, NoAbre PROVE CajaInv'
    OBVIOUS
<1>1. TypeOK'
  <2>1. casos' \subseteq Casos
      BY DEF CajaInv, TypeOK, NoAbre, Casos
  <2> QED
      BY <2>1 DEF CajaInv, TypeOK, NoAbre, registros, tesorero
<1>2. ForzadoFuera' /\ Candados'
    BY DEF CajaInv, NoAbre, registros, tesorero, TypeOK, ForzadoFuera, Candados, RendLibre, EnCaja, Fechas, Dias, Montos
<1>3. Fechas'
    BY DEF CajaInv, NoAbre, registros, tesorero, TypeOK, Fechas, EnCaja, SinPend, Dias, Montos
<1>4. NoSobra'
    BY DEF CajaInv, NoAbre, registros, tesorero, TypeOK, Fechas, NoSobra, EnCaja, En, Saldo, SinPend, RendLibre, Dias, Montos
<1>5. Sano' => RendicionSana' /\ TotalesSanos' /\ PasoSano'
    BY DEF CajaInv, NoAbre, registros, tesorero, TypeOK, ForzadoFuera, Candados, Fechas, NoSobra, Sano, RendicionSana, TotalesSanos, PasoSano, Abrible, En, Escribiendo, Saldo, SinPend, EnCaja, RendLibre, Trans, Dias, Montos, Casos
<1> QED
    BY <1>1, <1>2, <1>3, <1>4, <1>5 DEF CajaInv

\* The initial cash is asked with the totals cleared.
LEMMA Paso_TRANcall_efvo_ini == CajaInv /\ TRANcall_efvo_ini => CajaInv'
<1> SUFFICES ASSUME CajaInv, TRANcall_efvo_ini PROVE CajaInv'
    OBVIOUS
<1>1. TypeOK'
    BY DEF CajaInv, TRANcall_efvo_ini, registros, tesorero, TypeOK, Dias, Montos, Casos, Trans
<1>2. ForzadoFuera' /\ Candados'
    BY DEF CajaInv, TRANcall_efvo_ini, registros, tesorero, TypeOK, ForzadoFuera, Candados, RendLibre, EnCaja, Fechas, Dias, Montos
<1>3. Fechas'
    BY DEF CajaInv, TRANcall_efvo_ini, registros, tesorero, TypeOK, Fechas, EnCaja, SinPend, Dias, Montos
<1>4. NoSobra'
    BY DEF CajaInv, TRANcall_efvo_ini, registros, tesorero, TypeOK, Fechas, NoSobra, EnCaja, En, Saldo, SinPend, RendLibre, Dias, Montos
<1>5. Sano' => RendicionSana' /\ TotalesSanos' /\ PasoSano'
    BY DEF CajaInv, TRANcall_efvo_ini, registros, tesorero, TypeOK, ForzadoFuera, Candados, Fechas, NoSobra, Sano, RendicionSana, TotalesSanos, PasoSano, Abrible, En, Escribiendo, Saldo, SinPend, EnCaja, RendLibre, Trans, Dias, Montos, Casos
<1> QED
    BY <1>1, <1>2, <1>3, <1>4, <1>5 DEF CajaInv

\* The record rendered is blanked for the day of the totals.
LEMMA Paso_CDSinit_rend_cajero == CajaInv /\ CDSinit_rend_cajero => CajaInv'
<1> SUFFICES ASSUME CajaInv, CDSinit_rend_cajero PROVE CajaInv'
    OBVIOUS
<1>1. TypeOK'
  <2>1. rend' \in [fecha : Dias, marca : {"no", "X"}, tipo : {"no", "N", "F"}, importe : Montos]
      BY DEF CajaInv, TypeOK, CDSinit_rend_cajero, Dias, Montos
  <2>2. est' \in {"abierta", "opera"}
      BY DEF CDSinit_rend_cajero
  <2> QED
      BY <2>1, <2>2 DEF CajaInv, TypeOK, CDSinit_rend_cajero, tesorero
<1>2. ForzadoFuera' /\ Candados'
    BY DEF CajaInv, CDSinit_rend_cajero, registros, tesorero, TypeOK, ForzadoFuera, Candados, RendLibre, EnCaja, Fechas, Dias, Montos
<1>3. Fechas'
    BY DEF CajaInv, CDSinit_rend_cajero, registros, tesorero, TypeOK, Fechas, EnCaja, SinPend, Dias, Montos
<1>4. NoSobra'
    BY DEF CajaInv, CDSinit_rend_cajero, registros, tesorero, TypeOK, Fechas, NoSobra, EnCaja, En, Saldo, SinPend, RendLibre, Dias, Montos
<1>5. Sano' => RendicionSana' /\ TotalesSanos' /\ PasoSano'
    BY DEF CajaInv, CDSinit_rend_cajero, registros, tesorero, TypeOK, ForzadoFuera, Candados, Fechas, NoSobra, Sano, RendicionSana, TotalesSanos, PasoSano, Abrible, En, Escribiendo, Saldo, SinPend, EnCaja, RendLibre, Trans, Dias, Montos, Casos
<1> QED
    BY <1>1, <1>2, <1>3, <1>4, <1>5 DEF CajaInv

\* The day is open once the totals say so, last of all.
LEMMA Paso_CDSinit_rend_tots == CajaInv /\ CDSinit_rend_tots => CajaInv'
<1> SUFFICES ASSUME CajaInv, CDSinit_rend_tots PROVE CajaInv'
    OBVIOUS
<1>1. TypeOK'
    BY DEF CajaInv, CDSinit_rend_tots, registros, tesorero, TypeOK, Dias, Montos, Casos, Trans
<1>2. ForzadoFuera' /\ Candados'
    BY DEF CajaInv, CDSinit_rend_tots, registros, tesorero, TypeOK, ForzadoFuera, Candados, RendLibre, EnCaja, Fechas, Dias, Montos
<1>3. Fechas'
    BY DEF CajaInv, CDSinit_rend_tots, registros, tesorero, TypeOK, Fechas, EnCaja, SinPend, Dias, Montos
<1>4. NoSobra'
    BY DEF CajaInv, CDSinit_rend_tots, registros, tesorero, TypeOK, Fechas, NoSobra, EnCaja, En, Saldo, SinPend, RendLibre, Dias, Montos
<1>5. Sano' => RendicionSana' /\ TotalesSanos' /\ PasoSano'
    BY DEF CajaInv, CDSinit_rend_tots, registros, tesorero, TypeOK, ForzadoFuera, Candados, Fechas, NoSobra, Sano, RendicionSana, TotalesSanos, PasoSano, Abrible, En, Escribiendo, Saldo, SinPend, EnCaja, RendLibre, Trans, Dias, Montos, Casos
<1> QED
    BY <1>1, <1>2, <1>3, <1>4, <1>5 DEF CajaInv

\* The journal record has the amount the totals still miss.
LEMMA Paso_JNLprelog_tran == CajaInv /\ JNLprelog_tran => CajaInv'
<1> SUFFICES ASSUME CajaInv, JNLprelog_tran PROVE CajaInv'
    OBVIOUS
<1>1. TypeOK'
  <2>1. Importe(tran) \in Montos
      BY DEF CajaInv, TypeOK, JNLprelog_tran, Importe, CargaInicial, NoSobra, Montos, En, Trans
  <2>2. caja' \in Montos
      BY DEF CajaInv, TypeOK, JNLprelog_tran, NoSobra, Montos, En
  <2>3. pend' \in [tran : Trans, fecha : Dias, importe : Montos]
      BY <2>1 DEF CajaInv, TypeOK, JNLprelog_tran, Dias
  <2> QED
      BY <2>2, <2>3 DEF CajaInv, TypeOK, JNLprelog_tran, tesorero
<1>2. ForzadoFuera' /\ Candados'
    BY DEF CajaInv, JNLprelog_tran, registros, tesorero, TypeOK, ForzadoFuera, Candados, RendLibre, EnCaja, Fechas, Dias, Montos
<1>3. Fechas'
  <2>1. pend'.tran = tran /\ pend'.fecha = dia
      BY DEF JNLprelog_tran
  <2> QED
      BY <2>1 DEF CajaInv, JNLprelog_tran, TypeOK, Fechas, EnCaja, Dias
<1>4. NoSobra'
  <2>1. pend'.tran = tran /\ pend'.importe = Importe(tran) /\ caja' = IF tran = "OP" THEN caja + 1 ELSE caja
      BY DEF JNLprelog_tran
  <2>2. tran = "OP" => Importe(tran) = 1
      BY DEF Importe
  <2>3. tran = "CARGA" => Importe(tran) <= caja
      BY DEF CajaInv, TypeOK, NoSobra, Importe, CargaInicial, Montos
  <2> QED
      BY <2>1, <2>2, <2>3
         DEF CajaInv, TypeOK, JNLprelog_tran, NoSobra, Montos, En, Saldo, tesorero
<1>5. Sano' => RendicionSana' /\ TotalesSanos' /\ PasoSano'
  <2> SUFFICES ASSUME Sano' PROVE RendicionSana' /\ TotalesSanos' /\ PasoSano'
      OBVIOUS
  <2>1. RendicionSana /\ TotalesSanos /\ PasoSano
      BY DEF CajaInv, JNLprelog_tran, Sano
  <2>2. /\ pend'.tran = tran /\ pend'.fecha = dia /\ pend'.importe = Importe(tran)
        /\ caja' = IF tran = "OP" THEN caja + 1 ELSE caja
        /\ pend.tran = "OP" /\ pend.importe = 0
      BY DEF CajaInv, Fechas, EnCaja, SinPend, JNLprelog_tran
  <2>3. /\ tran = "OP" => Importe(tran) = 1
        /\ tran = "CLOSEDAY" => Importe(tran) = 0
        /\ tran = "CARGA" => Importe(tran) = caja
      BY <2>1 DEF Importe, CargaInicial, RendicionSana, PasoSano, Abrible, En, Escribiendo, JNLprelog_tran
  <2>4. RendicionSana'
      BY <2>1, <2>2 DEF CajaInv, TypeOK, RendicionSana, PasoSano, TotalesSanos, En, Escribiendo, JNLprelog_tran, Dias, Montos
  <2>5. TotalesSanos'
    <3>1. Saldo' = Saldo /\ tran # "OP" => caja' = caja
        BY <2>2 DEF Saldo, JNLprelog_tran
    <3> QED
        BY <2>1, <2>2, <2>3, <3>1
           DEF CajaInv, TypeOK, TotalesSanos, PasoSano, Abrible, En, Escribiendo, Saldo, JNLprelog_tran, Trans, Dias, Montos
  <2>6. PasoSano'
      BY <2>1, <2>2, <2>3
         DEF CajaInv, TypeOK, PasoSano, Abrible, En, Escribiendo, Saldo, JNLprelog_tran, tesorero, Trans, Dias, Montos
  <2> QED
      BY <2>4, <2>5, <2>6
<1> QED
    BY <1>1, <1>2, <1>3, <1>4, <1>5 DEF CajaInv

\* A transaction begins only in an open day.
LEMMA Paso_Opera == CajaInv /\ Opera => CajaInv'
<1> SUFFICES ASSUME CajaInv, Opera PROVE CajaInv'
    OBVIOUS
<1>1. TypeOK'
    BY DEF CajaInv, Opera, PRETopen_req, registros, tesorero, TypeOK, Dias, Montos, Casos, Trans
<1>2. ForzadoFuera' /\ Candados'
    BY DEF CajaInv, Opera, PRETopen_req, registros, tesorero, TypeOK, ForzadoFuera, Candados, RendLibre, EnCaja, Fechas, Dias, Montos
<1>3. Fechas'
    BY DEF CajaInv, Opera, PRETopen_req, registros, tesorero, TypeOK, Fechas, EnCaja, SinPend, Dias, Montos
<1>4. NoSobra'
    BY DEF CajaInv, Opera, PRETopen_req, registros, tesorero, TypeOK, Fechas, NoSobra, EnCaja, En, Saldo, SinPend, RendLibre, Dias, Montos
<1>5. Sano' => RendicionSana' /\ TotalesSanos' /\ PasoSano'
    BY DEF CajaInv, Opera, PRETopen_req, registros, tesorero, TypeOK, ForzadoFuera, Candados, Fechas, NoSobra, Sano, RendicionSana, TotalesSanos, PasoSano, Abrible, En, Escribiendo, Saldo, SinPend, EnCaja, RendLibre, Trans, Dias, Montos, Casos
<1> QED
    BY <1>1, <1>2, <1>3, <1>4, <1>5 DEF CajaInv

\* The close renders the totals, which are what is in the drawer.
LEMMA Paso_SENDclose_day == CajaInv /\ SENDclose_day => CajaInv'
<1> SUFFICES ASSUME CajaInv, SENDclose_day PROVE CajaInv'
    OBVIOUS
<1>1. TypeOK'
  <2>1. tots.inic + tots.efvo \in Montos
      BY DEF CajaInv, TypeOK, NoSobra, Saldo, Montos
  <2>2. rend' \in [fecha : Dias, marca : {"no", "X"}, tipo : {"no", "N", "F"}, importe : Montos]
      BY <2>1 DEF CajaInv, TypeOK, SENDclose_day
  <2> QED
      BY <2>2 DEF CajaInv, TypeOK, SENDclose_day, Trans, tesorero
<1>2. ForzadoFuera' /\ Candados'
    BY DEF CajaInv, SENDclose_day, PRETopen_req, registros, tesorero, TypeOK, ForzadoFuera, Candados, RendLibre, EnCaja, Fechas, Dias, Montos
<1>3. Fechas'
    BY DEF CajaInv, SENDclose_day, PRETopen_req, registros, tesorero, TypeOK, Fechas, EnCaja, SinPend, Dias, Montos
<1>4. NoSobra'
    BY DEF CajaInv, SENDclose_day, PRETopen_req, registros, tesorero, TypeOK, Fechas, NoSobra, EnCaja, En, Saldo, SinPend, RendLibre, Dias, Montos
<1>5. Sano' => RendicionSana' /\ TotalesSanos' /\ PasoSano'
    BY DEF CajaInv, SENDclose_day, PRETopen_req, registros, tesorero, TypeOK, ForzadoFuera, Candados, Fechas, NoSobra, Sano, RendicionSana, TotalesSanos, PasoSano, Abrible, En, Escribiendo, Saldo, SinPend, EnCaja, RendLibre, Trans, Dias, Montos, Casos
<1> QED
    BY <1>1, <1>2, <1>3, <1>4, <1>5 DEF CajaInv

\* The end of the application releases the totals.
LEMMA Paso_APPLterm == CajaInv /\ APPLterm => CajaInv'
<1> SUFFICES ASSUME CajaInv, APPLterm PROVE CajaInv'
    OBVIOUS
<1>1. TypeOK'
    BY DEF CajaInv, APPLterm, registros, tesorero, TypeOK, Dias, Montos, Casos, Trans
<1>2. ForzadoFuera' /\ Candados'
    BY DEF CajaInv, APPLterm, registros, tesorero, TypeOK, ForzadoFuera, Candados, RendLibre, EnCaja, Fechas, Dias, Montos
<1>3. Fechas'
    BY DEF CajaInv, APPLterm, registros, tesorero, TypeOK, Fechas, EnCaja, SinPend, Dias, Montos
<1>4. NoSobra'
    BY DEF CajaInv, APPLterm, registros, tesorero, TypeOK, Fechas, NoSobra, EnCaja, En, Saldo, SinPend, RendLibre, Dias, Montos
<1>5. Sano' => RendicionSana' /\ TotalesSanos' /\ PasoSano'
    BY DEF CajaInv, APPLterm, registros, tesorero, TypeOK, ForzadoFuera, Candados, Fechas, NoSobra, Sano, RendicionSana, TotalesSanos, PasoSano, Abrible, En, Escribiendo, Saldo, SinPend, EnCaja, RendLibre, Trans, Dias, Montos, Casos
<1> QED
    BY <1>1, <1>2, <1>3, <1>4, <1>5 DEF CajaInv

\* The sign-off only clears op_node_id.
LEMMA Paso_TRANlog_out == CajaInv /\ TRANlog_out => CajaInv'
<1> SUFFICES ASSUME CajaInv, TRANlog_out PROVE CajaInv'
    OBVIOUS
<1>1. TypeOK'
  <2>1. TypeOK
    BY DEF CajaInv
  <2>2. /\ est' = "fuera" /\ node' = FALSE
        /\ UNCHANGED <<dia, tots, rend, pend, tran, tes, copia, caja, casos, ops, caidas>>
    BY DEF TRANlog_out, tesorero
  <2> QED BY <2>1, <2>2 DEF TypeOK
<1>2. ForzadoFuera' /\ Candados'
  <2>1. ForzadoFuera'
    BY DEF CajaInv, TRANlog_out, registros, tesorero, TypeOK, ForzadoFuera, Fechas, Dias
  <2>2. Candados'
    BY DEF CajaInv, TRANlog_out, registros, tesorero, TypeOK, Candados, RendLibre, EnCaja, Dias, Montos
  <2> QED BY <2>1, <2>2
<1>3. Fechas'
    BY DEF CajaInv, TRANlog_out, registros, tesorero, TypeOK, Fechas, EnCaja, SinPend, Dias, Montos
<1>4. NoSobra'
    BY DEF CajaInv, TRANlog_out, registros, tesorero, TypeOK, Fechas, NoSobra, EnCaja, En, Saldo, SinPend, RendLibre, Dias, Montos
<1>5. Sano' => RendicionSana' /\ TotalesSanos' /\ PasoSano'
    BY DEF CajaInv, TRANlog_out, registros, tesorero, TypeOK, ForzadoFuera, Candados, Fechas, NoSobra, Sano, RendicionSana, TotalesSanos, PasoSano, Abrible, En, Escribiendo, Saldo, SinPend, EnCaja, RendLibre, Trans, Dias, Montos, Casos
<1> QED
    BY <1>1, <1>2, <1>3, <1>4, <1>5 DEF CajaInv

\* The treasurer looks at the operator: no record changes.
LEMMA Paso_VerificaOperador == CajaInv /\ VerificaOperador => CajaInv'
<1> SUFFICES ASSUME CajaInv, VerificaOperador PROVE CajaInv'
    OBVIOUS
<1>1. TypeOK'
    BY DEF CajaInv, VerificaOperador, registros, tesorero, TypeOK, Dias, Montos, Casos, Trans
<1>2. ForzadoFuera' /\ Candados'
    BY DEF CajaInv, VerificaOperador, registros, tesorero, TypeOK, ForzadoFuera, Candados, RendLibre, EnCaja, Fechas, Dias, Montos
<1>3. Fechas'
    BY DEF CajaInv, VerificaOperador, registros, tesorero, TypeOK, Fechas, EnCaja, SinPend, Dias, Montos
<1>4. NoSobra'
    BY DEF CajaInv, VerificaOperador, registros, tesorero, TypeOK, Fechas, NoSobra, EnCaja, En, Saldo, SinPend, RendLibre, Dias, Montos
<1>5. Sano' => RendicionSana' /\ TotalesSanos' /\ PasoSano'
    BY DEF CajaInv, VerificaOperador, registros, tesorero, TypeOK, ForzadoFuera, Candados, Fechas, NoSobra, Sano, RendicionSana, TotalesSanos, PasoSano, Abrible, En, Escribiendo, Saldo, SinPend, EnCaja, RendLibre, Trans, Dias, Montos, Casos
<1> QED
    BY <1>1, <1>2, <1>3, <1>4, <1>5 DEF CajaInv

\* The treasurer locks the record rendered of a day not closed.
LEMMA Paso_LeeRendicion == CajaInv /\ LeeRendicion => CajaInv'
<1> SUFFICES ASSUME CajaInv, LeeRendicion PROVE CajaInv'
    OBVIOUS
<1>1. TypeOK'
    BY DEF CajaInv, LeeRendicion, registros, tesorero, TypeOK, Dias, Montos, Casos, Trans
<1>2. ForzadoFuera' /\ Candados'
    BY DEF CajaInv, LeeRendicion, registros, tesorero, TypeOK, ForzadoFuera, Candados, RendLibre, EnCaja, Fechas, Dias, Montos
<1>3. Fechas'
    BY DEF CajaInv, LeeRendicion, registros, tesorero, TypeOK, Fechas, EnCaja, SinPend, Dias, Montos
<1>4. NoSobra'
    BY DEF CajaInv, LeeRendicion, registros, tesorero, TypeOK, Fechas, NoSobra, EnCaja, En, Saldo, SinPend, RendLibre, Dias, Montos
<1>5. Sano' => RendicionSana' /\ TotalesSanos' /\ PasoSano'
    BY DEF CajaInv, LeeRendicion, registros, tesorero, TypeOK, ForzadoFuera, Candados, Fechas, NoSobra, Sano, RendicionSana, TotalesSanos, PasoSano, Abrible, En, Escribiendo, Saldo, SinPend, EnCaja, RendLibre, Trans, Dias, Montos, Casos
<1> QED
    BY <1>1, <1>2, <1>3, <1>4, <1>5 DEF CajaInv

\* The totals are marked while the teller is out of his application.
LEMMA Paso_MarcaTotales == CajaInv /\ MarcaTotales => CajaInv'
<1> SUFFICES ASSUME CajaInv, MarcaTotales PROVE CajaInv'
    OBVIOUS
<1>1. TypeOK'
  <2>1. tots.inic + tots.efvo \in Montos
      BY DEF CajaInv, TypeOK, NoSobra, Saldo, Montos
  <2>2. tots' \in [estado : {"A", "O", "C"}, fecha : Dias, efvo : Montos, inic : Montos]
      BY DEF CajaInv, TypeOK, MarcaTotales
  <2>3. copia' \in Montos /\ tes' \in {"libre", "marca"} /\ casos' \subseteq Casos
      BY <2>1 DEF CajaInv, TypeOK, MarcaTotales, Casos
  <2> QED
      BY <2>2, <2>3 DEF CajaInv, TypeOK, MarcaTotales
<1>2. ForzadoFuera' /\ Candados'
    BY DEF CajaInv, MarcaTotales, TotalesOcupados, registros, tesorero, TypeOK, ForzadoFuera, Candados, RendLibre, EnCaja, Fechas, Dias, Montos
<1>3. Fechas'
    BY DEF CajaInv, MarcaTotales, TotalesOcupados, registros, tesorero, TypeOK, Fechas, EnCaja, SinPend, Dias, Montos
<1>4. NoSobra'
    BY DEF CajaInv, MarcaTotales, TotalesOcupados, registros, tesorero, TypeOK, Fechas, NoSobra, EnCaja, En, Saldo, SinPend, RendLibre, Dias, Montos
<1>5. Sano' => RendicionSana' /\ TotalesSanos' /\ PasoSano'
    BY DEF CajaInv, MarcaTotales, TotalesOcupados, registros, tesorero, TypeOK, ForzadoFuera, Candados, Fechas, NoSobra, Sano, RendicionSana, TotalesSanos, PasoSano, Abrible, En, Escribiendo, Saldo, SinPend, EnCaja, RendLibre, Trans, Dias, Montos, Casos
<1> QED
    BY <1>1, <1>2, <1>3, <1>4, <1>5 DEF CajaInv

\* The forced close renders the copy of the totals.
LEMMA Paso_MarcaRendicion == CajaInv /\ MarcaRendicion => CajaInv'
<1> SUFFICES ASSUME CajaInv, MarcaRendicion PROVE CajaInv'
    OBVIOUS
<1>1. TypeOK'
  <2>1. rend' \in [fecha : Dias, marca : {"no", "X"}, tipo : {"no", "N", "F"}, importe : Montos]
      BY DEF CajaInv, TypeOK, MarcaRendicion
  <2> QED
      BY <2>1 DEF CajaInv, TypeOK, MarcaRendicion, Montos
<1>2. ForzadoFuera' /\ Candados'
    BY DEF CajaInv, MarcaRendicion, registros, tesorero, TypeOK, ForzadoFuera, Candados, RendLibre, EnCaja, Fechas, Dias, Montos
<1>3. Fechas'
    BY DEF CajaInv, MarcaRendicion, registros, tesorero, TypeOK, Fechas, EnCaja, SinPend, Dias, Montos
<1>4. NoSobra'
    BY DEF CajaInv, MarcaRendicion, registros, tesorero, TypeOK, Fechas, NoSobra, EnCaja, En, Saldo, SinPend, RendLibre, Dias, Montos
<1>5. Sano' => RendicionSana' /\ TotalesSanos' /\ PasoSano'
    BY DEF CajaInv, MarcaRendicion, registros, tesorero, TypeOK, ForzadoFuera, Candados, Fechas, NoSobra, Sano, RendicionSana, TotalesSanos, PasoSano, Abrible, En, Escribiendo, Saldo, SinPend, EnCaja, RendLibre, Trans, Dias, Montos, Casos
<1> QED
    BY <1>1, <1>2, <1>3, <1>4, <1>5 DEF CajaInv

\* A crash of the teller's station leaves the records as they are.
LEMMA Paso_CaeCajero == CajaInv /\ CaeCajero => CajaInv'
<1> SUFFICES ASSUME CajaInv, CaeCajero PROVE CajaInv'
    OBVIOUS
<1>1. TypeOK'
    BY DEF CajaInv, CaeCajero, registros, tesorero, TypeOK, Dias, Montos, Casos, Trans
<1>2. ForzadoFuera' /\ Candados'
    BY DEF CajaInv, CaeCajero, registros, tesorero, TypeOK, ForzadoFuera, Candados, RendLibre, EnCaja, Fechas, Dias, Montos
<1>3. Fechas'
    BY DEF CajaInv, CaeCajero, registros, tesorero, TypeOK, Fechas, EnCaja, SinPend, Dias, Montos
<1>4. NoSobra'
    BY DEF CajaInv, CaeCajero, registros, tesorero, TypeOK, Fechas, NoSobra, EnCaja, En, Saldo, SinPend, RendLibre, Dias, Montos
<1>5. Sano' => RendicionSana' /\ TotalesSanos' /\ PasoSano'
    BY DEF CajaInv, CaeCajero, registros, tesorero, TypeOK, ForzadoFuera, Candados, Fechas, NoSobra, Sano, RendicionSana, TotalesSanos, PasoSano, Abrible, En, Escribiendo, Saldo, SinPend, EnCaja, RendLibre, Trans, Dias, Montos, Casos
<1> QED
    BY <1>1, <1>2, <1>3, <1>4, <1>5 DEF CajaInv

\* A crash of the treasurer's station leaves the totals marked alone.
LEMMA Paso_CaeTesorero == CajaInv /\ CaeTesorero => CajaInv'
<1> SUFFICES ASSUME CajaInv, CaeTesorero PROVE CajaInv'
    OBVIOUS
<1>1. TypeOK'
    BY DEF CajaInv, CaeTesorero, registros, tesorero, TypeOK, Dias, Montos, Casos, Trans
<1>2. ForzadoFuera' /\ Candados'
    BY DEF CajaInv, CaeTesorero, registros, tesorero, TypeOK, ForzadoFuera, Candados, RendLibre, EnCaja, Fechas, Dias, Montos
<1>3. Fechas'
    BY DEF CajaInv, CaeTesorero, registros, tesorero, TypeOK, Fechas, EnCaja, SinPend, Dias, Montos
<1>4. NoSobra'
    BY DEF CajaInv, CaeTesorero, registros, tesorero, TypeOK, Fechas, NoSobra, EnCaja, En, Saldo, SinPend, RendLibre, Dias, Montos
<1>5. Sano' => RendicionSana' /\ TotalesSanos' /\ PasoSano'
    BY DEF CajaInv, CaeTesorero, registros, tesorero, TypeOK, ForzadoFuera, Candados, Fechas, NoSobra, Sano, RendicionSana, TotalesSanos, PasoSano, Abrible, En, Escribiendo, Saldo, SinPend, EnCaja, RendLibre, Trans, Dias, Montos, Casos
<1> QED
    BY <1>1, <1>2, <1>3, <1>4, <1>5 DEF CajaInv

\* The records of a day are of a past day on the next.
LEMMA Paso_NuevoDia == CajaInv /\ NuevoDia => CajaInv'
<1> SUFFICES ASSUME CajaInv, NuevoDia PROVE CajaInv'
    OBVIOUS
<1>1. TypeOK'
    BY DEF CajaInv, NuevoDia, registros, tesorero, TypeOK, Dias, Montos, Casos, Trans
<1>2. ForzadoFuera' /\ Candados'
    BY DEF CajaInv, NuevoDia, registros, tesorero, TypeOK, ForzadoFuera, Candados, RendLibre, EnCaja, Fechas, Dias, Montos
<1>3. Fechas'
    BY DEF CajaInv, NuevoDia, registros, tesorero, TypeOK, Fechas, EnCaja, SinPend, Dias, Montos
<1>4. NoSobra'
    BY DEF CajaInv, NuevoDia, registros, tesorero, TypeOK, Fechas, NoSobra, EnCaja, En, Saldo, SinPend, RendLibre, Dias, Montos
<1>5. Sano' => RendicionSana' /\ TotalesSanos' /\ PasoSano'
    BY DEF CajaInv, NuevoDia, registros, tesorero, TypeOK, ForzadoFuera, Candados, Fechas, NoSobra, Sano, RendicionSana, TotalesSanos, PasoSano, Abrible, En, Escribiendo, Saldo, SinPend, EnCaja, RendLibre, Trans, Dias, Montos, Casos
<1> QED
    BY <1>1, <1>2, <1>3, <1>4, <1>5 DEF CajaInv

\* The unit of work of a transaction in course.
LEMMA Paso_JNLupdate_commit == CajaInv /\ JNLupdate_commit => CajaInv'
<1> SUFFICES ASSUME CajaInv, JNLupdate_commit PROVE CajaInv'
    OBVIOUS
<1> DEFINE t == TOTScommit(tots, pend, tran)
<1>0. /\ tots \in RegTots /\ pend \in RegPend /\ pend.tran = tran /\ pend.fecha = dia
      /\ tots' = t
    BY DEF CajaInv, TypeOK, Fechas, JNLupdate_commit, RegTots, RegPend, Montos
<1>1. /\ t \in RegTots /\ t.fecha = dia
      /\ tran = "OPENDAY" => t.estado = "C" /\ t.efvo = 0 /\ t.inic = 0
      /\ tran = "REOPENCA" => t.estado = "C" /\ t.efvo = tots.efvo /\ t.inic = tots.inic
      /\ tran = "CARGA" => /\ t.estado = tots.estado /\ t.efvo = tots.efvo
                           /\ t.inic = pend.importe
      /\ tran = "CLOSEDAY" => t.estado = "C" /\ t.efvo = tots.efvo /\ t.inic = tots.inic
      /\ tran = "OP" => /\ t.estado = tots.estado /\ t.efvo = tots.efvo + pend.importe
                        /\ t.inic = tots.inic
    BY <1>0, CommitDe
<1>2. /\ pend'.tran = "OP" /\ pend'.fecha = 0 /\ pend'.importe = 0 /\ pend' = SinPend'
      /\ pend' \in [tran : Trans, fecha : Dias, importe : Montos]
      /\ tran = "OP" => est' = "opera"
      /\ tran = "OPENDAY" => est' = "carga"
      /\ tran \in {"CARGA", "REOPENCA"} => est' = "rend"
      /\ tran = "CLOSEDAY" => est' = "ident"
    BY DEF JNLupdate_commit, SinPend, Sigue, Trans, Dias, Montos
<1> HIDE DEF t
<1>3. t.efvo \in Montos /\ t.inic \in Montos /\ t.inic + t.efvo <= caja
    BY <1>0, <1>1 DEF CajaInv, TypeOK, NoSobra, Saldo, RegTots, Trans, Montos
<1>4. TypeOK'
  <2>1. tots' \in [estado : {"A", "O", "C"}, fecha : Dias, efvo : Montos, inic : Montos]
      BY <1>0, <1>1, <1>3 DEF RegTots
  <2> QED
      BY <1>2, <2>1 DEF CajaInv, TypeOK, JNLupdate_commit, tesorero, Trans
<1>5. ForzadoFuera' /\ Candados'
    BY <1>0, <1>1, <1>2
       DEF CajaInv, TypeOK, ForzadoFuera, Candados, RendLibre, JNLupdate_commit, tesorero, Trans
<1>6. Fechas'
    BY <1>0, <1>1, <1>2 DEF CajaInv, TypeOK, Fechas, EnCaja, JNLupdate_commit, Trans, Dias
<1>7. NoSobra'
    BY <1>0, <1>1, <1>2, <1>3
       DEF CajaInv, TypeOK, NoSobra, En, Saldo, JNLupdate_commit, tesorero, Trans, Montos
<1>8. Sano' => RendicionSana' /\ TotalesSanos' /\ PasoSano'
  <2> SUFFICES ASSUME Sano' PROVE RendicionSana' /\ TotalesSanos' /\ PasoSano'
      OBVIOUS
  <2>1. RendicionSana /\ TotalesSanos /\ PasoSano
      BY DEF CajaInv, JNLupdate_commit, Sano
  <2>2. RendicionSana'
      BY <2>1 DEF RendicionSana, JNLupdate_commit
  <2>3. TotalesSanos'
      BY <1>0, <1>1, <1>2, <2>1
         DEF CajaInv, TypeOK, Fechas, TotalesSanos, PasoSano, Abrible, En, Escribiendo, Saldo,
             JNLupdate_commit, Trans, Dias, Montos
  <2>4. PasoSano'
      BY <1>0, <1>1, <1>2, <2>1
         DEF CajaInv, TypeOK, Fechas, TotalesSanos, PasoSano, Abrible, En, Escribiendo, Saldo,
             NoSobra, JNLupdate_commit, tesorero, Trans, Dias, Montos
  <2> QED
      BY <2>2, <2>3, <2>4
<1> QED
    BY <1>4, <1>5, <1>6, <1>7, <1>8 DEF CajaInv

\* The resync at the start of the application.
LEMMA Resinc ==
    ASSUME CajaInv
    PROVE  /\ Resincroniza \in RegTots
           /\ Resincroniza.efvo \in Montos /\ Resincroniza.inic \in Montos
           /\ Resincroniza.fecha = tots.fecha
           /\ Resincroniza.inic + Resincroniza.efvo <= caja
           /\ Resincroniza.estado # "C" =>
                Resincroniza.estado = tots.estado
           /\ tots.estado = "C" => Resincroniza.estado = "C"
           /\ Sano /\ Resincroniza.estado = "O" => Resincroniza.inic + Resincroniza.efvo = caja
           /\ Resincroniza.inic + Resincroniza.efvo < Saldo => pend.tran \in {"OPENDAY", "REOPENCA"}
<1>0. tots \in RegTots /\ pend \in RegPend
    BY DEF CajaInv, TypeOK, RegTots, RegPend, Montos
<1>1. CASE pend # SinPend /\ pend.fecha = tots.fecha
  <2> DEFINE t == TOTScommit(tots, pend, "no")
  <2>1. Resincroniza = t
      BY <1>1 DEF Resincroniza
  <2>2. /\ t \in RegTots /\ t.fecha = pend.fecha
        /\ pend.tran \in {"OPENDAY", "REOPENCA"} => t.estado = "C" /\ t.efvo = 0 /\ t.inic = 0
        /\ pend.tran = "CARGA" => /\ t.estado = tots.estado /\ t.efvo = tots.efvo
                                  /\ t.inic = pend.importe
        /\ pend.tran = "CLOSEDAY" => t.estado = "C" /\ t.efvo = tots.efvo /\ t.inic = tots.inic
        /\ pend.tran = "OP" => /\ t.estado = tots.estado /\ t.efvo = tots.efvo + pend.importe
                               /\ t.inic = tots.inic
      BY <1>0, CommitDe
  <2> HIDE DEF t
  <2>3. t.efvo \in Montos /\ t.inic \in Montos /\ t.inic + t.efvo <= caja
      BY <1>0, <2>2 DEF CajaInv, TypeOK, NoSobra, Saldo, RegTots, Trans, Montos
  <2>4. Sano /\ t.estado = "O" => t.inic + t.efvo = caja
      BY <1>0, <2>2 DEF CajaInv, TypeOK, TotalesSanos, Saldo, RegTots, Trans, Montos
  <2>5. t.inic + t.efvo < Saldo => pend.tran \in {"OPENDAY", "REOPENCA"}
      BY <1>0, <2>2 DEF CajaInv, TypeOK, NoSobra, Saldo, RegTots, Trans, Montos
  <2> QED
      BY <1>0, <1>1, <2>1, <2>2, <2>3, <2>4, <2>5 DEF RegPend, Trans
<1>2. CASE ~(pend # SinPend /\ pend.fecha = tots.fecha)
  <2>1. Resincroniza = tots
      BY <1>2 DEF Resincroniza
  <2>2. Sano /\ tots.estado = "O" => tots.inic + tots.efvo = caja
      BY <1>2 DEF CajaInv, TypeOK, TotalesSanos, Saldo, SinPend, Montos
  <2> QED
      BY <1>0, <2>1, <2>2 DEF CajaInv, TypeOK, NoSobra, Saldo, Montos
<1> QED
    BY <1>1, <1>2

\* The start of the application runs the unit of work left, if any.
LEMMA Paso_APPLinit == CajaInv /\ APPLinit => CajaInv'
<1> SUFFICES ASSUME CajaInv, APPLinit PROVE CajaInv'
    OBVIOUS
<1>1. /\ tots' \in RegTots /\ tots'.efvo \in Montos /\ tots'.inic \in Montos
      /\ tots'.fecha = tots.fecha /\ Saldo' <= caja
      /\ tots'.estado # "C" => tots'.estado = tots.estado
      /\ tots.estado = "C" => tots'.estado = "C"
      /\ Sano /\ tots'.estado = "O" => Saldo' = caja
    BY Resinc DEF APPLinit, Saldo
<1>2. /\ pend'.tran = "OP" /\ pend'.fecha = 0 /\ pend'.importe = 0 /\ pend' = SinPend'
      /\ pend' \in [tran : Trans, fecha : Dias, importe : Montos]
      /\ est' \in {"abre", "opera"}
    BY DEF APPLinit, SinPend, Trans, Dias, Montos
<1>3. est' = "opera" =>
          /\ tots'.estado # "C" /\ tots'.fecha = dia
          /\ rend.marca # "X" /\ rend.fecha # 0 /\ rend.fecha = dia
    BY DEF CajaInv, TypeOK, APPLinit, HacerApertura
<1>4. TypeOK'
  <2>1. tots' \in [estado : {"A", "O", "C"}, fecha : Dias, efvo : Montos, inic : Montos]
      BY <1>1 DEF RegTots
  <2> QED
      BY <1>2, <2>1 DEF CajaInv, TypeOK, APPLinit, tesorero
<1>5. ForzadoFuera' /\ Candados'
    BY <1>1, <1>2 DEF CajaInv, TypeOK, ForzadoFuera, Candados, RendLibre, APPLinit, tesorero
<1>6. Fechas'
    BY <1>1, <1>2 DEF CajaInv, TypeOK, Fechas, EnCaja, APPLinit, Dias
<1>7. NoSobra'
    BY <1>1, <1>2 DEF CajaInv, TypeOK, NoSobra, En, Saldo, APPLinit, tesorero, Montos
<1>8. Sano' => RendicionSana' /\ TotalesSanos' /\ PasoSano'
  <2> SUFFICES ASSUME Sano' PROVE RendicionSana' /\ TotalesSanos' /\ PasoSano'
      OBVIOUS
  <2>1. Sano /\ RendicionSana /\ TotalesSanos /\ PasoSano
      BY DEF CajaInv, APPLinit, Sano
  <2>2. RendicionSana'
      BY <2>1 DEF RendicionSana, APPLinit
  <2>3. TotalesSanos'
      BY <1>1, <1>2, <2>1 DEF CajaInv, TypeOK, TotalesSanos, Saldo, APPLinit, RegTots, Montos
  <2>4. PasoSano'
      BY <1>1, <1>2, <1>3, <2>1
         DEF CajaInv, TypeOK, ForzadoFuera, Candados, TotalesSanos, PasoSano, En, Escribiendo,
             APPLinit, tesorero, RegTots, Dias
  <2> QED
      BY <2>2, <2>3, <2>4
<1> QED
    BY <1>4, <1>5, <1>6, <1>7, <1>8 DEF CajaInv

-----------------------------------------------------------------------------

\* The records of an operator that has just been added.
LEMMA CajaInicial == Init => CajaInv
<1> SUFFICES ASSUME Init PROVE CajaInv
    OBVIOUS
<1>1. TypeOK
  <2>1. 0 \in Montos /\ 0 \in Dias /\ 1 \in 1 .. MaxDia /\ 0 \in 0 .. MaxCaidas
      BY DiaMaxAssumption DEF Montos, Dias
  <2>2. /\ tots \in [estado : {"A", "O", "C"}, fecha : Dias, efvo : Montos, inic : Montos]
        /\ rend \in [fecha : Dias, marca : {"no", "X"}, tipo : {"no", "N", "F"}, importe : Montos]
        /\ pend \in [tran : Trans, fecha : Dias, importe : Montos]
      BY <2>1 DEF Init, SinPend, Trans
  <2> QED
      BY <2>1, <2>2 DEF Init, TypeOK, Trans
<1>2. ForzadoFuera /\ Candados
    BY DEF Init, ForzadoFuera, Candados, RendLibre
<1>3. Fechas
    BY DEF Init, Fechas, EnCaja
<1>4. NoSobra
    BY DEF Init, NoSobra, En, Saldo, SinPend
<1>5. RendicionSana /\ TotalesSanos
    BY DEF Init, RendicionSana, TotalesSanos, SinPend
<1>6. PasoSano
    BY DEF Init, PasoSano, En, Escribiendo
<1> QED
    BY <1>1, <1>2, <1>3, <1>4, <1>5, <1>6 DEF CajaInv

\* One lemma per action, put together.
LEMMA CajaPaso == CajaInv /\ [Next]_vars => CajaInv'
<1> SUFFICES ASSUME CajaInv, [Next]_vars PROVE CajaInv'
    OBVIOUS
<1>1. CASE Cajero
    BY <1>1, Paso_Identifica, Paso_APPLinit, Paso_PRETopen_day, Paso_NoAbre,
       Paso_TRANcall_efvo_ini, Paso_CDSinit_rend_cajero, Paso_CDSinit_rend_tots,
       Paso_JNLprelog_tran, Paso_JNLupdate_commit, Paso_Opera, Paso_SENDclose_day,
       Paso_APPLterm, Paso_TRANlog_out
       DEF Cajero, Abre
<1>2. CASE Tesorero
    BY <1>2, Paso_VerificaOperador, Paso_LeeRendicion, Paso_MarcaTotales, Paso_MarcaRendicion
       DEF Tesorero
<1>3. CASE UNCHANGED vars
    BY <1>3 DEF vars, registros, tesorero, CajaInv, TypeOK, ForzadoFuera, Candados, Fechas,
                NoSobra, Sano, RendicionSana, TotalesSanos, PasoSano, Abrible, En, Saldo,
                EnCaja, RendLibre
<1> QED
    BY <1>1, <1>2, <1>3, Paso_CaeCajero, Paso_CaeTesorero, Paso_NuevoDia DEF Next

\* The inductive invariant holds in every reachable state.
THEOREM CajaSiempre == Spec => []CajaInv
<1> QED
    BY CajaInicial, CajaPaso, PTL DEF Spec

\* While the teller works in an open day the totals are what is in the drawer,
\* whatever crashed before.
THEOREM SaldoConservadoSiempre == Spec => []SaldoConservado
<1>1. CajaInv => SaldoConservado
    BY DEF CajaInv, TypeOK, SaldoConservado, Sano, TotalesSanos, PasoSano, Fechas, EnCaja,
           Saldo, SinPend, Montos
<1> QED
    BY <1>1, CajaSiempre, PTL

\* What a close renders is what is in the drawer.
THEOREM RendidoFielSiempre == Spec => []RendidoFiel
<1>1. CajaInv => RendidoFiel
    BY DEF CajaInv, RendidoFiel, Sano, Candados, RendicionSana
<1> QED
    BY <1>1, CajaSiempre, PTL

\* An opening, or the resync that finishes it, is the only step that takes cash
\* from the totals, and without a forced close that cash was rendered before.
LEMMA LimpiaPaso ==
    CajaInv /\ [Next]_vars =>
        (tots'.inic + tots'.efvo < tots.inic + tots.efvo /\ casos' = {}
            => rend.marca = "X" /\ rend.importe >= tots.inic + tots.efvo)
<1> SUFFICES ASSUME CajaInv, [Next]_vars, Saldo' < Saldo, casos' = {}
             PROVE  rend.marca = "X" /\ rend.importe >= Saldo
    BY DEF Saldo
<1>1. casos = {} /\ Sano
    BY DEF Sano, Next, Cajero, Tesorero, Abre, vars, Identifica, APPLinit, PRETopen_day, NoAbre,
           TRANcall_efvo_ini, CDSinit_rend_cajero, CDSinit_rend_tots, JNLprelog_tran,
           JNLupdate_commit, Opera, SENDclose_day, APPLterm, TRANlog_out, VerificaOperador,
           LeeRendicion, MarcaTotales, MarcaRendicion, CaeCajero, CaeTesorero, NuevoDia
<1>2. Saldo' >= 0 /\ Saldo' \in Int /\ Saldo \in Int /\ Saldo <= caja /\ caja \in Nat
  <2>1. TypeOK /\ TypeOK' /\ NoSobra
      BY CajaPaso DEF CajaInv
  <2> QED
      BY <2>1 DEF TypeOK, NoSobra, Saldo, Montos
<1>3. Abrible => rend.marca = "X" /\ rend.importe >= Saldo
  <2>1. RendicionSana /\ Candados
      BY <1>1 DEF CajaInv
  <2>2. rend.tipo # "F"
      BY <1>1, <2>1 DEF Candados
  <2>3. rend.fecha # 0
      BY <1>1, <1>2, <2>1 DEF RendicionSana
  <2> QED
      BY <1>2, <2>2, <2>3 DEF Abrible
<1>4. CASE JNLupdate_commit
  <2>1. /\ tots \in RegTots /\ pend \in RegPend /\ tots' = TOTScommit(tots, pend, tran)
        /\ pend.tran = tran /\ PasoSano /\ est = "confirma" /\ tran \in Trans
        /\ tots.inic \in Nat /\ pend.importe \in Nat
      BY <1>1, <1>4 DEF CajaInv, TypeOK, Fechas, JNLupdate_commit, RegTots, RegPend, Montos
  <2>2. tran = "CARGA" => pend.importe = caja /\ Saldo = 0
      BY <1>4, <2>1 DEF CajaInv, NoSobra, PasoSano, En
  <2>3. tran = "OPENDAY"
    <3>1. tots.efvo \in Nat
        BY DEF CajaInv, TypeOK, Montos
    <3>2. CASE tran = "CARGA"
        BY <1>2, <2>1, <2>2, <3>1, <3>2, CommitDe DEF Saldo
    <3>3. CASE tran \in {"CLOSEDAY", "OP"}
        BY <1>2, <2>1, <3>1, <3>3, CommitDe DEF Saldo
    <3>4. CASE tran = "REOPENCA"
        BY <2>1, <3>4 DEF PasoSano, En, Escribiendo
    <3> QED
        BY <2>1, <3>2, <3>3, <3>4 DEF Trans
  <2> QED
      BY <1>3, <2>1, <2>3 DEF PasoSano, En, Escribiendo
<1>5. CASE APPLinit
  <2>1. tots' = Resincroniza
      BY <1>5 DEF APPLinit
  <2>2. pend.tran \in {"OPENDAY", "REOPENCA"}
      BY <2>1, Resinc DEF Saldo
  <2> QED
      BY <1>1, <1>3, <2>2 DEF CajaInv, TotalesSanos
<1>6. CASE MarcaTotales
  <2>1. casos' = casos \cup {"forzado"} \/ tots' = tots
      BY <1>6 DEF MarcaTotales
  <2> QED
      BY <1>2, <2>1 DEF Saldo
<1>7. CASE CDSinit_rend_tots
  <2>1. tots'.inic = tots.inic /\ tots'.efvo = tots.efvo
      BY <1>7 DEF CDSinit_rend_tots, CajaInv, TypeOK
  <2> QED
      BY <1>2, <2>1 DEF Saldo
<1>8. tots' = tots \/ JNLupdate_commit \/ APPLinit \/ MarcaTotales \/ CDSinit_rend_tots
    BY DEF Next, Cajero, Tesorero, Abre, vars, registros, Identifica, PRETopen_day, NoAbre,
           TRANcall_efvo_ini, CDSinit_rend_cajero, JNLprelog_tran,
           Opera, SENDclose_day, APPLterm, TRANlog_out, VerificaOperador,
           LeeRendicion, MarcaRendicion, CaeCajero, CaeTesorero, NuevoDia
<1> QED
    BY <1>2, <1>4, <1>5, <1>6, <1>7, <1>8 DEF Saldo

\* The cash of a day is cleared only after it was rendered, whatever crashed
\* between the marks of the close and the opening (PRETopen_day, TOTSopen_day).
THEOREM LimpiaRendidoSiempre == Spec => LimpiaRendido
<1> QED
    BY CajaSiempre, LimpiaPaso, PTL DEF Spec, LimpiaRendido

=============================================================================
