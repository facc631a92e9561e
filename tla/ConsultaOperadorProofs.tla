----------------------- MODULE ConsultaOperadorProofs ----------------------
(***************************************************************************)
(* RespuestaDelConsultado for every number of operators and of questions.  *)
(* Messages carry no number in the code; in the model they carry that of   *)
(* their question, and the invariant says where a number can be: in one    *)
(* place only, and only while its answer is owed or after its wait ended   *)
(* without it.                                                             *)
(***************************************************************************)
EXTENDS ConsultaOperador, SequenceTheorems, TLAPS

USE ConsultasAssumption

\* A question whose answer is still to be used: the one asked now or a late one.
Debida(n) == n \in sueltas \/ (n = num /\ pc = "espera")

Preguntas(o) == 1 .. Len(ida[o])
Respuestas(o) == 1 .. Len(vuelta[o])

TodasDebidas ==
    /\ \A o \in Operadores : \A i \in Preguntas(o) : Debida(ida[o][i])
    /\ \A o \in Operadores : \A i \in Respuestas(o) : Debida(vuelta[o][i].num)
    /\ op_status_on # 0 => Debida(op_status_on)
    /\ op_status_off # 0 => Debida(op_status_off)

\* A number is in one place only: a message of either way or a flag.
IdaUna ==
    \A o, p \in Operadores : \A i \in Preguntas(o), j \in Preguntas(p) :
        ida[o][i] = ida[p][j] => o = p /\ i = j

VueltaUna ==
    \A o, p \in Operadores : \A i \in Respuestas(o), j \in Respuestas(p) :
        vuelta[o][i].num = vuelta[p][j].num => o = p /\ i = j

Separadas ==
    \A o, p \in Operadores : \A i \in Preguntas(o), j \in Respuestas(p) :
        ida[o][i] # vuelta[p][j].num

FlagsAparte ==
    /\ op_status_on # 0 => op_status_on # op_status_off
    /\ \A o \in Operadores : \A i \in Preguntas(o) :
          ida[o][i] # op_status_on /\ ida[o][i] # op_status_off
    /\ \A o \in Operadores : \A i \in Respuestas(o) :
          vuelta[o][i].num # op_status_on /\ vuelta[o][i].num # op_status_off

UnSoloLugar == IdaUna /\ VueltaUna /\ Separadas /\ FlagsAparte

Numeradas == sueltas \subseteq 1 .. num /\ (pc = "espera" => num # 0)

ConsultaInv ==
    TypeOK /\ Numeradas /\ TodasDebidas /\ UnSoloLugar /\ RespuestaDelConsultado

-----------------------------------------------------------------------------
\* What taking the first message of a queue leaves.
LEMMA Cola ==
    ASSUME NEW S, NEW s \in Seq(S), s # <<>>
    PROVE  /\ Tail(s) \in Seq(S) /\ Len(s) \in Nat /\ Len(s) >= 1 /\ Len(Tail(s)) = Len(s) - 1
           /\ \A i \in 1 .. Len(s) - 1 : Tail(s)[i] = s[i + 1]
           /\ Head(s) = s[1] /\ s[1] \in S
    OBVIOUS

\* Before anything is asked no number is anywhere.
LEMMA ConsultaInicial == Init => ConsultaInv
<1> SUFFICES ASSUME Init PROVE ConsultaInv
    OBVIOUS
<1>1. \A o \in Operadores : ida[o] = <<>> /\ vuelta[o] = <<>>
    BY DEF Init
<1>2. (CHOOSE o \in Operadores : TRUE) \in Operadores
    OBVIOUS
<1>3. TypeOK
    BY <1>2 DEF Init, TypeOK, Ninguna
<1>4. Numeradas /\ TodasDebidas
    BY <1>1 DEF Init, Numeradas, TodasDebidas, Preguntas, Respuestas
<1>5. UnSoloLugar
    BY <1>1 DEF Init, UnSoloLugar, IdaUna, VueltaUna, Separadas, FlagsAparte, Preguntas, Respuestas
<1> QED
    BY <1>3, <1>4, <1>5 DEF Init, ConsultaInv, RespuestaDelConsultado, Ninguna

\* A question gets a number no message nor flag has.
LEMMA PasoPregunta ==
    ASSUME ConsultaInv, NEW o \in Operadores, SRQ_op_status(o)
    PROVE  ConsultaInv'
<1>1. /\ num \in Nat /\ num' = num + 1 /\ num' \in 1 .. MaxConsultas /\ vuelta' = vuelta
      /\ pc = "libre" /\ pc' = "espera" /\ sueltas' = sueltas
      /\ op_status_on' = 0 /\ op_status_off' = 0
    BY DEF ConsultaInv, TypeOK, SRQ_op_status, Reinicia
<1>2. /\ ida[o] \in Seq(1 .. MaxConsultas) /\ ida'[o] = Append(ida[o], num')
      /\ \A p \in Operadores : p # o => ida'[p] = ida[p]
      /\ ida' \in [Operadores -> Seq(1 .. MaxConsultas)]
    BY <1>1, AppendProperties DEF ConsultaInv, TypeOK, SRQ_op_status, Pregunta
<1>3. /\ Len(ida[o]) \in Nat /\ Len(ida'[o]) = Len(ida[o]) + 1
      /\ \A i \in Preguntas(o) : ida'[o][i] = ida[o][i]
      /\ ida'[o][Len(ida[o]) + 1] = num'
    BY <1>1, <1>2, AppendProperties DEF Preguntas
<1>4. \A p \in Operadores : \A i \in Preguntas(p)' :
          \/ i \in Preguntas(p) /\ ida'[p][i] = ida[p][i]
          \/ p = o /\ i = Len(ida[o]) + 1 /\ ida'[p][i] = num'
  <2> SUFFICES ASSUME NEW p \in Operadores, NEW i \in Preguntas(p)'
               PROVE \/ i \in Preguntas(p) /\ ida'[p][i] = ida[p][i]
                     \/ p = o /\ i = Len(ida[o]) + 1 /\ ida'[p][i] = num'
      OBVIOUS
  <2>1. CASE p = o
      BY <1>3, <2>1 DEF Preguntas
  <2>2. CASE p # o
      BY <1>2, <2>2 DEF Preguntas
  <2> QED
      BY <2>1, <2>2
<1>5. \A n : Debida(n) => n \in sueltas /\ n \in 1 .. num /\ Debida(n)'
    BY <1>1 DEF Debida, ConsultaInv, Numeradas
<1>6. TypeOK'
    BY <1>1, <1>2 DEF ConsultaInv, TypeOK, SRQ_op_status
<1>7. Numeradas' /\ RespuestaDelConsultado'
    BY <1>1 DEF ConsultaInv, Numeradas, RespuestaDelConsultado, SRQ_op_status
<1>8. \A p \in Operadores : /\ \A i \in Preguntas(p) : Debida(ida[p][i])
                            /\ \A i \in Respuestas(p) : Debida(vuelta[p][i].num)
    BY DEF ConsultaInv, TodasDebidas
<1>9. TodasDebidas'
  <2>1. \A n : n = num' => Debida(n)'
      BY <1>1 DEF Debida
  <2>2. \A p \in Operadores : \A i \in Preguntas(p)' : Debida(ida[p][i])'
      BY <1>4, <1>5, <1>8, <2>1
  <2>3. \A p \in Operadores : \A i \in Respuestas(p)' : Debida(vuelta[p][i].num)'
      BY <1>1, <1>5, <1>8 DEF Respuestas
  <2> QED
      BY <1>1, <2>2, <2>3 DEF TodasDebidas
<1>10. \A p \in Operadores : /\ \A i \in Preguntas(p) : ida[p][i] \in 1 .. num
                             /\ \A i \in Respuestas(p) : vuelta[p][i].num \in 1 .. num
    BY <1>5, <1>8
<1>11. IdaUna'
    BY <1>1, <1>4, <1>10 DEF ConsultaInv, UnSoloLugar, IdaUna
<1>12. VueltaUna'
    BY <1>1 DEF ConsultaInv, UnSoloLugar, VueltaUna, Respuestas
<1>13. Separadas'
    BY <1>1, <1>4, <1>10 DEF ConsultaInv, UnSoloLugar, Separadas, Respuestas
<1>14. FlagsAparte'
    BY <1>1, <1>4, <1>10 DEF FlagsAparte, Respuestas
<1> QED
    BY <1>6, <1>7, <1>9, <1>11, <1>12, <1>13, <1>14 DEF ConsultaInv, UnSoloLugar

\* The station moves the number of a question to its answer.
LEMMA PasoContesta ==
    ASSUME ConsultaInv, NEW o \in Operadores, OP_STATUS(o)
    PROVE  ConsultaInv'
<1> DEFINE k(p, i) == IF p = o THEN i + 1 ELSE i
           r == [res |-> Contesta(o), num |-> Head(ida[o])]
<1>1. /\ ida[o] \in Seq(1 .. MaxConsultas) /\ ida[o] # <<>>
      /\ Len(ida[o]) \in Nat /\ Len(ida[o]) >= 1 /\ Head(ida[o]) = ida[o][1]
      /\ ida'[o] = Tail(ida[o])
      /\ \A p \in Operadores : p # o => ida'[p] = ida[p] /\ vuelta'[p] = vuelta[p]
    BY DEF ConsultaInv, TypeOK, OP_STATUS
<1>2. r \in Respuesta /\ r.num = ida[o][1]
    BY <1>1 DEF Respuesta, Contesta
<1>3. /\ vuelta[o] \in Seq(Respuesta) /\ vuelta'[o] = Append(vuelta[o], r)
      /\ Len(vuelta[o]) \in Nat
    BY DEF ConsultaInv, TypeOK, OP_STATUS
<1> HIDE DEF r
<1>4. \A p \in Operadores : \A i \in Preguntas(p)' :
          /\ i \in Nat \ {0} /\ k(p, i) \in Preguntas(p)
          /\ ida'[p][i] = ida[p][k(p, i)]
  <2> SUFFICES ASSUME NEW p \in Operadores, NEW i \in Preguntas(p)'
               PROVE  /\ i \in Nat \ {0} /\ k(p, i) \in Preguntas(p)
                      /\ ida'[p][i] = ida[p][k(p, i)]
      OBVIOUS
  <2>1. CASE p = o
    <3>1. /\ Len(ida'[o]) = Len(ida[o]) - 1
          /\ \A j \in 1 .. Len(ida[o]) - 1 : ida'[o][j] = ida[o][j + 1]
        BY <1>1, Cola
    <3>2. i \in 1 .. Len(ida[o]) - 1
        BY <2>1, <3>1 DEF Preguntas
    <3>3. i \in Nat \ {0} /\ i + 1 \in 1 .. Len(ida[o])
        BY <1>1, <3>2
    <3>4. k(p, i) = i + 1 /\ ida'[o][i] = ida[o][i + 1]
        BY <2>1, <3>1, <3>2
    <3> QED
        BY <2>1, <3>3, <3>4 DEF Preguntas
  <2>2. CASE p # o
      BY <1>1, <2>2 DEF Preguntas
  <2> QED
      BY <2>1, <2>2
<1>5. \A p \in Operadores : \A i \in Respuestas(p)' :
          \/ i \in Respuestas(p) /\ vuelta'[p][i] = vuelta[p][i]
          \/ p = o /\ i = Len(vuelta[o]) + 1 /\ vuelta'[p][i] = r
  <2> SUFFICES ASSUME NEW p \in Operadores, NEW i \in Respuestas(p)'
               PROVE  \/ i \in Respuestas(p) /\ vuelta'[p][i] = vuelta[p][i]
                      \/ p = o /\ i = Len(vuelta[o]) + 1 /\ vuelta'[p][i] = r
      OBVIOUS
  <2>1. CASE p = o
      BY <1>2, <1>3, <2>1, AppendProperties DEF Respuestas
  <2>2. CASE p # o
      BY <1>1, <2>2 DEF Respuestas
  <2> QED
      BY <2>1, <2>2
<1>6. 1 \in Preguntas(o)
    BY <1>1 DEF Preguntas
<1>7. TypeOK'
  <2>1. ida' \in [Operadores -> Seq(1 .. MaxConsultas)]
      BY <1>1, Cola DEF ConsultaInv, TypeOK, OP_STATUS
  <2>2. vuelta' \in [Operadores -> Seq(Respuesta)]
      BY <1>2, <1>3, AppendProperties DEF ConsultaInv, TypeOK, OP_STATUS
  <2> QED
      BY <2>1, <2>2 DEF ConsultaInv, TypeOK, OP_STATUS
<1>8. /\ num' = num /\ pc' = pc /\ sueltas' = sueltas /\ leida' = leida
      /\ op_status_on' = op_status_on /\ op_status_off' = op_status_off
    BY DEF OP_STATUS
<1>9. Numeradas' /\ RespuestaDelConsultado'
    BY <1>8 DEF ConsultaInv, Numeradas, RespuestaDelConsultado
<1>10. TodasDebidas'
  <2>1. \A n : Debida(n)' <=> Debida(n)
      BY <1>8 DEF Debida
  <2>2. \A p \in Operadores : \A i \in Preguntas(p)' : Debida(ida'[p][i])
      BY <1>4 DEF ConsultaInv, TodasDebidas
  <2>3. \A p \in Operadores : \A i \in Respuestas(p)' : Debida(vuelta'[p][i].num)
      BY <1>2, <1>5, <1>6 DEF ConsultaInv, TodasDebidas
  <2> QED
      BY <1>8, <2>1, <2>2, <2>3 DEF ConsultaInv, TodasDebidas, Debida
<1>11. IdaUna'
    BY <1>4 DEF ConsultaInv, UnSoloLugar, IdaUna
<1>12. VueltaUna'
    BY <1>2, <1>5, <1>6 DEF ConsultaInv, UnSoloLugar, VueltaUna, Separadas
<1>13. Separadas'
    BY <1>2, <1>4, <1>5, <1>6 DEF ConsultaInv, UnSoloLugar, Separadas, IdaUna
<1>14. FlagsAparte'
    BY <1>2, <1>4, <1>5, <1>6, <1>8 DEF ConsultaInv, UnSoloLugar, FlagsAparte
<1> QED
    BY <1>7, <1>9, <1>10, <1>11, <1>12, <1>13, <1>14 DEF ConsultaInv, UnSoloLugar

\* An answer that comes leaves its number in one flag, over the one it had.
LEMMA PasoLlega ==
    ASSUME ConsultaInv, NEW o \in Operadores, OP_STATUS_REP(o)
    PROVE  ConsultaInv'
<1> DEFINE k(p, i) == IF p = o THEN i + 1 ELSE i
           m == Head(vuelta[o])
<1>1. /\ vuelta[o] \in Seq(Respuesta) /\ vuelta[o] # <<>>
      /\ Len(vuelta[o]) \in Nat /\ Len(vuelta[o]) >= 1 /\ m = vuelta[o][1]
      /\ vuelta'[o] = Tail(vuelta[o]) /\ m \in Respuesta
      /\ \A p \in Operadores : p # o => vuelta'[p] = vuelta[p]
    BY DEF ConsultaInv, TypeOK, OP_STATUS_REP
<1>2. /\ num' = num /\ pc' = pc /\ sueltas' = sueltas /\ leida' = leida /\ ida' = ida
      /\ \/ op_status_on' = op_status_on /\ op_status_off' = m.num
         \/ op_status_on' = m.num /\ op_status_off' = op_status_off
    BY DEF OP_STATUS_REP
<1>3. m.num \in 1 .. MaxConsultas
    BY <1>1 DEF Respuesta
<1>4. \A p \in Operadores : \A i \in Respuestas(p)' :
          /\ i \in Nat \ {0} /\ k(p, i) \in Respuestas(p)
          /\ vuelta'[p][i] = vuelta[p][k(p, i)]
  <2> SUFFICES ASSUME NEW p \in Operadores, NEW i \in Respuestas(p)'
               PROVE  /\ i \in Nat \ {0} /\ k(p, i) \in Respuestas(p)
                      /\ vuelta'[p][i] = vuelta[p][k(p, i)]
      OBVIOUS
  <2>1. CASE p = o
    <3>1. /\ Len(vuelta'[o]) = Len(vuelta[o]) - 1
          /\ \A j \in 1 .. Len(vuelta[o]) - 1 : vuelta'[o][j] = vuelta[o][j + 1]
        BY <1>1, Cola
    <3>2. i \in 1 .. Len(vuelta[o]) - 1
        BY <2>1, <3>1 DEF Respuestas
    <3>3. i \in Nat \ {0} /\ i + 1 \in 1 .. Len(vuelta[o])
        BY <1>1, <3>2
    <3>4. k(p, i) = i + 1 /\ vuelta'[o][i] = vuelta[o][i + 1]
        BY <2>1, <3>1, <3>2
    <3> QED
        BY <2>1, <3>3, <3>4 DEF Respuestas
  <2>2. CASE p # o
      BY <1>1, <2>2 DEF Respuestas
  <2> QED
      BY <2>1, <2>2
<1> HIDE DEF m
<1>5. 1 \in Respuestas(o)
    BY <1>1 DEF Respuestas
<1>6. TypeOK'
  <2>1. vuelta' \in [Operadores -> Seq(Respuesta)]
      BY <1>1, Cola DEF ConsultaInv, TypeOK, OP_STATUS_REP
  <2>2. op_status_on' \in 0 .. MaxConsultas /\ op_status_off' \in 0 .. MaxConsultas
      BY <1>2, <1>3 DEF ConsultaInv, TypeOK
  <2>3. firmado' = firmado /\ adt_node_id' = adt_node_id /\ adt_login_id' = adt_login_id
      BY DEF OP_STATUS_REP
  <2> QED
      BY <1>2, <2>1, <2>2, <2>3 DEF ConsultaInv, TypeOK
<1>7. Numeradas' /\ RespuestaDelConsultado'
    BY <1>2 DEF ConsultaInv, Numeradas, RespuestaDelConsultado
<1>8. TodasDebidas'
  <2>1. \A n : Debida(n)' <=> Debida(n)
      BY <1>2 DEF Debida
  <2>2. Debida(m.num)
      BY <1>1, <1>5 DEF ConsultaInv, TodasDebidas
  <2>3. \A p \in Operadores : \A i \in Preguntas(p)' : Debida(ida'[p][i])
      BY <1>2 DEF ConsultaInv, TodasDebidas, Preguntas
  <2>4. \A p \in Operadores : \A i \in Respuestas(p)' : Debida(vuelta'[p][i].num)
      BY <1>4 DEF ConsultaInv, TodasDebidas
  <2> QED
      BY <1>2, <2>1, <2>2, <2>3, <2>4 DEF ConsultaInv, TodasDebidas, Debida
<1>9. IdaUna'
    BY <1>2 DEF ConsultaInv, UnSoloLugar, IdaUna, Preguntas
<1>10. VueltaUna'
    BY <1>4 DEF ConsultaInv, UnSoloLugar, VueltaUna
<1>11. Separadas'
    BY <1>2, <1>4 DEF ConsultaInv, UnSoloLugar, Separadas, Preguntas
<1>12. FlagsAparte'
  <2>1. /\ \A p \in Operadores : \A i \in Preguntas(p) : ida[p][i] # m.num
        /\ \A p \in Operadores : \A i \in Respuestas(p)' : vuelta'[p][i].num # m.num
        /\ m.num # op_status_on /\ m.num # op_status_off
      BY <1>1, <1>4, <1>5
         DEF ConsultaInv, UnSoloLugar, FlagsAparte, Separadas, VueltaUna
  <2>2. \A p \in Operadores : \A i \in Respuestas(p)' :
            vuelta'[p][i].num # op_status_on /\ vuelta'[p][i].num # op_status_off
      BY <1>4 DEF ConsultaInv, UnSoloLugar, FlagsAparte
  <2> QED
      BY <1>2, <2>1, <2>2 DEF ConsultaInv, UnSoloLugar, FlagsAparte, Preguntas
<1> QED
    BY <1>6, <1>7, <1>8, <1>9, <1>10, <1>11, <1>12 DEF ConsultaInv, UnSoloLugar

\* A wait that ends with an answer uses up one number: its own, or a late one
\* in whose place it leaves its own.
LEMMA PasoToma ==
    ASSUME ConsultaInv, Presente \/ Ausente
    PROVE  ConsultaInv'
<1> DEFINE marca == IF op_status_on # 0 THEN op_status_on ELSE op_status_off
<1>1. /\ pc = "espera" /\ pc' = "libre" /\ num' = num /\ ida' = ida /\ vuelta' = vuelta
      /\ marca # 0 /\ TomaRespuesta(marca)
    BY DEF Presente, Ausente
<1>2. \/ op_status_on # 0 /\ op_status_on' = 0 /\ op_status_off' = op_status_off
      \/ op_status_on = 0 /\ op_status_on' = 0 /\ op_status_off # 0 /\ op_status_off' = 0
    BY DEF Presente, Ausente
<1>3. Debida(marca)
    BY <1>2 DEF ConsultaInv, TodasDebidas
<1>4. /\ op_status_off' # 0 => op_status_off' # marca /\ op_status_off' = op_status_off
      /\ op_status_on' = 0
    BY <1>2 DEF ConsultaInv, UnSoloLugar, FlagsAparte
<1>5. /\ \A o \in Operadores : \A i \in Preguntas(o) : ida[o][i] # marca
      /\ \A o \in Operadores : \A i \in Respuestas(o) : vuelta[o][i].num # marca
    BY <1>2 DEF ConsultaInv, UnSoloLugar, FlagsAparte
<1>6. marca \in 0 .. MaxConsultas /\ num \in 0 .. MaxConsultas
    BY DEF ConsultaInv, TypeOK
<1> HIDE DEF marca
<1>7. num \in 1 .. MaxConsultas /\ sueltas' \subseteq 1 .. num
    BY <1>1, <1>3, <1>6 DEF ConsultaInv, Numeradas, Debida, TomaRespuesta
<1>8. \A n : n # marca /\ Debida(n) => Debida(n)'
    BY <1>1 DEF Debida, TomaRespuesta
<1>9. TypeOK'
  <2>1. leida' \in [num : 0 .. MaxConsultas, marca : 0 .. MaxConsultas, suelta : BOOLEAN]
      BY <1>1, <1>6 DEF TomaRespuesta
  <2>2. sueltas' \subseteq 1 .. MaxConsultas
      BY <1>7
  <2>3. adt_node_id' \in [Operadores -> BOOLEAN] /\ firmado' = firmado /\ adt_login_id' = adt_login_id
      BY DEF ConsultaInv, TypeOK, Presente, Ausente
  <2>4. op_status_on' \in 0 .. MaxConsultas /\ op_status_off' \in 0 .. MaxConsultas
      BY <1>2 DEF ConsultaInv, TypeOK
  <2> QED
      BY <1>1, <2>1, <2>2, <2>3, <2>4 DEF ConsultaInv, TypeOK
<1>10. Numeradas'
    BY <1>1, <1>7 DEF Numeradas
<1>11. RespuestaDelConsultado'
    BY <1>1, <1>3 DEF RespuestaDelConsultado, TomaRespuesta, Debida
<1>12. TodasDebidas'
  <2>1. \A o \in Operadores : \A i \in Preguntas(o)' : Debida(ida[o][i])'
      BY <1>1, <1>5, <1>8 DEF ConsultaInv, TodasDebidas, Preguntas
  <2>2. \A o \in Operadores : \A i \in Respuestas(o)' : Debida(vuelta[o][i].num)'
      BY <1>1, <1>5, <1>8 DEF ConsultaInv, TodasDebidas, Respuestas
  <2>3. op_status_off' # 0 => Debida(op_status_off)'
      BY <1>4, <1>8 DEF ConsultaInv, TodasDebidas
  <2> QED
      BY <1>4, <2>1, <2>2, <2>3 DEF TodasDebidas
<1>13. UnSoloLugar'
  <2>1. IdaUna' /\ VueltaUna' /\ Separadas'
      BY <1>1 DEF ConsultaInv, UnSoloLugar, IdaUna, VueltaUna, Separadas, Preguntas, Respuestas
  <2>2. \A o \in Operadores : /\ \A i \in Preguntas(o) : ida[o][i] # 0
                              /\ \A i \in Respuestas(o) : vuelta[o][i].num # 0
      BY <1>1, <1>6 DEF ConsultaInv, TodasDebidas, Debida, Numeradas
  <2>3. FlagsAparte'
      BY <1>1, <1>4, <2>2 DEF ConsultaInv, UnSoloLugar, FlagsAparte, Preguntas, Respuestas
  <2> QED
      BY <2>1, <2>3 DEF UnSoloLugar
<1> QED
    BY <1>9, <1>10, <1>11, <1>12, <1>13 DEF ConsultaInv

\* A wait that ends without an answer leaves its number owed.
LEMMA PasoVence ==
    ASSUME ConsultaInv, Vence
    PROVE  ConsultaInv'
<1>1. /\ pc = "espera" /\ pc' = "libre" /\ num' = num /\ ida' = ida /\ vuelta' = vuelta
      /\ op_status_on = 0 /\ op_status_on' = 0 /\ op_status_off = 0 /\ op_status_off' = 0
      /\ sueltas' = sueltas \cup {num} /\ leida' = leida
    BY DEF Vence
<1>2. /\ num \in 1 .. MaxConsultas
      /\ \A n : Debida(n) => Debida(n)'
    BY <1>1 DEF ConsultaInv, TypeOK, Numeradas, Debida
<1>3. TypeOK'
  <2>1. adt_node_id' \in [Operadores -> BOOLEAN]
      BY DEF ConsultaInv, TypeOK, Vence
  <2> QED
      BY <1>1, <1>2, <2>1 DEF ConsultaInv, TypeOK, Vence
<1>4. Numeradas' /\ RespuestaDelConsultado'
    BY <1>1, <1>2 DEF ConsultaInv, Numeradas, RespuestaDelConsultado
<1>5. TodasDebidas'
  <2>1. /\ \A o \in Operadores : \A i \in Preguntas(o) : Debida(ida[o][i])'
        /\ \A o \in Operadores : \A i \in Respuestas(o) : Debida(vuelta[o][i].num)'
      BY <1>1, <1>2 DEF ConsultaInv, TodasDebidas
  <2> QED
      BY <1>1, <2>1 DEF TodasDebidas, Preguntas, Respuestas
<1>6. UnSoloLugar'
    BY <1>1 DEF ConsultaInv, UnSoloLugar, IdaUna, VueltaUna, Separadas, FlagsAparte, Preguntas, Respuestas
<1> QED
    BY <1>3, <1>4, <1>5, <1>6 DEF ConsultaInv

\* The operator who signs on or off touches no message.
LEMMA PasoFirma ==
    ASSUME ConsultaInv, NEW o \in Operadores, Firma(o)
    PROVE  ConsultaInv'
<1>1. /\ num' = num /\ pc' = pc /\ sueltas' = sueltas /\ leida' = leida /\ ida' = ida
      /\ vuelta' = vuelta /\ op_status_on' = op_status_on /\ op_status_off' = op_status_off
      /\ adt_login_id' = adt_login_id
    BY DEF Firma
<1>2. TypeOK'
  <2>1. firmado' \in [Operadores -> BOOLEAN]
      BY DEF ConsultaInv, TypeOK, Firma
  <2>2. adt_node_id' \in [Operadores -> BOOLEAN]
      BY <2>1 DEF ConsultaInv, TypeOK, Firma
  <2> QED
      BY <1>1, <2>1, <2>2 DEF ConsultaInv, TypeOK
<1>3. Numeradas' /\ RespuestaDelConsultado' /\ TodasDebidas'
    BY <1>1 DEF ConsultaInv, Numeradas, RespuestaDelConsultado, TodasDebidas, Debida,
                Preguntas, Respuestas
<1>4. UnSoloLugar'
    BY <1>1 DEF ConsultaInv, UnSoloLugar, IdaUna, VueltaUna, Separadas, FlagsAparte,
                Preguntas, Respuestas
<1> QED
    BY <1>2, <1>3, <1>4 DEF ConsultaInv

\* One lemma per action, put together.
LEMMA ConsultaPaso == ConsultaInv /\ [Next]_vars => ConsultaInv'
<1> SUFFICES ASSUME ConsultaInv, [Next]_vars PROVE ConsultaInv'
    OBVIOUS
<1>1. ASSUME NEW o \in Operadores, SRQ_op_status(o) \/ OP_STATUS(o) \/ OP_STATUS_REP(o) \/ Firma(o)
      PROVE  ConsultaInv'
    BY <1>1, PasoPregunta, PasoContesta, PasoLlega, PasoFirma
<1>2. CASE Presente \/ Ausente \/ Vence
    BY <1>2, PasoToma, PasoVence
<1>3. CASE UNCHANGED vars
  <2>1. TypeOK'
      BY <1>3 DEF vars, ConsultaInv, TypeOK
  <2> QED
      BY <1>3, <2>1 DEF vars, ConsultaInv, Numeradas, RespuestaDelConsultado, TodasDebidas,
          Debida, UnSoloLugar, IdaUna, VueltaUna, Separadas, FlagsAparte, Preguntas, Respuestas
<1> QED
    BY <1>1, <1>2, <1>3 DEF Next

\* Types, and where the number of each question can be, in every reachable state.
THEOREM ConsultaSiempre == Spec => []ConsultaInv
<1> QED
    BY ConsultaInicial, ConsultaPaso, PTL DEF Spec

\* The answer that ends a wait is that of the question asked or, after a time-out,
\* a late one nobody took (SRQ_op_status, SRQ_service_moa case OP_STATUS_REP).
THEOREM RespuestaDelConsultadoSiempre == Spec => []RespuestaDelConsultado
<1>1. ConsultaInv => RespuestaDelConsultado
    BY DEF ConsultaInv
<1> QED
    BY <1>1, ConsultaSiempre, PTL

=============================================================================
