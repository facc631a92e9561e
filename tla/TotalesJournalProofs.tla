------------------------ MODULE TotalesJournalProofs ------------------------
(* Theorems about TotalesJournal.  Totals are loops over lists and records:  *)
(* the first section gives the induction they need, as a fact about sets of  *)
(* naturals, and the defining equation of each loop.  Then the invariant of  *)
(* the marks, the rebuild, and what each step does to the totals.            *)
EXTENDS TotalesJournal, FiniteSetTheorems, SequenceTheorems, WellFoundedInduction, TLAPS

-----------------------------------------------------------------------------
(* Induction and loops.                                                      *)

\* A set of naturals that is not empty has a least element.
LEMMA Menor ==
    ASSUME NEW T, T \subseteq Nat, T # {}
    PROVE  \E x \in T : \A y \in T : x <= y
<1>1. PICK x \in T : \A y \in T : <<y, x>> \notin OpToRel(<, Nat)
  BY NatLessThanWellFounded, WFMin, Zenon
<1>2. \A a, b \in Nat : a < b => <<a, b>> \in OpToRel(<, Nat)
  BY Zenon DEF OpToRel
<1>3. \A y \in T : ~(y < x)
  BY <1>1, <1>2, Zenon
<1>4. \A y \in T : y \in Nat
  OBVIOUS
<1> QED BY <1>3, <1>4, x \in T, SMT

\* Induction up to N: what holds at 0 and passes from n - 1 to n holds at all.
LEMMA InduccionHasta ==
    ASSUME NEW S, NEW N \in Nat, 0 \in S, \A n \in 1 .. N : n - 1 \in S => n \in S
    PROVE  \A n \in 0 .. N : n \in S
<1> DEFINE T == {n \in 0 .. N : n \notin S}
<1>1. SUFFICES ASSUME T # {} PROVE FALSE
  OBVIOUS
<1>2. T \subseteq Nat
  OBVIOUS
<1>3. PICK x \in T : \A y \in T : x <= y
  BY <1>1, <1>2, Menor, Zenon
<1>4. x \in 1 .. N /\ x - 1 \in 0 .. N
  OBVIOUS
<1>5. x - 1 \in S
  BY <1>3, <1>4
<1> QED BY <1>4, <1>5

\* A loop of N rounds, each a function of what the one before it left, exists.
HayBucle(S, c, N, G) ==
    \E f \in [0 .. N -> S] : f[0] = c /\ \A n \in 1 .. N : f[n] = G[n][f[n - 1]]

LEMMA Bucle ==
    ASSUME NEW S, NEW c \in S, NEW N \in Nat, NEW G \in [1 .. N -> [S -> S]]
    PROVE  HayBucle(S, c, N, G)
<1> DEFINE Hasta(f, m) == f[0] = c /\ \A n \in 1 .. m : f[n] = G[n][f[n - 1]]
           A == {m \in 0 .. N : \E f \in [0 .. m -> S] : Hasta(f, m)}
<1>1. 0 \in A
  <2>1. [n \in 0 .. 0 |-> c] \in [0 .. 0 -> S] /\ Hasta([n \in 0 .. 0 |-> c], 0)
    OBVIOUS
  <2> HIDE DEF Hasta
  <2> QED BY <2>1
<1>2. \A m \in 1 .. N : m - 1 \in A => m \in A
  <2> SUFFICES ASSUME NEW m \in 1 .. N, m - 1 \in A PROVE m \in A
    OBVIOUS
  <2>1. PICK f \in [0 .. m - 1 -> S] : Hasta(f, m - 1)
    OBVIOUS
  <2> DEFINE g == [n \in 0 .. m |-> IF n = m THEN G[m][f[m - 1]] ELSE f[n]]
  <2>2. G[m][f[m - 1]] \in S
    OBVIOUS
  <2>3. g \in [0 .. m -> S]
    BY <2>2
  <2>4. Hasta(g, m)
    BY <2>1
  <2> HIDE DEF g, Hasta
  <2> QED BY <2>3, <2>4
<1> HIDE DEF A
<1>3. \A m \in 0 .. N : m \in A
  BY <1>1, <1>2, InduccionHasta, Zenon
<1>4. N \in A
  BY <1>3
<1> QED BY <1>4, Zenon DEF A, HayBucle

\* Whatever follows the rounds of a loop is of its type.
LEMMA BucleTipo ==
    ASSUME NEW S, NEW N \in Nat, NEW f, f = [n \in 0 .. N |-> f[n]], f[0] \in S,
           \A n \in 1 .. N : f[n - 1] \in S => f[n] \in S
    PROVE  f \in [0 .. N -> S]
<1> DEFINE A == {n \in 0 .. N : f[n] \in S}
<1>1. \A n \in 0 .. N : n \in A
  <2>1. 0 \in A
    OBVIOUS
  <2>2. \A n \in 1 .. N : n - 1 \in A => n \in A
    OBVIOUS
  <2> HIDE DEF A
  <2> QED BY <2>1, <2>2, InduccionHasta, Zenon
<1> QED BY <1>1

LEMMA ParcialesDef ==
    ASSUME NEW N \in Nat, NEW w \in [1 .. N -> Int]
    PROVE  /\ Parciales(w, N) \in [0 .. N -> Int]
           /\ Parciales(w, N)[0] = 0
           /\ \A n \in 1 .. N : Parciales(w, N)[n] = Parciales(w, N)[n - 1] + w[n]
<1> DEFINE G == [n \in 1 .. N |-> [x \in Int |-> x + w[n]]]
           P(s) == s = [n \in 0 .. N |-> IF n = 0 THEN 0 ELSE s[n - 1] + w[n]]
           s == Parciales(w, N)
<1>1. G \in [1 .. N -> [Int -> Int]]
  OBVIOUS
<1>2. PICK f \in [0 .. N -> Int] : f[0] = 0 /\ \A n \in 1 .. N : f[n] = G[n][f[n - 1]]
  <2> HIDE DEF G
  <2>1. 0 \in Int
    OBVIOUS
  <2> DEFINE Z == Int
  <2>2. G \in [1 .. N -> [Z -> Z]] /\ 0 \in Z
    BY <1>1, <2>1
  <2> HIDE DEF Z
  <2>3. HayBucle(Z, 0, N, G)
    BY <2>2, Bucle, Zenon
  <2> QED BY <2>3, Zenon DEF HayBucle, Z
<1>3. \A n \in 1 .. N : f[n] = f[n - 1] + w[n]
  <2> SUFFICES ASSUME NEW n \in 1 .. N PROVE f[n] = f[n - 1] + w[n]
    OBVIOUS
  <2>1. f[n - 1] \in Int
    OBVIOUS
  <2>2. G[n][f[n - 1]] = f[n - 1] + w[n]
    BY <2>1
  <2> QED BY <1>2, <2>2
<1>4. P(f)
  BY <1>2, <1>3
<1>5. s = CHOOSE x : P(x)
  BY DEF Parciales
<1>6. P(s)
  <2> HIDE DEF P, s
  <2> QED BY <1>4, <1>5
<1> HIDE DEF s
<1>7. s = [n \in 0 .. N |-> s[n]]
  BY <1>6
<1>9. s[0] = 0 /\ \A n \in 1 .. N : s[n] = s[n - 1] + w[n]
  BY <1>6
<1>8. s \in [0 .. N -> Int]
  <2>1. s[0] \in Int /\ \A n \in 1 .. N : s[n - 1] \in Int => s[n] \in Int
    <3>1. \A n \in 1 .. N : w[n] \in Int
      OBVIOUS
    <3> QED BY <1>9, <3>1
  <2> QED BY <1>7, <2>1, BucleTipo, Zenon
<1> QED BY <1>8, <1>9 DEF s

\* Two sums whose terms differ at one place differ by what the terms do.
LEMMA ParcialesUno ==
    ASSUME NEW N \in Nat, NEW v \in [1 .. N -> Int], NEW w \in [1 .. N -> Int],
           NEW k \in 1 .. N, \A n \in 1 .. N : n # k => w[n] = v[n]
    PROVE  Parciales(w, N)[N] = Parciales(v, N)[N] + w[k] - v[k]
<1> DEFINE s == Parciales(v, N)
           u == Parciales(w, N)
           A == {n \in 0 .. N : u[n] = s[n] + (IF n < k THEN 0 ELSE w[k] - v[k])}
<1>1. s \in [0 .. N -> Int] /\ s[0] = 0 /\ \A n \in 1 .. N : s[n] = s[n - 1] + v[n]
  BY ParcialesDef
<1>2. u \in [0 .. N -> Int] /\ u[0] = 0 /\ \A n \in 1 .. N : u[n] = u[n - 1] + w[n]
  BY ParcialesDef
<1> HIDE DEF s, u
<1>3. 0 \in A
  BY <1>1, <1>2
<1>4. \A n \in 1 .. N : n - 1 \in A => n \in A
  <2> SUFFICES ASSUME NEW n \in 1 .. N, n - 1 \in A PROVE n \in A
    OBVIOUS
  <2>1. v[n] \in Int /\ w[n] \in Int /\ v[k] \in Int /\ w[k] \in Int
    OBVIOUS
  <2>2. s[n - 1] \in Int /\ u[n - 1] \in Int
    BY <1>1, <1>2
  <2>3. s[n] = s[n - 1] + v[n] /\ u[n] = u[n - 1] + w[n]
    BY <1>1, <1>2
  <2>4. CASE n = k
    BY <2>1, <2>2, <2>3, <2>4
  <2>5. CASE n # k
    <3>1. w[n] = v[n] /\ (n - 1 < k <=> n < k)
      BY <2>5
    <3>2. u[n - 1] = s[n - 1] + (IF n < k THEN 0 ELSE w[k] - v[k])
      BY <3>1
    <3>3. u[n] = s[n] + (IF n < k THEN 0 ELSE w[k] - v[k])
      BY ONLY <2>1, <2>2, <2>3, <3>1, <3>2
    <3> QED BY <3>3
  <2> QED BY <2>4, <2>5
<1>5. \A n \in 0 .. N : n \in A
  <2> HIDE DEF A
  <2> QED BY <1>3, <1>4, InduccionHasta, Zenon
<1>6. u[N] = s[N] + (w[k] - v[k])
  BY <1>5
<1>7. s[N] \in Int /\ w[k] \in Int /\ v[k] \in Int
  BY <1>1
<1> QED BY <1>6, <1>7 DEF s, u

\* A sum of one more term.
LEMMA ParcialesMas ==
    ASSUME NEW N \in Nat, NEW v \in [1 .. N -> Int], NEW w \in [1 .. N + 1 -> Int],
           \A n \in 1 .. N : w[n] = v[n]
    PROVE  Parciales(w, N + 1)[N + 1] = Parciales(v, N)[N] + w[N + 1]
<1> DEFINE s == Parciales(v, N)
           u == Parciales(w, N + 1)
           A == {n \in 0 .. N : u[n] = s[n]}
<1>1. s \in [0 .. N -> Int] /\ s[0] = 0 /\ \A n \in 1 .. N : s[n] = s[n - 1] + v[n]
  BY ParcialesDef
<1>2. u[0] = 0 /\ \A n \in 1 .. N + 1 : u[n] = u[n - 1] + w[n]
  <2>1. N + 1 \in Nat
    OBVIOUS
  <2> QED BY <2>1, ParcialesDef, Zenon
<1> HIDE DEF s, u
<1>3. 0 \in A
  BY <1>1, <1>2
<1>4. \A n \in 1 .. N : n - 1 \in A => n \in A
  <2> SUFFICES ASSUME NEW n \in 1 .. N, n - 1 \in A PROVE n \in A
    OBVIOUS
  <2> QED BY <1>1, <1>2
<1>5. \A n \in 0 .. N : n \in A
  <2> HIDE DEF A
  <2> QED BY <1>3, <1>4, InduccionHasta, Zenon
<1>6. u[N] = s[N]
  BY <1>5
<1>7. u[N + 1] = u[N] + w[N + 1]
  BY <1>2
<1> QED BY <1>6, <1>7 DEF s, u

\* A sum without terms.
LEMMA ParcialesCero ==
    ASSUME NEW N \in Nat, NEW w \in [1 .. N -> Int], \A n \in 1 .. N : w[n] = 0
    PROVE  Parciales(w, N)[N] = 0
<1> DEFINE u == Parciales(w, N)
           A == {n \in 0 .. N : u[n] = 0}
<1>1. u[0] = 0 /\ \A n \in 1 .. N : u[n] = u[n - 1] + w[n]
  BY ParcialesDef
<1> HIDE DEF u
<1>2. 0 \in A
  BY <1>1
<1>3. \A n \in 1 .. N : n - 1 \in A => n \in A
  BY <1>1
<1>4. \A n \in 0 .. N : n \in A
  <2> HIDE DEF A
  <2> QED BY <1>2, <1>3, InduccionHasta, Zenon
<1> QED BY <1>4 DEF u

-----------------------------------------------------------------------------
(* The lists of totals.                                                      *)

Cuentas == [Baldes -> Int]
Miembros == [fuente : {"importe", "balde"}, signo : {"+", "-"}, balde : Baldes]

LEMMA SumaTipo ==
    ASSUME NEW b \in Cuentas, NEW m \in Miembros, NEW r, r.imp \in Int, NEW rev \in BOOLEAN
    PROVE  Suma(b, m, r, rev) \in Cuentas
BY DEF Suma, Cuentas, Miembros

\* What a transaction, or its correction, adds to a bucket.
ConSigno(r, rev) == IF rev THEN -r.imp ELSE r.imp

\* A member with the amount, and the member that empties its bucket.
LEMMA SumaDef ==
    ASSUME NEW b \in Cuentas, NEW x \in Baldes, NEW r, r.imp \in Int, NEW rev \in BOOLEAN
    PROVE  /\ Suma(b, Miembro("importe", "+", x), r, rev) = [b EXCEPT ![x] = @ + ConSigno(r, rev)]
           /\ Suma(b, Miembro("importe", "-", x), r, rev) = [b EXCEPT ![x] = @ - ConSigno(r, rev)]
           /\ Suma(b, Miembro("balde", "-", x), r, rev) =
                 [b EXCEPT ![x] = IF rev THEN @ + @ ELSE @ - @]
<1>1. b[x] \in Int
  BY DEF Cuentas
<1>2. CASE rev = TRUE
  <2>1. ConSigno(r, rev) = -r.imp
    BY <1>2 DEF ConSigno
  <2>2. b[x] - r.imp = b[x] + (-r.imp) /\ b[x] + r.imp = b[x] - (-r.imp)
    BY <1>1
  <2>3. Suma(b, Miembro("importe", "+", x), r, rev) = [b EXCEPT ![x] = @ - r.imp]
    BY <1>2 DEF Suma, Miembro
  <2>4. Suma(b, Miembro("importe", "-", x), r, rev) = [b EXCEPT ![x] = @ + r.imp]
    BY <1>2 DEF Suma, Miembro
  <2>5. Suma(b, Miembro("balde", "-", x), r, rev) = [b EXCEPT ![x] = @ + @]
    BY <1>2 DEF Suma, Miembro
  <2> QED BY <1>2, <2>1, <2>2, <2>3, <2>4, <2>5
<1>3. CASE rev = FALSE
  BY <1>1, <1>3 DEF Suma, Miembro, ConSigno
<1> QED BY <1>2, <1>3

LEMMA SumasDef ==
    ASSUME NEW t \in Cuentas, NEW N \in Nat, NEW lista, Len(lista) = N,
           \A n \in 1 .. N : lista[n] \in Miembros,
           NEW r, r.imp \in Int, NEW rev \in BOOLEAN, NEW reentry
    PROVE  LET b == Sumas(t, lista, r, rev, reentry) IN
           /\ b \in [0 .. N -> Cuentas] /\ b[0] = t
           /\ \A n \in 1 .. N :
                 b[n] = IF Modificador(r, reentry) THEN Suma(b[n - 1], lista[n], r, rev)
                        ELSE b[n - 1]
<1> DEFINE Ronda(n, x) ==
             IF Modificador(r, reentry) THEN Suma(x, lista[n], r, rev) ELSE x
           G == [n \in 1 .. N |-> [x \in Cuentas |-> Ronda(n, x)]]
           P(b) == b = [n \in 0 .. N |-> IF n = 0 THEN t ELSE Ronda(n, b[n - 1])]
           b == Sumas(t, lista, r, rev, reentry)
<1>1. \A n \in 1 .. N, x \in Cuentas : Ronda(n, x) \in Cuentas
  BY SumaTipo
<1>2. b = CHOOSE x : P(x)
  BY DEF Sumas
<1> HIDE DEF Ronda
<1>3. G \in [1 .. N -> [Cuentas -> Cuentas]]
  BY <1>1
<1>4. PICK f \in [0 .. N -> Cuentas] : f[0] = t /\ \A n \in 1 .. N : f[n] = G[n][f[n - 1]]
  <2> DEFINE Z == Cuentas
  <2>1. G \in [1 .. N -> [Z -> Z]] /\ t \in Z
    BY <1>3
  <2> HIDE DEF G, Z
  <2>2. HayBucle(Z, t, N, G)
    BY <2>1, Bucle, Zenon
  <2> QED BY <2>2, Zenon DEF HayBucle, Z
<1>5. \A n \in 1 .. N : f[n] = Ronda(n, f[n - 1])
  <2> SUFFICES ASSUME NEW n \in 1 .. N PROVE f[n] = Ronda(n, f[n - 1])
    OBVIOUS
  <2>1. f[n - 1] \in Cuentas
    OBVIOUS
  <2> QED BY <1>4, <2>1
<1>6. P(f)
  BY <1>4, <1>5
<1>7. P(b)
  <2> HIDE DEF P, b
  <2> QED BY <1>2, <1>6
<1> HIDE DEF b
<1>8. b = [n \in 0 .. N |-> b[n]]
  BY <1>7
<1>9. b[0] = t /\ \A n \in 1 .. N : b[n] = Ronda(n, b[n - 1])
  BY <1>7
<1>10. b \in [0 .. N -> Cuentas]
  <2>1. b[0] \in Cuentas /\ \A n \in 1 .. N : b[n - 1] \in Cuentas => b[n] \in Cuentas
    BY <1>1, <1>9
  <2> QED BY <1>8, <2>1, BucleTipo, Zenon
<1> QED BY <1>9, <1>10 DEF b, Ronda

\* The four lists are made of members, one or two.
LEMMA ListaTipo ==
    ASSUME NEW tipo \in Tipos
    PROVE  /\ Len(Lista(tipo)) \in 1 .. 2
           /\ \A n \in 1 .. Len(Lista(tipo)) : Lista(tipo)[n] \in Miembros
<1>1. CASE tipo = "venta"
  BY <1>1 DEF Lista, Miembro, Miembros, Baldes
<1>2. CASE tipo = "inicial"
  BY <1>2 DEF Lista, Miembro, Miembros, Baldes
<1>3. CASE tipo = "sesion"
  BY <1>3 DEF Lista, Miembro, Miembros, Baldes
<1>4. CASE tipo = "nc"
  BY <1>4 DEF Lista, Miembro, Miembros, Baldes
<1> QED BY <1>1, <1>2, <1>3, <1>4 DEF Tipos

\* Totals u are t with what a record, or its correction, adds to each bucket.
Totalizado(u, t, tipo, r, rev) ==
    /\ u["vta"] = t["vta"] + (IF tipo = "venta" THEN ConSigno(r, rev) ELSE 0)
    /\ u["efe"] = t["efe"] - (IF tipo = "venta" THEN ConSigno(r, rev) ELSE 0)
    /\ u["gral"] = t["gral"] + (IF tipo = "sesion" THEN ConSigno(r, rev)
                                ELSE IF tipo = "nc" THEN -ConSigno(r, rev) ELSE 0)
    /\ tipo # "inicial" => u["ini"] = t["ini"]
    /\ tipo = "inicial" /\ ~rev => u["ini"] = r.imp

\* What csr:total_list does with each list.
LEMMA TotalizaDef ==
    ASSUME NEW t \in Cuentas, NEW tipo \in Tipos, NEW r, r.imp \in Int,
           NEW rev \in BOOLEAN, NEW reentry
    PROVE  /\ total_list(t, Lista(tipo), r, rev, reentry) \in Cuentas
           /\ ~Modificador(r, reentry) => total_list(t, Lista(tipo), r, rev, reentry) = t
           /\ Modificador(r, reentry) =>
                 Totalizado(total_list(t, Lista(tipo), r, rev, reentry), t, tipo, r, rev)
<1> DEFINE b == Sumas(t, Lista(tipo), r, rev, reentry)
           u == total_list(t, Lista(tipo), r, rev, reentry)
           N == Len(Lista(tipo))
<1>1. N \in 1 .. 2 /\ \A n \in 1 .. N : Lista(tipo)[n] \in Miembros
  BY ListaTipo
<1>2. /\ b \in [0 .. N -> Cuentas] /\ b[0] = t
      /\ \A n \in 1 .. N :
            b[n] = IF Modificador(r, reentry) THEN Suma(b[n - 1], Lista(tipo)[n], r, rev)
                   ELSE b[n - 1]
  <2> HIDE DEF N
  <2>1. N = Len(Lista(tipo)) /\ N \in Nat
    BY <1>1 DEF N
  <2> QED BY <1>1, <2>1, SumasDef
<1>3. u = b[N] /\ b[N] \in Cuentas
  BY <1>1, <1>2 DEF total_list
<1>4. ASSUME ~Modificador(r, reentry) PROVE u = t
  <2>1. b[1] = t
    BY <1>1, <1>2, <1>4
  <2>2. N = 2 => b[2] = t
    BY <1>1, <1>2, <1>4, <2>1
  <2>3. N = 1 \/ N = 2
    BY <1>1
  <2> QED BY <1>3, <2>1, <2>2, <2>3
<1>5. ASSUME Modificador(r, reentry), tipo = "venta"
      PROVE  /\ u["vta"] = t["vta"] + ConSigno(r, rev) /\ u["efe"] = t["efe"] - ConSigno(r, rev)
             /\ u["gral"] = t["gral"] /\ u["ini"] = t["ini"]
  <2>1. N = 2 /\ Lista(tipo)[1] = Miembro("importe", "+", "vta")
              /\ Lista(tipo)[2] = Miembro("importe", "-", "efe")
    BY <1>5 DEF Lista
  <2>2. b[1] = Suma(t, Lista(tipo)[1], r, rev) /\ b[2] = Suma(b[1], Lista(tipo)[2], r, rev)
    BY <1>2, <1>5, <2>1
  <2>3. b[1] = [t EXCEPT !["vta"] = @ + ConSigno(r, rev)]
    BY <2>1, <2>2, SumaDef DEF Baldes
  <2>4. b[1] \in Cuentas
    BY <1>2, <2>1
  <2>5. b[2] = [b[1] EXCEPT !["efe"] = @ - ConSigno(r, rev)]
    BY <2>1, <2>2, <2>4, SumaDef DEF Baldes
  <2> QED BY <1>3, <2>1, <2>3, <2>4, <2>5 DEF Cuentas, Baldes
<1>6. ASSUME Modificador(r, reentry), tipo = "inicial"
      PROVE  /\ u["vta"] = t["vta"] /\ u["efe"] = t["efe"] /\ u["gral"] = t["gral"]
             /\ ~rev => u["ini"] = r.imp
  <2>1. N = 2 /\ Lista(tipo)[1] = Miembro("balde", "-", "ini")
              /\ Lista(tipo)[2] = Miembro("importe", "+", "ini")
    BY <1>6 DEF Lista
  <2>2. b[1] = Suma(t, Lista(tipo)[1], r, rev) /\ b[2] = Suma(b[1], Lista(tipo)[2], r, rev)
    BY <1>2, <1>6, <2>1
  <2>3. b[1] = [t EXCEPT !["ini"] = IF rev THEN @ + @ ELSE @ - @]
    BY <2>1, <2>2, SumaDef DEF Baldes
  <2>4. b[1] \in Cuentas
    BY <1>2, <2>1
  <2>5. b[2] = [b[1] EXCEPT !["ini"] = @ + ConSigno(r, rev)]
    BY <2>1, <2>2, <2>4, SumaDef DEF Baldes
  <2>6. t["ini"] \in Int
    BY DEF Cuentas, Baldes
  <2> QED BY <1>3, <2>1, <2>3, <2>4, <2>5, <2>6 DEF Cuentas, Baldes, ConSigno
<1>7. ASSUME Modificador(r, reentry), tipo \in {"sesion", "nc"}
      PROVE  /\ u["vta"] = t["vta"] /\ u["efe"] = t["efe"] /\ u["ini"] = t["ini"]
             /\ u["gral"] = t["gral"] + (IF tipo = "sesion" THEN ConSigno(r, rev)
                                         ELSE -ConSigno(r, rev))
  <2>1. N = 1 /\ Lista(tipo)[1] = Miembro("importe", IF tipo = "sesion" THEN "+" ELSE "-", "gral")
    BY <1>7 DEF Lista
  <2>2. b[1] = Suma(t, Lista(tipo)[1], r, rev)
    BY <1>2, <1>7, <2>1
  <2>3. b[1] = [t EXCEPT !["gral"] = @ + (IF tipo = "sesion" THEN ConSigno(r, rev)
                                          ELSE -ConSigno(r, rev))]
    <3>1. CASE tipo = "sesion"
      BY <2>1, <2>2, <3>1, SumaDef DEF Baldes
    <3>2. CASE tipo = "nc"
      BY <2>1, <2>2, <3>2, SumaDef DEF Baldes, Cuentas, ConSigno
    <3> QED BY <1>7, <3>1, <3>2
  <2> QED BY <1>3, <2>1, <2>3 DEF Cuentas, Baldes
<1>8. t["vta"] \in Int /\ t["efe"] \in Int /\ t["gral"] \in Int /\ ConSigno(r, rev) \in Int
  BY DEF Cuentas, Baldes, ConSigno
<1> HIDE DEF u, b, N
<1>9. u \in Cuentas
  BY <1>3
<1>10. Modificador(r, reentry) => Totalizado(u, t, tipo, r, rev)
  BY <1>5, <1>6, <1>7, <1>8 DEF Tipos, Totalizado
<1> QED BY <1>4, <1>9, <1>10 DEF u

-----------------------------------------------------------------------------
(* The journal: what a step does to its records.                             *)

Codigos == {UNPOSTED, HOST_ACCEPTED, HOST_REJECTED}

LEMMA EstadosDef ==
    /\ UNPOSTED = 1 /\ HOST_ACCEPTED = 3 /\ HOST_REJECTED = 100
    /\ Codigos \subseteq Estado /\ Estado \subseteq Nat
BY DEF UNPOSTED, HOST_ACCEPTED, HOST_REJECTED, Estado, RECH_REV_AUTO, Codigos

\* A record is of its type, with naturals for its amount and its mark.
LEMMA RegistroDef ==
    ASSUME NEW r \in Registro
    PROVE  /\ r.tipo \in Tipos /\ r.imp \in Nat /\ r.st \in Estado /\ r.st \in Nat
           /\ r.rev \in BOOLEAN /\ r.corr \in 0 .. MaxReg
<1>1. r.tipo \in Tipos /\ r.imp \in Importes \cup {0} /\ r.st \in Estado /\ r.rev \in BOOLEAN
      /\ r.corr \in 0 .. MaxReg
  BY DEF Registro
<1>2. r.imp \in Nat
  <2>1. \A x \in Importes \cup {0} : x \in Nat
    BY TotalesAssumption
  <2> QED BY <1>1, <2>1, Zenon
<1>3. r.st \in Nat
  BY <1>1, EstadosDef
<1> QED BY <1>1, <1>2, <1>3

LEMMA JnlDef ==
    ASSUME jnl \in Seq(Registro)
    PROVE  /\ Len(jnl) \in Nat /\ Indices = 1 .. Len(jnl)
           /\ \A i \in 1 .. Len(jnl) : jnl[i] \in Registro
BY DEF Indices

LEMMA AgregaDef ==
    ASSUME jnl \in Seq(Registro), NEW r \in Registro, jnl' = Append(jnl, r)
    PROVE  /\ jnl' \in Seq(Registro) /\ Len(jnl') = Len(jnl) + 1
           /\ Indices' = 1 .. Len(jnl) + 1
           /\ \A i \in 1 .. Len(jnl) : jnl'[i] = jnl[i]
           /\ jnl'[Len(jnl) + 1] = r
BY AppendProperties DEF Indices

LEMMA CambiaDef ==
    ASSUME jnl \in Seq(Registro), NEW i \in 1 .. Len(jnl), NEW r \in Registro,
           jnl' = [jnl EXCEPT ![i] = r]
    PROVE  /\ jnl' \in Seq(Registro) /\ Len(jnl') = Len(jnl)
           /\ Indices' = 1 .. Len(jnl)
           /\ \A k \in 1 .. Len(jnl) : jnl'[k] = IF k = i THEN r ELSE jnl[k]
<1>1. Len(jnl) \in Nat /\ jnl \in [1 .. Len(jnl) -> Registro]
  OBVIOUS
<1>2. jnl' \in [1 .. Len(jnl) -> Registro]
  BY <1>1
<1>3. jnl' \in Seq(Registro) /\ Len(jnl') = Len(jnl)
  BY <1>1, <1>2, SeqDef, LenProperties
<1> QED BY <1>1, <1>2, <1>3 DEF Indices

\* A new transaction, and a correction, as the last record.
Nueva(r) ==
    /\ porMarcar = 0 /\ jnl' = Append(jnl, r) /\ Len(jnl) < MaxReg
    /\ ~r.rev /\ r.corr = 0 /\ r.st \in Codigos
    /\ r.tipo # "venta" => r.st = HOST_ACCEPTED
    /\ tots' = IF r.st < HOST_REJECTED THEN TOTScommit(tots, r, FALSE, FALSE) ELSE tots
    /\ UNCHANGED <<porMarcar, linea, caidas>>

Correccion(i, r) ==
    /\ porMarcar = 0 /\ jnl' = Append(jnl, r) /\ Len(jnl) < MaxReg
    /\ jnl[i].tipo \in {"venta", "sesion"} /\ Reversible(i)
    /\ r.tipo = jnl[i].tipo /\ r.imp = jnl[i].imp /\ r.rev = TRUE /\ r.corr = i
    /\ r.st \in Codigos /\ (jnl[i].st = UNPOSTED => r.st = UNPOSTED)
    /\ tots' = IF r.st < HOST_REJECTED THEN TOTScommit(tots, r, TRUE, FALSE) ELSE tots
    /\ porMarcar' = IF r.st < HOST_REJECTED THEN i ELSE 0
    /\ UNCHANGED <<linea, caidas>>

\* The record that is reentered, the first of those that wait.
Reentra(i, st) ==
    /\ i \in Pendientes /\ (\A k \in Pendientes : i <= k)
    /\ st \in {HOST_ACCEPTED, HOST_REJECTED}
    /\ jnl' = [jnl EXCEPT ![i] = [@ EXCEPT !.st = st]]
    /\ UNCHANGED <<porMarcar, linea, caidas>>

LEMMA HaceForma ==
    ASSUME TypeOK, Hace \/ HaceLocal
    PROVE  \E r \in Registro : Nueva(r)
<1>1. CASE Hace
  <2>1. PICK imp \in Importes, st \in Respuestas :
           Asienta([tipo |-> "venta", imp |-> imp, st |-> st, rev |-> FALSE, corr |-> 0])
    BY <1>1 DEF Hace
  <2> DEFINE r == [tipo |-> "venta", imp |-> imp, st |-> st, rev |-> FALSE, corr |-> 0]
  <2>2. st \in Codigos
    BY DEF Respuestas, Codigos
  <2>3. r \in Registro
    BY <2>2, EstadosDef, TotalesAssumption DEF Registro, Tipos
  <2>4. Nueva(r)
    BY <1>1, <2>1, <2>2 DEF Nueva, Hace, Asienta
  <2> QED BY <2>3, <2>4
<1>2. CASE HaceLocal
  <2>1. PICK tipo \in {"inicial", "sesion", "nc"}, imp \in Importes \cup {0} :
           Asienta([tipo |-> tipo, imp |-> imp, st |-> HOST_ACCEPTED, rev |-> FALSE, corr |-> 0])
    BY <1>2 DEF HaceLocal
  <2> DEFINE r == [tipo |-> tipo, imp |-> imp, st |-> HOST_ACCEPTED, rev |-> FALSE, corr |-> 0]
  <2>2. r \in Registro
    BY EstadosDef, TotalesAssumption DEF Registro, Tipos, Codigos
  <2>3. Nueva(r)
    BY <1>2, <2>1, EstadosDef DEF Nueva, HaceLocal, Asienta, Codigos
  <2> QED BY <2>2, <2>3
<1> QED BY <1>1, <1>2

LEMMA CorrigeForma ==
    ASSUME TypeOK, NEW i \in Indices, KEYScorrection(i)
    PROVE  \E r \in Registro : Correccion(i, r)
<1>1. PICK st \in Respuestas :
         /\ Asienta([jnl[i] EXCEPT !.st = st, !.rev = TRUE, !.corr = i])
         /\ porMarcar' = IF st < HOST_REJECTED THEN i ELSE 0
  BY DEF KEYScorrection
<1> DEFINE r == [jnl[i] EXCEPT !.st = st, !.rev = TRUE, !.corr = i]
<1>2. st \in Codigos /\ (jnl[i].st = UNPOSTED => st = UNPOSTED)
  BY DEF Respuestas, Codigos, KEYScorrection, Reversible
<1>3. jnl[i] \in Registro /\ i \in 1 .. MaxReg
  BY JnlDef, TotalesAssumption DEF TypeOK
<1>4. r \in Registro /\ r.st = st /\ r.rev = TRUE /\ r.corr = i
      /\ r.tipo = jnl[i].tipo /\ r.imp = jnl[i].imp
  <2>1. st \in Estado /\ i \in 0 .. MaxReg
    BY <1>2, <1>3, EstadosDef, TotalesAssumption
  <2> QED BY <1>3, <2>1 DEF Registro
<1>5. Asienta(r)
  BY <1>1
<1> HIDE DEF r
<1>6. Correccion(i, r)
  BY <1>1, <1>2, <1>4, <1>5 DEF Correccion, KEYScorrection, Asienta
<1> QED BY <1>4, <1>6

LEMMA MarcaForma ==
    ASSUME TypeOK, MISCmarca_corregida
    PROVE  /\ porMarcar \in 1 .. Len(jnl) /\ Len(jnl) \in 1 .. MaxReg
           /\ jnl' = [jnl EXCEPT ![porMarcar] = [@ EXCEPT !.corr = Len(jnl)]]
           /\ [jnl[porMarcar] EXCEPT !.corr = Len(jnl)] \in Registro
           /\ porMarcar' = 0 /\ UNCHANGED <<tots, linea, caidas>>
<1>1. /\ porMarcar \in 1 .. Len(jnl) /\ Len(jnl) \in 1 .. MaxReg
      /\ porMarcar' = 0 /\ UNCHANGED <<tots, linea, caidas>>
  BY JnlDef, TotalesAssumption DEF TypeOK, MISCmarca_corregida
<1>2. jnl[porMarcar] \in Registro
  BY <1>1, JnlDef DEF TypeOK
<1>3. [jnl[porMarcar] EXCEPT !.corr = Len(jnl)] \in Registro
  BY <1>1, <1>2, TotalesAssumption DEF Registro
<1>4. jnl' = [jnl EXCEPT ![porMarcar] = [@ EXCEPT !.corr = Len(jnl)]]
  BY DEF MISCmarca_corregida, Marcada
<1> QED BY <1>1, <1>3, <1>4

LEMMA PrimeroPendiente ==
    ASSUME TypeOK, Pendientes # {}
    PROVE  /\ Min(Pendientes) \in Pendientes /\ Pendientes \subseteq 1 .. Len(jnl)
           /\ \A k \in Pendientes : Min(Pendientes) <= k
<1>1. Pendientes \subseteq 1 .. Len(jnl) /\ Len(jnl) \in Nat
  BY JnlDef DEF Pendientes, TypeOK
<1>2. Pendientes \subseteq Nat
  BY <1>1
<1>3. \E x \in Pendientes : \A y \in Pendientes : x <= y
  BY <1>2, Menor, Zenon
<1> QED BY <1>1, <1>3 DEF Min

LEMMA ReentraForma ==
    ASSUME TypeOK, JNLreentry_upd \/ ReentraSupervisor
    PROVE  \E st : /\ Reentra(Min(Pendientes), st)
                   /\ [jnl[Min(Pendientes)] EXCEPT !.st = st] \in Registro
                   /\ JNLreentry_upd => tots' = IF st >= HOST_REJECTED
                         THEN TOTScommit(tots, [jnl[Min(Pendientes)] EXCEPT !.st = st],
                                         ~jnl[Min(Pendientes)].rev, TRUE) ELSE tots
                   /\ ~JNLreentry_upd => tots' = tots
<1> DEFINE i == Min(Pendientes)
<1>1. Pendientes # {}
  BY DEF JNLreentry_upd, ReentraSupervisor
<1>2. i \in Pendientes /\ (\A k \in Pendientes : i <= k) /\ i \in 1 .. Len(jnl)
  BY <1>1, PrimeroPendiente
<1>3. jnl[i] \in Registro
  BY <1>2, JnlDef DEF TypeOK
<1>4. \A st \in {HOST_ACCEPTED, HOST_REJECTED} : [jnl[i] EXCEPT !.st = st] \in Registro
  BY <1>3, EstadosDef DEF Registro, Codigos
<1>5. CASE JNLreentry_upd
  <2>1. PICK st \in {HOST_ACCEPTED, HOST_REJECTED} :
           /\ jnl' = [jnl EXCEPT ![i] = [jnl[i] EXCEPT !.st = st]]
           /\ tots' = IF st >= HOST_REJECTED
                      THEN TOTScommit(tots, [jnl[i] EXCEPT !.st = st],
                                      ~[jnl[i] EXCEPT !.st = st].rev, TRUE) ELSE tots
    BY <1>5 DEF JNLreentry_upd
  <2>2. [jnl[i] EXCEPT !.st = st].rev = jnl[i].rev
    BY <1>3 DEF Registro
  <2>3. UNCHANGED <<porMarcar, linea, caidas>>
    BY <1>5 DEF JNLreentry_upd
  <2>4. Reentra(i, st)
    BY <1>2, <2>1, <2>3 DEF Reentra
  <2> HIDE DEF i
  <2> QED BY <1>4, <1>5, <2>1, <2>2, <2>4 DEF i
<1>6. CASE ~JNLreentry_upd /\ ReentraSupervisor
  <2>1. PICK st \in {HOST_ACCEPTED, HOST_REJECTED} : jnl' = [jnl EXCEPT ![i].st = st]
    BY <1>6 DEF ReentraSupervisor
  <2>2. UNCHANGED <<tots, porMarcar, linea, caidas>>
    BY <1>6 DEF ReentraSupervisor
  <2>3. Reentra(i, st)
    BY <1>2, <2>1, <2>2 DEF Reentra
  <2> HIDE DEF i
  <2> QED BY <1>4, <1>6, <2>2, <2>3 DEF i
<1> QED BY <1>5, <1>6

-----------------------------------------------------------------------------
(* Sums over a journal, for any journal: that of now and that of the next    *)
(* state.                                                                    *)

ReversasDe(j, i) == {k \in DOMAIN j : j[k].rev /\ j[k].corr = i /\ j[k].st < HOST_REJECTED}

ValenDe(j, tipo) ==
    {i \in DOMAIN j : /\ j[i].tipo = tipo /\ ~j[i].rev
                      /\ j[i].st < HOST_REJECTED /\ ReversasDe(j, i) = {}}

ImporteDe(j, S) ==
    Parciales([i \in DOMAIN j |-> IF i \in S THEN j[i].imp ELSE 0], Len(j))[Len(j)]

EsInicial(j, i) == j[i].tipo = "inicial" /\ j[i].imp # 0

InicialesDe(j) == {i \in ValenDe(j, "inicial") : j[i].imp # 0}

InicialDe(j) == IF InicialesDe(j) = {} THEN 0 ELSE j[Max(InicialesDe(j))].imp

ContadoDe(j) ==
    [b \in Baldes |->
        CASE b = "vta"  -> ImporteDe(j, ValenDe(j, "venta"))
          [] b = "efe"  -> -ImporteDe(j, ValenDe(j, "venta"))
          [] b = "ini"  -> InicialDe(j)
          [] b = "gral" -> ImporteDe(j, ValenDe(j, "sesion")) - ImporteDe(j, ValenDe(j, "nc"))]

LEMMA ContadoEs == Contado = ContadoDe(jnl) /\ Contado' = ContadoDe(jnl')
<1>1. Contado = ContadoDe(jnl)
  BY Zenon DEF Contado, ContadoDe, Importe, ImporteDe, Valen, ValenDe, Reversas, ReversasDe,
               Iniciales, InicialesDe, InicialDe, Indices
<1>2. Contado' = ContadoDe(jnl')
  BY Zenon DEF Contado, ContadoDe, Importe, ImporteDe, Valen, ValenDe, Reversas, ReversasDe,
               Iniciales, InicialesDe, InicialDe, Indices
<1> QED BY <1>1, <1>2

\* A set of numbers up to N that is not empty has a greatest element.
LEMMA MaxDe ==
    ASSUME NEW N \in Nat, NEW S, S \subseteq 1 .. N, S # {}
    PROVE  Max(S) \in S /\ \A y \in S : y <= Max(S)
<1> DEFINE T == {n \in 0 .. N : N - n \in S}
<1>1. T \subseteq Nat /\ T # {}
  <2>1. PICK x \in S : TRUE
    OBVIOUS
  <2>2. N - x \in 0 .. N /\ N - (N - x) = x
    BY <2>1
  <2>3. N - x \in T
    BY <2>1, <2>2
  <2>4. T \subseteq Nat
    OBVIOUS
  <2> HIDE DEF T
  <2> QED BY <2>3, <2>4
<1>2. PICK m \in T : \A y \in T : m <= y
  BY <1>1, Menor, Zenon
<1>3. N - m \in S /\ \A y \in S : N - m >= y
  <2>1. \A y \in S : N - y \in T
    <3> SUFFICES ASSUME NEW y \in S PROVE N - y \in T
      OBVIOUS
    <3>1. y \in 1 .. N /\ N - (N - y) = y /\ N - y \in 0 .. N
      OBVIOUS
    <3> QED BY <3>1
  <2>2. m \in 0 .. N
    BY <1>2
  <2>3. \A y \in S : m <= N - y /\ y \in 1 .. N
    BY <1>2, <2>1
  <2> QED BY <1>2, <2>2, <2>3
<1>4. \E x \in S : \A y \in S : x >= y
  BY <1>3, Zenon
<1>5. Max(S) \in S /\ \A y \in S : Max(S) >= y
  BY <1>4, Zenon DEF Max
<1> QED BY <1>5

\* The initial cash after the records up to n.
InicialHasta(j, n) ==
    LET S == {k \in 1 .. n : EsInicial(j, k)} IN IF S = {} THEN 0 ELSE j[Max(S)].imp

LEMMA InicialHastaUno ==
    ASSUME NEW j, NEW n \in Nat, n # 0
    PROVE  InicialHasta(j, n) = IF EsInicial(j, n) THEN j[n].imp ELSE InicialHasta(j, n - 1)
<1> DEFINE S == {k \in 1 .. n : EsInicial(j, k)}
           T == {k \in 1 .. n - 1 : EsInicial(j, k)}
<1>1. CASE EsInicial(j, n)
  <2>1. n \in S /\ S \subseteq 1 .. n
    BY <1>1
  <2>2. Max(S) \in S /\ \A y \in S : y <= Max(S)
    <3> HIDE DEF S
    <3> QED BY <2>1, MaxDe
  <2>3. Max(S) = n
    <3>1. Max(S) \in 1 .. n /\ n <= Max(S)
      BY <2>1, <2>2
    <3> QED BY <3>1
  <2> HIDE DEF S
  <2>4. InicialHasta(j, n) = IF S = {} THEN 0 ELSE j[Max(S)].imp
    BY DEF InicialHasta, S
  <2> QED BY <1>1, <2>1, <2>3, <2>4
<1>2. CASE ~EsInicial(j, n)
  <2>1. S = T
    BY <1>2
  <2>2. InicialHasta(j, n) = IF S = {} THEN 0 ELSE j[Max(S)].imp
    BY DEF InicialHasta
  <2>3. InicialHasta(j, n - 1) = IF T = {} THEN 0 ELSE j[Max(T)].imp
    BY DEF InicialHasta
  <2> HIDE DEF S, T
  <2> QED BY <1>2, <2>1, <2>2, <2>3
<1> QED BY <1>1, <1>2

LEMMA InicialHastaCero == \A j : InicialHasta(j, 0) = 0
<1> SUFFICES ASSUME NEW j PROVE InicialHasta(j, 0) = 0
  OBVIOUS
<1>1. {k \in 1 .. 0 : EsInicial(j, k)} = {}
  OBVIOUS
<1> QED BY <1>1 DEF InicialHasta

\* Two journals with the same amounts of the same types have the same initial cash.
LEMMA InicialHastaIgual ==
    ASSUME NEW j, NEW k, NEW N \in Nat,
           \A n \in 1 .. N : k[n].tipo = j[n].tipo /\ k[n].imp = j[n].imp
    PROVE  InicialHasta(k, N) = InicialHasta(j, N)
<1> DEFINE A == {n \in 0 .. N : InicialHasta(k, n) = InicialHasta(j, n)}
<1>1. 0 \in A
  BY InicialHastaCero
<1>2. \A n \in 1 .. N : n - 1 \in A => n \in A
  <2> SUFFICES ASSUME NEW n \in 1 .. N, n - 1 \in A PROVE n \in A
    OBVIOUS
  <2>1. n \in Nat /\ n # 0
    OBVIOUS
  <2>2. InicialHasta(k, n) = IF EsInicial(k, n) THEN k[n].imp ELSE InicialHasta(k, n - 1)
    BY <2>1, InicialHastaUno, Zenon
  <2>3. InicialHasta(j, n) = IF EsInicial(j, n) THEN j[n].imp ELSE InicialHasta(j, n - 1)
    BY <2>1, InicialHastaUno, Zenon
  <2>4. EsInicial(k, n) <=> EsInicial(j, n)
    BY DEF EsInicial
  <2> QED BY <2>2, <2>3, <2>4
<1>3. \A n \in 0 .. N : n \in A
  <2> HIDE DEF A
  <2> QED BY <1>1, <1>2, InduccionHasta, Zenon
<1> QED BY <1>3

\* No initial cash is corrected or rejected: the last one stands.
LEMMA InicialDeEs ==
    ASSUME NEW j \in Seq(Registro),
           \A k \in 1 .. Len(j) :
              /\ j[k].tipo = "inicial" => ~j[k].rev /\ j[k].st = HOST_ACCEPTED
              /\ j[k].rev => j[k].corr \in 1 .. k - 1 /\ j[k].tipo = j[j[k].corr].tipo
    PROVE  InicialDe(j) = InicialHasta(j, Len(j))
<1>1. DOMAIN j = 1 .. Len(j) /\ Len(j) \in Nat
  OBVIOUS
<1>2. \A i \in 1 .. Len(j) : j[i].tipo = "inicial" => ReversasDe(j, i) = {}
  BY <1>1 DEF ReversasDe
<1>3. InicialesDe(j) = {k \in 1 .. Len(j) : EsInicial(j, k)}
  BY <1>1, <1>2, EstadosDef DEF InicialesDe, ValenDe, EsInicial
<1> QED BY <1>3 DEF InicialDe, InicialHasta

Terminos(j, S) == [i \in DOMAIN j |-> IF i \in S THEN j[i].imp ELSE 0]

LEMMA TerminosTipo ==
    ASSUME NEW j \in Seq(Registro), NEW S
    PROVE  /\ Len(j) \in Nat /\ DOMAIN j = 1 .. Len(j)
           /\ Terminos(j, S) \in [1 .. Len(j) -> Int]
           /\ \A n \in 1 .. Len(j) : Terminos(j, S)[n] = IF n \in S THEN j[n].imp ELSE 0
           /\ ImporteDe(j, S) = Parciales(Terminos(j, S), Len(j))[Len(j)]
           /\ ImporteDe(j, S) \in Int
<1>1. Len(j) \in Nat /\ DOMAIN j = 1 .. Len(j)
  OBVIOUS
<1>2. \A n \in 1 .. Len(j) : j[n].imp \in Int
  <2>1. \A n \in 1 .. Len(j) : j[n] \in Registro
    OBVIOUS
  <2> QED BY <2>1, RegistroDef
<1>3. Terminos(j, S) \in [1 .. Len(j) -> Int]
  BY <1>1, <1>2 DEF Terminos
<1>4. \A n \in 1 .. Len(j) : Terminos(j, S)[n] = IF n \in S THEN j[n].imp ELSE 0
  BY <1>1 DEF Terminos
<1>5. ImporteDe(j, S) = Parciales(Terminos(j, S), Len(j))[Len(j)]
  BY DEF ImporteDe, Terminos
<1> HIDE DEF Terminos
<1>6. Parciales(Terminos(j, S), Len(j)) \in [0 .. Len(j) -> Int]
  BY <1>1, <1>3, ParcialesDef, Zenon
<1>7. ImporteDe(j, S) \in Int
  BY <1>1, <1>5, <1>6
<1> QED BY <1>1, <1>3, <1>4, <1>5, <1>7

\* Sums over two journals with the same amounts.
LEMMA ImporteUno ==
    ASSUME NEW j \in Seq(Registro), NEW k \in Seq(Registro), Len(k) = Len(j),
           \A n \in 1 .. Len(j) : k[n].imp = j[n].imp,
           NEW i \in 1 .. Len(j), NEW S, NEW T, \A n \in 1 .. Len(j) : n # i => (n \in T <=> n \in S)
    PROVE  ImporteDe(k, T) = ImporteDe(j, S) + (IF i \in T THEN j[i].imp ELSE 0)
                                             - (IF i \in S THEN j[i].imp ELSE 0)
<1> DEFINE v == Terminos(j, S)
           w == Terminos(k, T)
           N == Len(j)
<1>1. /\ N \in Nat /\ v \in [1 .. N -> Int] /\ w \in [1 .. N -> Int]
      /\ \A n \in 1 .. N : v[n] = IF n \in S THEN j[n].imp ELSE 0
      /\ \A n \in 1 .. N : w[n] = IF n \in T THEN k[n].imp ELSE 0
      /\ ImporteDe(j, S) = Parciales(v, N)[N] /\ ImporteDe(k, T) = Parciales(w, N)[N]
  BY TerminosTipo
<1> HIDE DEF v, w, N
<1>2. i \in 1 .. N /\ \A n \in 1 .. N : n # i => w[n] = v[n]
  BY <1>1 DEF N
<1>3. Parciales(w, N)[N] = Parciales(v, N)[N] + w[i] - v[i]
  BY <1>1, <1>2, ParcialesUno
<1>4. w[i] = IF i \in T THEN j[i].imp ELSE 0
  BY <1>1, <1>2 DEF N
<1>5. v[i] = IF i \in S THEN j[i].imp ELSE 0
  BY <1>1, <1>2 DEF N
<1> QED BY <1>1, <1>3, <1>4, <1>5

LEMMA ImporteIgual ==
    ASSUME NEW j \in Seq(Registro), NEW k \in Seq(Registro), Len(k) = Len(j),
           \A n \in 1 .. Len(j) : k[n].imp = j[n].imp,
           NEW S, NEW T, \A n \in 1 .. Len(j) : n \in T <=> n \in S
    PROVE  ImporteDe(k, T) = ImporteDe(j, S)
<1>1. DOMAIN j = 1 .. Len(j) /\ DOMAIN k = 1 .. Len(j)
  OBVIOUS
<1>2. Terminos(k, T) = Terminos(j, S)
  BY <1>1 DEF Terminos
<1> QED BY <1>2 DEF ImporteDe, Terminos

LEMMA ImporteMas ==
    ASSUME NEW j \in Seq(Registro), NEW k \in Seq(Registro), Len(k) = Len(j) + 1,
           \A n \in 1 .. Len(j) : k[n].imp = j[n].imp,
           NEW S, NEW T, \A n \in 1 .. Len(j) : n \in T <=> n \in S
    PROVE  ImporteDe(k, T) = ImporteDe(j, S) + (IF Len(j) + 1 \in T THEN k[Len(j) + 1].imp ELSE 0)
<1> DEFINE v == Terminos(j, S)
           w == Terminos(k, T)
           N == Len(j)
<1>1. /\ N \in Nat /\ v \in [1 .. N -> Int] /\ w \in [1 .. N + 1 -> Int]
      /\ \A n \in 1 .. N : v[n] = IF n \in S THEN j[n].imp ELSE 0
      /\ \A n \in 1 .. N + 1 : w[n] = IF n \in T THEN k[n].imp ELSE 0
      /\ ImporteDe(j, S) = Parciales(v, N)[N]
      /\ ImporteDe(k, T) = Parciales(w, N + 1)[N + 1]
  BY TerminosTipo
<1> HIDE DEF v, w, N
<1>2. \A n \in 1 .. N : w[n] = v[n]
  BY <1>1 DEF N
<1>3. Parciales(w, N + 1)[N + 1] = Parciales(v, N)[N] + w[N + 1]
  BY <1>1, <1>2, ParcialesMas
<1>4. w[N + 1] = IF N + 1 \in T THEN k[N + 1].imp ELSE 0
  BY <1>1
<1> QED BY <1>1, <1>3, <1>4 DEF N

-----------------------------------------------------------------------------
(* The inductive invariant.                                                  *)

IInv == MarcasInv /\ UnaReversa

\* What the invariant says of each record of the journal.
LEMMA IInvDef ==
    ASSUME IInv
    PROVE  /\ jnl \in Seq(Registro) /\ Len(jnl) \in Nat /\ Indices = 1 .. Len(jnl)
           /\ tots \in Cuentas /\ porMarcar \in 0 .. Len(jnl) /\ caidas \in Nat
           /\ \A k \in 1 .. Len(jnl) :
                 /\ jnl[k] \in Registro
                 /\ jnl[k].rev => /\ jnl[k].corr \in 1 .. k - 1 /\ ~jnl[jnl[k].corr].rev
                                  /\ jnl[k].tipo = jnl[jnl[k].corr].tipo
                                  /\ jnl[k].imp = jnl[jnl[k].corr].imp
                                  /\ jnl[jnl[k].corr].st = UNPOSTED => jnl[k].st = UNPOSTED
                 /\ jnl[k].tipo # "venta" /\ ~jnl[k].rev => jnl[k].st = HOST_ACCEPTED
                 /\ jnl[k].tipo \in {"inicial", "nc"} => ~jnl[k].rev /\ jnl[k].corr = 0
<1>1. jnl \in Seq(Registro) /\ Len(jnl) \in Nat /\ Indices = 1 .. Len(jnl)
      /\ \A i \in 1 .. Len(jnl) : jnl[i] \in Registro
  BY JnlDef DEF IInv, MarcasInv, TypeOK
<1>2. tots \in Cuentas /\ porMarcar \in 0 .. Len(jnl) /\ caidas \in Nat
  BY TotalesAssumption DEF IInv, MarcasInv, TypeOK, Cuentas
<1>3. \A k \in 1 .. Len(jnl) : jnl[k].rev =>
         /\ jnl[k].corr \in 1 .. k - 1 /\ ~jnl[jnl[k].corr].rev
         /\ jnl[k].tipo = jnl[jnl[k].corr].tipo /\ jnl[k].imp = jnl[jnl[k].corr].imp
         /\ jnl[jnl[k].corr].st = UNPOSTED => jnl[k].st = UNPOSTED
  BY <1>1 DEF IInv, MarcasInv, ReversaDeAnterior
<1>4. \A k \in 1 .. Len(jnl) :
         /\ jnl[k].tipo # "venta" /\ ~jnl[k].rev => jnl[k].st = HOST_ACCEPTED
         /\ jnl[k].tipo \in {"inicial", "nc"} => ~jnl[k].rev /\ jnl[k].corr = 0
  BY <1>1 DEF IInv, MarcasInv, LocalAceptada
<1> QED BY <1>1, <1>2, <1>3, <1>4

LEMMA ReversasSon ==
    ASSUME jnl \in Seq(Registro), NEW i
    PROVE  /\ Reversas(i) \subseteq 1 .. Len(jnl) /\ IsFiniteSet(Reversas(i))
           /\ Cardinality(Reversas(i)) \in Nat
<1>1. Reversas(i) \subseteq 1 .. Len(jnl)
  BY JnlDef DEF Reversas
<1>2. IsFiniteSet(1 .. Len(jnl))
  BY JnlDef, FS_Interval
<1>3. IsFiniteSet(Reversas(i))
  BY <1>1, <1>2, FS_Subset
<1> QED BY <1>1, <1>3, FS_CardinalityType

LEMMA ReversasNueva ==
    ASSUME IInv, NEW r \in Registro, Nueva(r)
    PROVE  \A i : Reversas(i)' = Reversas(i)
<1>1. /\ Indices' = 1 .. Len(jnl) + 1
      /\ \A i \in 1 .. Len(jnl) : jnl'[i] = jnl[i]
      /\ jnl'[Len(jnl) + 1] = r
  BY AgregaDef, IInvDef DEF Nueva
<1>2. ~r.rev
  BY DEF Nueva
<1> QED BY <1>1, <1>2, IInvDef DEF Reversas

LEMMA ReversasCorrige ==
    ASSUME IInv, NEW i \in 1 .. Len(jnl), NEW r \in Registro, Correccion(i, r)
    PROVE  /\ \A k : k # i => Reversas(k)' = Reversas(k)
           /\ Reversas(i)' = IF r.st < HOST_REJECTED THEN Reversas(i) \cup {Len(jnl) + 1}
                             ELSE Reversas(i)
<1>1. /\ Indices' = 1 .. Len(jnl) + 1 /\ Indices = 1 .. Len(jnl) /\ Len(jnl) \in Nat
      /\ \A k \in 1 .. Len(jnl) : jnl'[k] = jnl[k]
      /\ jnl'[Len(jnl) + 1] = r
  BY AgregaDef, IInvDef DEF Correccion
<1>2. r.rev = TRUE /\ r.corr = i
  BY DEF Correccion
<1>3. \A k : k # i => Reversas(k)' = Reversas(k)
  BY <1>1, <1>2 DEF Reversas
<1>4. CASE r.st < HOST_REJECTED
  BY <1>1, <1>2, <1>4 DEF Reversas
<1>5. CASE ~(r.st < HOST_REJECTED)
  BY <1>1, <1>2, <1>5 DEF Reversas
<1> QED BY <1>3, <1>4, <1>5

LEMMA ReversasMarca ==
    ASSUME IInv, MISCmarca_corregida
    PROVE  \A i : Reversas(i)' = Reversas(i)
<1> DEFINE m == porMarcar
           r == [jnl[m] EXCEPT !.corr = Len(jnl)]
<1>1. m \in 1 .. Len(jnl) /\ jnl' = [jnl EXCEPT ![m] = r] /\ r \in Registro
  BY MarcaForma DEF IInv, MarcasInv
<1>2. ~jnl[m].rev /\ jnl[m] \in Registro
  BY <1>1, IInvDef DEF IInv, MarcasInv, MarcaPendiente
<1>3. ~r.rev
  BY <1>2 DEF Registro
<1> HIDE DEF r, m
<1>4. /\ Indices' = 1 .. Len(jnl) /\ Indices = 1 .. Len(jnl)
      /\ \A k \in 1 .. Len(jnl) : jnl'[k] = IF k = m THEN r ELSE jnl[k]
  BY <1>1, CambiaDef, IInvDef
<1> QED BY <1>2, <1>3, <1>4 DEF Reversas

\* The reentry of a correction that the host rejects: it stands no longer.
LEMMA ReversasReentra ==
    ASSUME IInv, NEW i, NEW st, Reentra(i, st), [jnl[i] EXCEPT !.st = st] \in Registro
    PROVE  /\ i \in 1 .. Len(jnl) /\ jnl[i].st = UNPOSTED
           /\ jnl' \in Seq(Registro) /\ Len(jnl') = Len(jnl) /\ Indices' = 1 .. Len(jnl)
           /\ \A k \in 1 .. Len(jnl) : k # i => jnl'[k] = jnl[k]
           /\ jnl'[i].tipo = jnl[i].tipo /\ jnl'[i].imp = jnl[i].imp /\ jnl'[i].rev = jnl[i].rev
           /\ jnl'[i].corr = jnl[i].corr /\ jnl'[i].st = st
           /\ st = HOST_ACCEPTED \/ ~jnl[i].rev => \A k : Reversas(k)' = Reversas(k)
           /\ st = HOST_REJECTED /\ jnl[i].rev =>
                 \A k : Reversas(k)' = IF k = jnl[i].corr THEN Reversas(k) \ {i} ELSE Reversas(k)
<1> DEFINE r == [jnl[i] EXCEPT !.st = st]
<1>1. i \in 1 .. Len(jnl) /\ jnl[i].st = UNPOSTED /\ jnl[i] \in Registro
  BY IInvDef DEF Reentra, Pendientes
<1>2. r \in Registro /\ jnl' = [jnl EXCEPT ![i] = r]
  BY DEF Reentra
<1>3. /\ r.tipo = jnl[i].tipo /\ r.imp = jnl[i].imp /\ r.rev = jnl[i].rev
      /\ r.corr = jnl[i].corr /\ r.st = st
  BY <1>1 DEF Registro
<1> HIDE DEF r
<1>4. /\ jnl' \in Seq(Registro) /\ Len(jnl') = Len(jnl) /\ Indices' = 1 .. Len(jnl)
      /\ \A k \in 1 .. Len(jnl) : jnl'[k] = IF k = i THEN r ELSE jnl[k]
  BY <1>1, <1>2, CambiaDef, IInvDef
<1>5. Indices = 1 .. Len(jnl)
  BY IInvDef
<1>6. st = HOST_ACCEPTED => \A k : Reversas(k)' = Reversas(k)
  BY <1>1, <1>3, <1>4, <1>5, EstadosDef DEF Reversas
<1>7. ~jnl[i].rev => \A k : Reversas(k)' = Reversas(k)
  BY <1>1, <1>3, <1>4, <1>5 DEF Reversas
<1>8. st = HOST_REJECTED /\ jnl[i].rev =>
         \A k : Reversas(k)' = IF k = jnl[i].corr THEN Reversas(k) \ {i} ELSE Reversas(k)
  BY <1>1, <1>3, <1>4, <1>5, EstadosDef DEF Reversas
<1> QED BY <1>1, <1>3, <1>4, <1>6, <1>7, <1>8

\* The part of the invariant that is about the journal and its marks.
Marcas ==
    /\ MarcaCierta /\ MarcaFiel /\ ReversaDeAnterior /\ LocalAceptada
    /\ MarcaPendiente /\ Corregible /\ UnaReversa

LEMMA ReversasDelSiguiente ==
    ASSUME IInv PROVE Reversas(Len(jnl) + 1) = {}
<1>1. \A k \in 1 .. Len(jnl) : jnl[k].rev => jnl[k].corr \in 1 .. k - 1
  BY IInvDef
<1> QED BY <1>1, IInvDef DEF Reversas

LEMMA NuevaMarcas ==
    ASSUME IInv, NEW r \in Registro, Nueva(r)
    PROVE  Marcas'
<1> DEFINE N == Len(jnl)
<1>1. /\ N \in Nat /\ Indices = 1 .. N /\ Indices' = 1 .. N + 1
      /\ \A k \in 1 .. N : jnl'[k] = jnl[k]
      /\ jnl'[N + 1] = r /\ Len(jnl') = N + 1
  BY AgregaDef, IInvDef DEF Nueva
<1>2. /\ ~r.rev /\ r.corr = 0 /\ (r.tipo # "venta" => r.st = HOST_ACCEPTED)
      /\ porMarcar = 0 /\ porMarcar' = 0 /\ caidas' = caidas /\ caidas \in Nat
  BY IInvDef DEF Nueva
<1>3. (\A k : Reversas(k)' = Reversas(k)) /\ Reversas(N + 1) = {}
  BY ReversasNueva, ReversasDelSiguiente
<1> HIDE DEF N
<1>4. \A k \in 1 .. N : ReversaRechazada(k) => ReversaRechazada(k)'
  BY <1>1 DEF ReversaRechazada
<1>5. MarcaCierta'
  BY <1>1, <1>2, <1>3, <1>4 DEF MarcaCierta, IInv, MarcasInv
<1>6. MarcaFiel'
  BY <1>1, <1>2, <1>3 DEF MarcaFiel, IInv, MarcasInv
<1>7. ReversaDeAnterior'
  <2>1. \A k \in 1 .. N : jnl[k].rev => jnl[k].corr \in 1 .. N
    BY <1>1, IInvDef
  <2> QED BY <1>1, <1>2, <2>1 DEF ReversaDeAnterior, IInv, MarcasInv
<1>8. LocalAceptada'
  BY <1>1, <1>2 DEF LocalAceptada, IInv, MarcasInv
<1>9. MarcaPendiente'
  BY <1>2 DEF MarcaPendiente
<1>z. \A k : k = N + 1 => Cardinality(Reversas(k)') = 0
  <2> SUFFICES ASSUME NEW k, k = N + 1 PROVE Cardinality(Reversas(k)') = 0
    OBVIOUS
  <2>1. Reversas(k)' = {}
    BY <1>3
  <2> QED BY <2>1, FS_EmptySet, Zenon
<1>10. Corregible'
  <2> SUFFICES ASSUME NEW k \in 1 .. N + 1, jnl'[k].corr = 0, k # porMarcar'
               PROVE  Cardinality(Reversas(k)') <= caidas
    BY <1>1, <1>2 DEF Corregible
  <2>1. CASE k = N + 1
    BY <1>2, <1>z, <2>1
  <2>2. CASE k \in 1 .. N
    BY <1>1, <1>2, <1>3, <2>2 DEF Corregible, IInv, MarcasInv
  <2> QED BY <1>1, <2>1, <2>2
<1>11. UnaReversa'
  <2> SUFFICES ASSUME NEW k \in 1 .. N + 1 PROVE Cardinality(Reversas(k)') <= 1 + caidas
    BY <1>1, <1>2 DEF UnaReversa
  <2>1. CASE k = N + 1
    BY <1>2, <1>z, <2>1
  <2>2. CASE k \in 1 .. N
    BY <1>1, <1>3, <2>2 DEF UnaReversa, IInv
  <2> QED BY <1>1, <2>1, <2>2
<1> QED BY <1>5, <1>6, <1>7, <1>8, <1>9, <1>10, <1>11 DEF Marcas

LEMMA CorreccionMarcas ==
    ASSUME IInv, NEW i \in 1 .. Len(jnl), NEW r \in Registro, Correccion(i, r)
    PROVE  Marcas'
<1> DEFINE N == Len(jnl)
<1>1. /\ N \in Nat /\ Indices = 1 .. N /\ Indices' = 1 .. N + 1 /\ i \in 1 .. N
      /\ \A k \in 1 .. N : jnl'[k] = jnl[k]
      /\ jnl'[N + 1] = r /\ Len(jnl') = N + 1
  BY AgregaDef, IInvDef DEF Correccion
<1>2. /\ r.rev = TRUE /\ r.corr = i /\ r.tipo = jnl[i].tipo /\ r.imp = jnl[i].imp
      /\ jnl[i].tipo \in {"venta", "sesion"} /\ ~jnl[i].rev /\ jnl[i].corr = 0
      /\ (jnl[i].st = UNPOSTED => r.st = UNPOSTED)
      /\ porMarcar = 0 /\ porMarcar' = (IF r.st < HOST_REJECTED THEN i ELSE 0)
      /\ caidas' = caidas /\ caidas \in Nat
  BY IInvDef DEF Correccion, Reversible
<1>3. /\ \A k : k # i => Reversas(k)' = Reversas(k)
      /\ Reversas(i)' = IF r.st < HOST_REJECTED THEN Reversas(i) \cup {N + 1} ELSE Reversas(i)
      /\ Reversas(N + 1) = {}
  BY ReversasCorrige, ReversasDelSiguiente
<1>c. /\ Cardinality(Reversas(i)) <= caidas /\ Cardinality(Reversas(i)) \in Nat
      /\ IsFiniteSet(Reversas(i))
  BY <1>1, <1>2, ReversasSon, IInvDef DEF Corregible, IInv, MarcasInv
<1> HIDE DEF N
<1>d. Cardinality(Reversas(i) \cup {N + 1}) <= 1 + caidas
  <2>1. Cardinality(Reversas(i) \cup {N + 1}) \in
           {Cardinality(Reversas(i)), Cardinality(Reversas(i)) + 1}
    BY <1>c, FS_AddElement
  <2> QED BY <1>2, <1>c, <2>1
<1>4. \A k \in 1 .. N : ReversaRechazada(k) => ReversaRechazada(k)'
  BY <1>1 DEF ReversaRechazada
<1>5. MarcaCierta'
  <2>1. \A k \in 1 .. N : Reversas(k) # {} => Reversas(k)' # {}
    BY <1>3
  <2> QED BY <1>1, <1>2, <1>4, <2>1 DEF MarcaCierta, IInv, MarcasInv
<1>6. MarcaFiel'
  <2> SUFFICES ASSUME caidas = 0, NEW k \in 1 .. N + 1, k # porMarcar',
                      ~jnl'[k].rev, Reversas(k)' # {}
               PROVE  jnl'[k].corr # 0
    BY <1>1, <1>2 DEF MarcaFiel
  <2>1. k \in 1 .. N
    BY <1>1, <1>2
  <2>2. Reversas(k)' = Reversas(k)
    BY <1>2, <1>3
  <2> QED BY <1>1, <1>2, <2>1, <2>2 DEF MarcaFiel, IInv, MarcasInv
<1>7. ReversaDeAnterior'
  <2>1. \A k \in 1 .. N : jnl[k].rev => jnl[k].corr \in 1 .. N
    BY <1>1, IInvDef
  <2> QED BY <1>1, <1>2, <2>1 DEF ReversaDeAnterior, IInv, MarcasInv
<1>8. LocalAceptada'
  BY <1>1, <1>2 DEF LocalAceptada, IInv, MarcasInv
<1>9. MarcaPendiente'
  BY <1>1, <1>2 DEF MarcaPendiente
<1>10. Corregible'
  <2> SUFFICES ASSUME NEW k \in 1 .. N + 1, jnl'[k].corr = 0, k # porMarcar'
               PROVE  Cardinality(Reversas(k)') <= caidas
    BY <1>1, <1>2 DEF Corregible
  <2>1. k \in 1 .. N
    BY <1>1, <1>2
  <2>2. Reversas(k)' = Reversas(k)
    BY <1>2, <1>3
  <2> QED BY <1>1, <1>2, <2>1, <2>2 DEF Corregible, IInv, MarcasInv
<1>11. UnaReversa'
  <2> SUFFICES ASSUME NEW k \in 1 .. N + 1 PROVE Cardinality(Reversas(k)') <= 1 + caidas
    BY <1>1, <1>2 DEF UnaReversa
  <2>1. CASE k = i /\ r.st < HOST_REJECTED
    BY <1>3, <1>d, <2>1
  <2>2. CASE k = N + 1
    <3>1. Reversas(k)' = {}
      BY <1>1, <1>3, <2>2
    <3>2. Cardinality(Reversas(k)') = 0
      BY <3>1, FS_EmptySet, Zenon
    <3> QED BY <1>2, <3>2
  <2>3. CASE k # N + 1 /\ ~(k = i /\ r.st < HOST_REJECTED)
    <3>1. k \in 1 .. N /\ Reversas(k)' = Reversas(k)
      BY <1>1, <1>3, <2>3
    <3> QED BY <1>1, <3>1 DEF UnaReversa, IInv
  <2> QED BY <2>1, <2>2, <2>3
<1> QED BY <1>5, <1>6, <1>7, <1>8, <1>9, <1>10, <1>11 DEF Marcas

LEMMA MarcaMarcas ==
    ASSUME IInv, MISCmarca_corregida
    PROVE  Marcas'
<1>1. PICK m \in 1 .. Len(jnl) : m = porMarcar
  BY MarcaForma DEF IInv, MarcasInv
<1>2. PICK n \in Nat : n = Len(jnl)
  BY IInvDef
<1> DEFINE r == [jnl[m] EXCEPT !.corr = n]
<1>3. /\ jnl' = [jnl EXCEPT ![m] = r] /\ r \in Registro /\ jnl[m] \in Registro
      /\ porMarcar' = 0 /\ caidas' = caidas /\ n \in 1 .. n
  BY <1>1, <1>2, MarcaForma, IInvDef DEF IInv, MarcasInv
<1>4. /\ r.tipo = jnl[m].tipo /\ r.imp = jnl[m].imp /\ r.rev = jnl[m].rev
      /\ r.corr = n /\ r.st = jnl[m].st
  BY <1>3 DEF Registro
<1> HIDE DEF r
<1>5. /\ Indices' = 1 .. n /\ Indices = 1 .. n /\ Len(jnl') = n
      /\ \A k \in 1 .. n : jnl'[k] = IF k = m THEN r ELSE jnl[k]
  BY <1>1, <1>2, <1>3, CambiaDef, IInvDef
<1>6. ~jnl[m].rev /\ jnl[n].rev /\ jnl[n].corr = m
  BY <1>1, <1>2 DEF IInv, MarcasInv, MarcaPendiente, TypeOK
<1>7. \A k : Reversas(k)' = Reversas(k)
  BY ReversasMarca
<1>8. \A k : ReversaRechazada(k) => ReversaRechazada(k)'
  BY <1>1, <1>2, <1>4, <1>5, <1>6 DEF ReversaRechazada
<1>9. MarcaCierta'
  <2>1. Reversas(m) # {} \/ ReversaRechazada(m)
    <3>1. jnl[n].st \in Nat
      BY <1>2, <1>3, IInvDef, RegistroDef
    <3>2. CASE jnl[n].st < HOST_REJECTED
      BY <1>3, <1>5, <1>6, <3>2 DEF Reversas
    <3>3. CASE jnl[n].st >= HOST_REJECTED
      BY <1>3, <1>5, <1>6, <3>3 DEF ReversaRechazada
    <3> QED BY <3>1, <3>2, <3>3, EstadosDef
  <2> SUFFICES ASSUME NEW k \in 1 .. n, ~jnl'[k].rev, jnl'[k].corr # 0
               PROVE  Reversas(k)' # {} \/ ReversaRechazada(k)'
    BY <1>5 DEF MarcaCierta
  <2>2. CASE k = m
    BY <1>7, <1>8, <2>1, <2>2
  <2>3. CASE k # m
    BY <1>5, <1>7, <1>8, <2>3 DEF MarcaCierta, IInv, MarcasInv
  <2> QED BY <2>2, <2>3
<1>10. MarcaFiel'
  <2> SUFFICES ASSUME caidas = 0, NEW k \in 1 .. n, ~jnl'[k].rev, Reversas(k)' # {}
               PROVE  jnl'[k].corr # 0
    BY <1>3, <1>5 DEF MarcaFiel
  <2>1. CASE k = m
    BY <1>3, <1>4, <1>5, <2>1
  <2>2. CASE k # m
    BY <1>1, <1>5, <1>7, <2>2 DEF MarcaFiel, IInv, MarcasInv
  <2> QED BY <2>1, <2>2
<1>11. ReversaDeAnterior'
  <2> SUFFICES ASSUME NEW k \in 1 .. n, jnl'[k].rev
               PROVE  /\ jnl'[k].corr \in 1 .. k - 1 /\ ~jnl'[jnl'[k].corr].rev
                      /\ jnl'[k].tipo = jnl'[jnl'[k].corr].tipo
                      /\ jnl'[k].imp = jnl'[jnl'[k].corr].imp
                      /\ jnl'[jnl'[k].corr].st = UNPOSTED => jnl'[k].st = UNPOSTED
    BY <1>5 DEF ReversaDeAnterior
  <2>1. jnl'[k] = jnl[k] /\ jnl[k].rev
    BY <1>4, <1>5, <1>6
  <2>2. jnl[k].corr \in 1 .. k - 1 /\ jnl[k].corr \in 1 .. n
    BY <1>2, <2>1, IInvDef
  <2>3. /\ ~jnl[jnl[k].corr].rev /\ jnl[k].tipo = jnl[jnl[k].corr].tipo
        /\ jnl[k].imp = jnl[jnl[k].corr].imp
        /\ jnl[jnl[k].corr].st = UNPOSTED => jnl[k].st = UNPOSTED
    BY <1>2, <2>1, IInvDef
  <2> QED BY <1>4, <1>5, <2>1, <2>2, <2>3
<1>12. LocalAceptada'
  <2>1. jnl[m].tipo \notin {"inicial", "nc"}
    BY <1>2, <1>3, <1>6, IInvDef
  <2> QED BY <1>4, <1>5, <2>1 DEF LocalAceptada, IInv, MarcasInv
<1>13. MarcaPendiente'
  BY <1>3 DEF MarcaPendiente
<1>14. Corregible'
  <2> SUFFICES ASSUME NEW k \in 1 .. n, jnl'[k].corr = 0
               PROVE  Cardinality(Reversas(k)') <= caidas
    BY <1>3, <1>5 DEF Corregible
  <2>1. k # m /\ jnl[k].corr = 0
    BY <1>3, <1>4, <1>5
  <2> QED BY <1>1, <1>5, <1>7, <2>1 DEF Corregible, IInv, MarcasInv
<1>15. UnaReversa'
  BY <1>3, <1>5, <1>7 DEF UnaReversa, IInv
<1> QED BY <1>9, <1>10, <1>11, <1>12, <1>13, <1>14, <1>15 DEF Marcas

LEMMA ReentraMarcas ==
    ASSUME IInv, NEW i, NEW st, Reentra(i, st), [jnl[i] EXCEPT !.st = st] \in Registro
    PROVE  Marcas'
<1>1. /\ i \in 1 .. Len(jnl) /\ jnl[i].st = UNPOSTED
      /\ Len(jnl') = Len(jnl) /\ Indices' = 1 .. Len(jnl)
      /\ \A k \in 1 .. Len(jnl) : k # i => jnl'[k] = jnl[k]
      /\ jnl'[i].tipo = jnl[i].tipo /\ jnl'[i].imp = jnl[i].imp /\ jnl'[i].rev = jnl[i].rev
      /\ jnl'[i].corr = jnl[i].corr /\ jnl'[i].st = st
      /\ st = HOST_ACCEPTED \/ ~jnl[i].rev => \A k : Reversas(k)' = Reversas(k)
      /\ st = HOST_REJECTED /\ jnl[i].rev =>
            \A k : Reversas(k)' = IF k = jnl[i].corr THEN Reversas(k) \ {i} ELSE Reversas(k)
  BY ReversasReentra
<1>2. PICK n \in Nat : n = Len(jnl)
  BY IInvDef
<1>3. /\ porMarcar' = porMarcar /\ caidas' = caidas /\ st \in {HOST_ACCEPTED, HOST_REJECTED}
      /\ \A k \in Pendientes : i <= k
  BY DEF Reentra
<1>4. Indices = 1 .. n /\ Indices' = 1 .. n /\ i \in 1 .. n
  BY <1>1, <1>2, IInvDef
<1>5. \A k \in 1 .. n : jnl'[k].rev = jnl[k].rev /\ jnl'[k].corr = jnl[k].corr
                        /\ jnl'[k].tipo = jnl[k].tipo /\ jnl'[k].imp = jnl[k].imp
  BY <1>1, <1>2
<1>6. \A k : Reversas(k)' \subseteq Reversas(k)
  BY <1>1, <1>3
<1>7. \A k : Cardinality(Reversas(k)') <= Cardinality(Reversas(k))
  <2> SUFFICES ASSUME NEW k PROVE Cardinality(Reversas(k)') <= Cardinality(Reversas(k))
    OBVIOUS
  <2>1. IsFiniteSet(Reversas(k))
    BY ReversasSon, IInvDef
  <2> QED BY <1>6, <2>1, FS_Subset
<1>8. \A k : ReversaRechazada(k) => ReversaRechazada(k)'
  BY <1>1, <1>2, <1>4, EstadosDef DEF ReversaRechazada
<1>9. MarcaCierta'
  <2> SUFFICES ASSUME NEW k \in 1 .. n, ~jnl[k].rev, jnl[k].corr # 0
               PROVE  Reversas(k)' # {} \/ ReversaRechazada(k)'
    BY <1>4, <1>5 DEF MarcaCierta
  <2>1. Reversas(k) # {} \/ ReversaRechazada(k)
    BY <1>4 DEF MarcaCierta, IInv, MarcasInv
  <2>2. CASE st = HOST_REJECTED /\ jnl[i].rev /\ k = jnl[i].corr
    <3>1. jnl'[i].rev /\ jnl'[i].corr = k /\ jnl'[i].st >= HOST_REJECTED
      BY <1>1, <2>2, EstadosDef
    <3> QED BY <1>4, <3>1, Zenon DEF ReversaRechazada
  <2>3. CASE ~(st = HOST_REJECTED /\ jnl[i].rev /\ k = jnl[i].corr)
    BY <1>1, <1>3, <1>8, <2>1, <2>3
  <2> QED BY <2>2, <2>3
<1>10. MarcaFiel'
  BY <1>3, <1>4, <1>5, <1>6 DEF MarcaFiel, IInv, MarcasInv
<1>11. ReversaDeAnterior'
  <2> SUFFICES ASSUME NEW k \in 1 .. n, jnl[k].rev
               PROVE  /\ jnl[k].corr \in 1 .. k - 1 /\ ~jnl'[jnl[k].corr].rev
                      /\ jnl[k].tipo = jnl'[jnl[k].corr].tipo
                      /\ jnl[k].imp = jnl'[jnl[k].corr].imp
                      /\ jnl'[jnl[k].corr].st = UNPOSTED => jnl'[k].st = UNPOSTED
    BY <1>4, <1>5 DEF ReversaDeAnterior
  <2>1. /\ jnl[k].corr \in 1 .. k - 1 /\ jnl[k].corr \in 1 .. n /\ ~jnl[jnl[k].corr].rev
        /\ jnl[k].tipo = jnl[jnl[k].corr].tipo /\ jnl[k].imp = jnl[jnl[k].corr].imp
        /\ jnl[jnl[k].corr].st = UNPOSTED => jnl[k].st = UNPOSTED
    BY <1>2, IInvDef
  <2>2. jnl'[jnl[k].corr].st = UNPOSTED => jnl'[k].st = UNPOSTED
    <3>1. CASE jnl[k].corr = i
      BY <1>1, <1>3, <3>1, EstadosDef
    <3>2. CASE k = i
      <4>1. jnl[k].corr < i /\ jnl[k].corr \notin Pendientes
        BY <1>3, <2>1, <3>2
      <4> QED BY <1>1, <1>2, <1>4, <2>1, <3>2, <4>1 DEF Pendientes
    <3>3. CASE jnl[k].corr # i /\ k # i
      BY <1>1, <1>2, <2>1, <3>3
    <3> QED BY <3>1, <3>2, <3>3
  <2> QED BY <1>5, <2>1, <2>2
<1>12. LocalAceptada'
  <2> SUFFICES ASSUME NEW k \in 1 .. n
               PROVE  /\ jnl[k].tipo # "venta" /\ ~jnl[k].rev => jnl'[k].st = HOST_ACCEPTED
                      /\ jnl[k].tipo \in {"inicial", "nc"} => ~jnl[k].rev /\ jnl[k].corr = 0
    BY <1>4, <1>5 DEF LocalAceptada
  <2>1. /\ jnl[k].tipo # "venta" /\ ~jnl[k].rev => jnl[k].st = HOST_ACCEPTED
        /\ jnl[k].tipo \in {"inicial", "nc"} => ~jnl[k].rev /\ jnl[k].corr = 0
    BY <1>2, IInvDef
  <2> QED BY <1>1, <1>2, <2>1, EstadosDef
<1>13. MarcaPendiente'
  <2>1. porMarcar # 0 => porMarcar \in 1 .. n /\ n \in 1 .. n
    BY <1>2, IInvDef
  <2> QED BY <1>1, <1>2, <1>3, <1>5, <2>1 DEF MarcaPendiente, IInv, MarcasInv
<1>14. \A k : Cardinality(Reversas(k)) \in Nat /\ Cardinality(Reversas(k)') \in Nat
  <2> SUFFICES ASSUME NEW k PROVE Cardinality(Reversas(k)) \in Nat /\ Cardinality(Reversas(k)') \in Nat
    OBVIOUS
  <2>1. IsFiniteSet(Reversas(k)) /\ Cardinality(Reversas(k)) \in Nat
    BY ReversasSon, IInvDef
  <2>2. IsFiniteSet(Reversas(k)')
    BY <1>6, <2>1, FS_Subset
  <2> QED BY <2>1, <2>2, FS_CardinalityType
<1>15. Corregible'
  <2> SUFFICES ASSUME NEW k \in 1 .. n, jnl[k].corr = 0, k # porMarcar
               PROVE  Cardinality(Reversas(k)') <= caidas
    BY <1>3, <1>4, <1>5 DEF Corregible
  <2>1. Cardinality(Reversas(k)) <= caidas /\ caidas \in Nat
    BY <1>4, IInvDef DEF Corregible, IInv, MarcasInv
  <2> QED BY <1>7, <1>14, <2>1
<1>16. UnaReversa'
  <2> SUFFICES ASSUME NEW k \in 1 .. n PROVE Cardinality(Reversas(k)') <= 1 + caidas
    BY <1>3, <1>4 DEF UnaReversa
  <2>1. Cardinality(Reversas(k)) <= 1 + caidas /\ caidas \in Nat
    BY <1>4, IInvDef DEF UnaReversa, IInv
  <2> QED BY <1>7, <1>14, <2>1
<1> QED BY <1>9, <1>10, <1>11, <1>12, <1>13, <1>15, <1>16 DEF Marcas

\* The steps that leave the journal alone.
LEMMA QuietaMarcas ==
    ASSUME IInv, jnl' = jnl, UNCHANGED <<porMarcar, caidas>> \/ Cae
    PROVE  Marcas'
<1>1. Indices' = Indices /\ \A k : Reversas(k)' = Reversas(k)
  BY DEF Indices, Reversas
<1>2. \A k : ReversaRechazada(k)' <=> ReversaRechazada(k)
  BY <1>1 DEF ReversaRechazada
<1>3. MarcaCierta' /\ ReversaDeAnterior' /\ LocalAceptada'
  BY <1>1, <1>2 DEF MarcaCierta, ReversaDeAnterior, LocalAceptada, IInv, MarcasInv
<1>4. \A k : Cardinality(Reversas(k)) \in Nat
  BY ReversasSon, IInvDef
<1>5. caidas \in Nat /\ \A k \in Indices : Cardinality(Reversas(k)) <= 1 + caidas
  BY IInvDef DEF IInv, UnaReversa
<1>6. CASE UNCHANGED <<porMarcar, caidas>>
  <2>1. MarcaFiel' /\ MarcaPendiente' /\ Corregible' /\ UnaReversa'
    BY <1>1, <1>6 DEF MarcaFiel, MarcaPendiente, Corregible, UnaReversa, IInv, MarcasInv
  <2> QED BY <1>3, <2>1 DEF Marcas
<1>7. CASE Cae
  <2>1. caidas' = caidas + 1 /\ porMarcar' = 0
    BY <1>7 DEF Cae
  <2>2. MarcaFiel' /\ MarcaPendiente'
    BY <1>5, <2>1 DEF MarcaFiel, MarcaPendiente
  <2>3. Corregible' /\ UnaReversa'
    BY <1>1, <1>4, <1>5, <2>1 DEF Corregible, UnaReversa
  <2> QED BY <1>3, <2>2, <2>3 DEF Marcas
<1> QED BY <1>6, <1>7

-----------------------------------------------------------------------------
(* The rebuild of the day.                                                   *)

\* What the reading of a record that is not a correction does to each bucket.
LEMMA ReleeDef ==
    ASSUME IInv, NEW t \in Cuentas, NEW n \in 1 .. Len(jnl), ~jnl[n].rev
    PROVE  LET u == Relee(t, n) IN
           /\ u \in Cuentas
           /\ u["vta"] = t["vta"] + (IF jnl[n].tipo = "venta" THEN jnl[n].imp ELSE 0)
           /\ u["efe"] = t["efe"] - (IF jnl[n].tipo = "venta" THEN jnl[n].imp ELSE 0)
           /\ u["gral"] = t["gral"] + (IF jnl[n].tipo \in {"sesion", "nc"} THEN jnl[n].imp ELSE 0)
           /\ u["ini"] = IF EsInicial(jnl, n) THEN jnl[n].imp ELSE t["ini"]
<1> DEFINE r == [jnl[n] EXCEPT !.st = 0]
           tipo == IF jnl[n].tipo = "nc" THEN "sesion" ELSE jnl[n].tipo
           u == total_list(t, Lista(tipo), r, jnl[n].rev, FALSE)
<1>1. jnl[n] \in Registro
  BY IInvDef
<1>2. jnl[n].tipo \in Tipos /\ jnl[n].imp \in Nat /\ jnl[n].rev = FALSE
  BY <1>1, RegistroDef
<1>3. r.imp = jnl[n].imp /\ r.tipo = jnl[n].tipo /\ r.st = 0
  BY <1>1 DEF Registro
<1>4. Relee(t, n) = u
  BY DEF Relee, ListaReconstruida
<1>5. tipo \in Tipos
  BY <1>2 DEF Tipos
<1> HIDE DEF r
<1>6. ConSigno(r, jnl[n].rev) = jnl[n].imp
  BY <1>2, <1>3 DEF ConSigno
<1>7. Modificador(r, FALSE) <=> (jnl[n].tipo = "inicial" => jnl[n].imp # 0)
  BY <1>3, EstadosDef DEF Modificador
<1>8. /\ u \in Cuentas
      /\ ~Modificador(r, FALSE) => u = t
      /\ Modificador(r, FALSE) => Totalizado(u, t, tipo, r, jnl[n].rev)
  <2>1. r.imp \in Int
    BY <1>2, <1>3
  <2>2. jnl[n].rev \in BOOLEAN
    BY <1>1, RegistroDef
  <2> HIDE DEF tipo
  <2> QED BY <1>5, <2>1, <2>2, TotalizaDef, Zenon
<1>9. t["vta"] \in Int /\ t["efe"] \in Int /\ t["gral"] \in Int
  BY DEF Cuentas, Baldes
<1> HIDE DEF u
<1>10. CASE Modificador(r, FALSE)
  BY <1>2, <1>3, <1>4, <1>6, <1>7, <1>8, <1>9, <1>10 DEF Tipos, EsInicial, Totalizado
<1>11. CASE ~Modificador(r, FALSE)
  <2>1. jnl[n].tipo = "inicial" /\ jnl[n].imp = 0 /\ Relee(t, n) = t
    BY <1>4, <1>7, <1>8, <1>11
  <2>2. ~EsInicial(jnl, n)
    BY <2>1 DEF EsInicial
  <2> QED BY <1>9, <2>1, <2>2
<1> QED BY <1>10, <1>11

LEMMA ReleidosDef ==
    ASSUME IInv
    PROVE  /\ Releidos \in [0 .. Len(jnl) -> Cuentas] /\ Releidos[0] = TotsVacios
           /\ \A n \in 1 .. Len(jnl) :
                 Releidos[n] = IF n \in PorReconstruir THEN Relee(Releidos[n - 1], n)
                               ELSE Releidos[n - 1]
<1> DEFINE N == Len(jnl)
           Ronda(n, x) == IF n \in PorReconstruir THEN Relee(x, n) ELSE x
           G == [n \in 1 .. N |-> [x \in Cuentas |-> Ronda(n, x)]]
           P(b) == b = [n \in 0 .. N |-> IF n = 0 THEN TotsVacios ELSE Ronda(n, b[n - 1])]
           b == Releidos
<1>1. \A n \in 1 .. N, x \in Cuentas : Ronda(n, x) \in Cuentas
  <2> SUFFICES ASSUME NEW n \in 1 .. N, NEW x \in Cuentas, n \in PorReconstruir
               PROVE  Relee(x, n) \in Cuentas
    OBVIOUS
  <2>1. jnl[n].corr < 1 /\ jnl[n] \in Registro
    BY IInvDef DEF PorReconstruir
  <2>2. ~jnl[n].rev
    BY <2>1, IInvDef
  <2> QED BY <2>2, ReleeDef
<1>2. b = CHOOSE x : P(x)
  BY DEF Releidos
<1> HIDE DEF Ronda
<1>3. G \in [1 .. N -> [Cuentas -> Cuentas]] /\ N \in Nat /\ TotsVacios \in Cuentas
  BY <1>1, IInvDef DEF TotsVacios, Cuentas
<1> HIDE DEF N
<1>4. PICK f \in [0 .. N -> Cuentas] :
         f[0] = TotsVacios /\ \A n \in 1 .. N : f[n] = G[n][f[n - 1]]
  <2> DEFINE Z == Cuentas
  <2>1. G \in [1 .. N -> [Z -> Z]] /\ TotsVacios \in Z
    BY <1>3
  <2> HIDE DEF G, Z
  <2>2. HayBucle(Z, TotsVacios, N, G)
    BY <1>3, <2>1, Bucle, Zenon
  <2> QED BY <2>2, Zenon DEF HayBucle, Z
<1>5. \A n \in 1 .. N : f[n] = Ronda(n, f[n - 1])
  <2> SUFFICES ASSUME NEW n \in 1 .. N PROVE f[n] = Ronda(n, f[n - 1])
    OBVIOUS
  <2>1. f[n - 1] \in Cuentas
    BY <1>3
  <2> QED BY <1>4, <2>1
<1>6. P(f)
  BY <1>3, <1>4, <1>5
<1>7. P(b)
  <2> HIDE DEF P, b
  <2> QED BY <1>2, <1>6
<1> HIDE DEF b
<1>8. b = [n \in 0 .. N |-> b[n]]
  BY <1>3, <1>7
<1>9. b[0] = TotsVacios /\ \A n \in 1 .. N : b[n] = Ronda(n, b[n - 1])
  BY <1>3, <1>7
<1>10. b \in [0 .. N -> Cuentas]
  <2>1. b[0] \in Cuentas /\ \A n \in 1 .. N : b[n - 1] \in Cuentas => b[n] \in Cuentas
    BY <1>1, <1>3, <1>9 DEF N
  <2> QED BY <1>3, <1>8, <2>1, BucleTipo, Zenon
<1> QED BY <1>9, <1>10 DEF b, Ronda, N

\* The records of some types that the rebuild adds.
Releen(tipos) == {n \in PorReconstruir : jnl[n].tipo \in tipos}

\* What the rebuild gives, as sums over the journal.
LEMMA ReconstruccionDef ==
    ASSUME IInv
    PROVE  /\ Reconstruccion \in Cuentas
           /\ Reconstruccion["vta"] = ImporteDe(jnl, Releen({"venta"}))
           /\ Reconstruccion["efe"] = -ImporteDe(jnl, Releen({"venta"}))
           /\ Reconstruccion["gral"] = ImporteDe(jnl, Releen({"sesion", "nc"}))
           /\ Reconstruccion["ini"] = InicialHasta(jnl, Len(jnl))
<1> DEFINE N == Len(jnl)
           b == Releidos
           v == Terminos(jnl, Releen({"venta"}))
           g == Terminos(jnl, Releen({"sesion", "nc"}))
           sv == Parciales(v, N)
           sg == Parciales(g, N)
           A == {n \in 0 .. N : /\ b[n]["vta"] = sv[n] /\ b[n]["efe"] = -sv[n]
                                /\ b[n]["gral"] = sg[n] /\ b[n]["ini"] = InicialHasta(jnl, n)}
<1>1. /\ N \in Nat /\ v \in [1 .. N -> Int] /\ g \in [1 .. N -> Int]
      /\ \A n \in 1 .. N : v[n] = IF n \in Releen({"venta"}) THEN jnl[n].imp ELSE 0
      /\ \A n \in 1 .. N : g[n] = IF n \in Releen({"sesion", "nc"}) THEN jnl[n].imp ELSE 0
      /\ ImporteDe(jnl, Releen({"venta"})) = sv[N]
      /\ ImporteDe(jnl, Releen({"sesion", "nc"})) = sg[N]
  BY TerminosTipo, IInvDef
<1>2. b \in [0 .. N -> Cuentas] /\ b[0] = TotsVacios
  BY ReleidosDef
<1>3. \A n \in 1 .. N : b[n] = IF n \in PorReconstruir THEN Relee(b[n - 1], n) ELSE b[n - 1]
  BY ReleidosDef
<1> HIDE DEF v, g, b
<1>4. sv[0] = 0 /\ \A n \in 1 .. N : sv[n - 1] \in Int /\ sv[n] = sv[n - 1] + v[n]
  <2>1. sv \in [0 .. N -> Int] /\ sv[0] = 0 /\ \A n \in 1 .. N : sv[n] = sv[n - 1] + v[n]
    BY <1>1, ParcialesDef, Zenon
  <2> HIDE DEF sv
  <2> QED BY <1>1, <2>1
<1>5. sg[0] = 0 /\ \A n \in 1 .. N : sg[n - 1] \in Int /\ sg[n] = sg[n - 1] + g[n]
  <2>1. sg \in [0 .. N -> Int] /\ sg[0] = 0 /\ \A n \in 1 .. N : sg[n] = sg[n - 1] + g[n]
    BY <1>1, ParcialesDef, Zenon
  <2> HIDE DEF sg
  <2> QED BY <1>1, <2>1
<1> HIDE DEF sv, sg
<1>6. 0 \in A
  BY <1>1, <1>2, <1>4, <1>5, InicialHastaCero DEF TotsVacios, Baldes
<1>7. \A n \in 1 .. N : n - 1 \in A => n \in A
  <2> SUFFICES ASSUME NEW n \in 1 .. N, n - 1 \in A PROVE n \in A
    OBVIOUS
  <2>1. b[n - 1] \in Cuentas /\ n \in Nat /\ n # 0
    BY <1>1, <1>2
  <2>2. InicialHasta(jnl, n) = IF EsInicial(jnl, n) THEN jnl[n].imp ELSE InicialHasta(jnl, n - 1)
    BY <2>1, InicialHastaUno, Zenon
  <2>3. jnl[n].imp \in Nat /\ jnl[n].tipo \in Tipos /\ jnl[n].rev \in BOOLEAN
        /\ jnl[n].corr \in 0 .. MaxReg
    BY IInvDef, RegistroDef
  <2>4. n \in Indices
    BY IInvDef
  <2>5. /\ sv[n - 1] \in Int /\ sv[n] = sv[n - 1] + v[n]
        /\ sg[n - 1] \in Int /\ sg[n] = sg[n - 1] + g[n]
    BY <1>4, <1>5
  <2>6. CASE n \in PorReconstruir
    <3>1. ~jnl[n].rev
      BY <2>3, <2>6, IInvDef DEF PorReconstruir
    <3>2. LET u == Relee(b[n - 1], n)
              t == b[n - 1] IN
          /\ u["vta"] = t["vta"] + (IF jnl[n].tipo = "venta" THEN jnl[n].imp ELSE 0)
          /\ u["efe"] = t["efe"] - (IF jnl[n].tipo = "venta" THEN jnl[n].imp ELSE 0)
          /\ u["gral"] = t["gral"] + (IF jnl[n].tipo \in {"sesion", "nc"} THEN jnl[n].imp ELSE 0)
          /\ u["ini"] = IF EsInicial(jnl, n) THEN jnl[n].imp ELSE t["ini"]
      BY <2>1, <3>1, ReleeDef DEF N
    <3>3. b[n] = Relee(b[n - 1], n)
      BY <1>3, <2>6
    <3>4. v[n] = IF jnl[n].tipo = "venta" THEN jnl[n].imp ELSE 0
      BY <1>1, <2>6 DEF Releen
    <3>5. g[n] = IF jnl[n].tipo \in {"sesion", "nc"} THEN jnl[n].imp ELSE 0
      BY <1>1, <2>6 DEF Releen
    <3> HIDE DEF N
    <3>6. b[n]["vta"] = sv[n] /\ b[n]["efe"] = -sv[n] /\ b[n]["gral"] = sg[n]
      BY <2>3, <2>5, <3>2, <3>3, <3>4, <3>5
    <3>7. b[n]["ini"] = InicialHasta(jnl, n)
      BY <2>2, <3>2, <3>3
    <3> QED BY <1>1, <3>6, <3>7
  <2>7. CASE n \notin PorReconstruir
    <3>1. ~EsInicial(jnl, n)
      <4>1. jnl[n].tipo = "inicial" => jnl[n].st = HOST_ACCEPTED /\ jnl[n].corr = 0
        BY IInvDef
      <4> QED BY <2>4, <2>7, <4>1, EstadosDef DEF PorReconstruir, EsInicial
    <3>2. v[n] = 0 /\ g[n] = 0
      BY <1>1, <2>7 DEF Releen
    <3>3. b[n] = b[n - 1]
      BY <1>3, <2>7
    <3> QED BY <1>1, <2>2, <2>5, <3>1, <3>2, <3>3
  <2> QED BY <2>6, <2>7
<1>8. N \in A
  <2>1. \A n \in 0 .. N : n \in A
    <3> HIDE DEF A, N
    <3> QED BY <1>1, <1>6, <1>7, InduccionHasta, Zenon
  <2> QED BY <1>1, <2>1
<1>9. Reconstruccion = b[N]
  BY DEF Reconstruccion, b
<1> QED BY <1>1, <1>2, <1>8, <1>9

LEMMA ContadoBaldes ==
    /\ Contado["vta"] = ImporteDe(jnl, Valen("venta"))
    /\ Contado["efe"] = -ImporteDe(jnl, Valen("venta"))
    /\ Contado["gral"] = ImporteDe(jnl, Valen("sesion")) - ImporteDe(jnl, Valen("nc"))
    /\ Contado["ini"] = InicialDe(jnl)
    /\ Contado'["vta"] = ImporteDe(jnl', Valen("venta")')
    /\ Contado'["efe"] = -ImporteDe(jnl', Valen("venta")')
    /\ Contado'["gral"] = ImporteDe(jnl', Valen("sesion")') - ImporteDe(jnl', Valen("nc")')
    /\ Contado'["ini"] = InicialDe(jnl')
<1>1. \A t : Valen(t) = ValenDe(jnl, t)
  BY Zenon DEF Valen, ValenDe, Reversas, ReversasDe, Indices
<1>2. \A t : Valen(t)' = ValenDe(jnl', t)
  BY Zenon DEF Valen, ValenDe, Reversas, ReversasDe, Indices
<1>3. \A j : /\ ContadoDe(j)["vta"] = ImporteDe(j, ValenDe(j, "venta"))
             /\ ContadoDe(j)["efe"] = -ImporteDe(j, ValenDe(j, "venta"))
             /\ ContadoDe(j)["gral"] = ImporteDe(j, ValenDe(j, "sesion")) - ImporteDe(j, ValenDe(j, "nc"))
             /\ ContadoDe(j)["ini"] = InicialDe(j)
  BY DEF ContadoDe, Baldes
<1> QED BY <1>1, <1>2, <1>3, ContadoEs

\* The initial cash that should be is that of the last 8800, now and after a step.
LEMMA InicialContado ==
    ASSUME IInv
    PROVE  /\ Contado["ini"] = InicialHasta(jnl, Len(jnl))
           /\ jnl' \in Seq(Registro) /\ Marcas' => Contado'["ini"] = InicialHasta(jnl', Len(jnl'))
<1>1. InicialDe(jnl) = InicialHasta(jnl, Len(jnl))
  <2>1. jnl \in Seq(Registro)
    BY IInvDef
  <2>2. \A k \in 1 .. Len(jnl) :
          /\ jnl[k].tipo = "inicial" => ~jnl[k].rev /\ jnl[k].st = HOST_ACCEPTED
          /\ jnl[k].rev => jnl[k].corr \in 1 .. k - 1 /\ jnl[k].tipo = jnl[jnl[k].corr].tipo
    BY IInvDef
  <2> QED BY <2>1, <2>2, InicialDeEs
<1>2. ASSUME jnl' \in Seq(Registro), Marcas' PROVE InicialDe(jnl') = InicialHasta(jnl', Len(jnl'))
  <2>1. Indices' = 1 .. Len(jnl')
    BY <1>2 DEF Indices
  <2>2. \A k \in 1 .. Len(jnl') :
          /\ jnl'[k].tipo = "inicial" => ~jnl'[k].rev /\ jnl'[k].st = HOST_ACCEPTED
          /\ jnl'[k].rev => jnl'[k].corr \in 1 .. k - 1 /\ jnl'[k].tipo = jnl'[jnl'[k].corr].tipo
    BY <1>2, <2>1 DEF Marcas, LocalAceptada, ReversaDeAnterior
  <2> QED BY <1>2, <2>2, InicialDeEs
<1> QED BY <1>1, <1>2, ContadoBaldes

\* The amounts counted are those of records that stand: of their type, and with
\* no correction.
LEMMA ValenDef ==
    ASSUME IInv
    PROVE  \A t : /\ Valen(t) \subseteq 1 .. Len(jnl)
                  /\ \A n \in 1 .. Len(jnl) :
                        n \in Valen(t) <=> /\ jnl[n].tipo = t /\ ~jnl[n].rev
                                           /\ jnl[n].st < HOST_REJECTED /\ Reversas(n) = {}
BY IInvDef DEF Valen

\* No credit note is corrected, nor does it go to the host.
LEMMA NotasValen ==
    ASSUME IInv, NEW n \in 1 .. Len(jnl), jnl[n].tipo \in {"nc", "inicial"}
    PROVE  n \in Valen(jnl[n].tipo)
<1>1. ~jnl[n].rev /\ jnl[n].st = HOST_ACCEPTED
  BY IInvDef
<1>2. \A k \in 1 .. Len(jnl) : jnl[k].rev => jnl[k].tipo = jnl[jnl[k].corr].tipo
                                             /\ jnl[k].tipo \notin {"nc", "inicial"}
  BY IInvDef
<1>3. Reversas(n) = {}
  BY <1>2, IInvDef DEF Reversas
<1> QED BY <1>1, <1>3, ValenDef, EstadosDef

\* Once the corrections are marked, what the rebuild reads is what stands.
LEMMA LeidasValen ==
    ASSUME IInv, porMarcar = 0, caidas = 0, ~(\E i \in Indices : ReversaRechazada(i)),
           NEW n \in 1 .. Len(jnl)
    PROVE  n \in PorReconstruir <=> n \in Valen(jnl[n].tipo)
<1>1. n \in Indices /\ jnl[n] \in Registro
  BY IInvDef
<1>2. jnl[n].corr \in 0 .. MaxReg
  BY <1>1, RegistroDef
<1>3. ASSUME n \in PorReconstruir PROVE n \in Valen(jnl[n].tipo)
  <2>1. jnl[n].st < HOST_REJECTED /\ jnl[n].corr = 0
    BY <1>1, <1>2, <1>3 DEF PorReconstruir
  <2>2. ~jnl[n].rev
    BY <2>1, IInvDef
  <2>3. Reversas(n) = {}
    <3>1. n \in Indices \ {porMarcar}
      BY <1>1, IInvDef
    <3>2. ~jnl[n].rev /\ Reversas(n) # {} => jnl[n].corr # 0
      BY <3>1 DEF MarcaFiel, IInv, MarcasInv
    <3> QED BY <2>1, <2>2, <3>2
  <2> QED BY <2>1, <2>2, <2>3, ValenDef
<1>4. ASSUME n \in Valen(jnl[n].tipo) PROVE n \in PorReconstruir
  <2>1. ~jnl[n].rev /\ jnl[n].st < HOST_REJECTED /\ Reversas(n) = {}
    BY <1>4, ValenDef
  <2>2. ~jnl[n].rev /\ jnl[n].corr # 0 => Reversas(n) # {} \/ ReversaRechazada(n)
    BY <1>1 DEF MarcaCierta, IInv, MarcasInv
  <2>3. jnl[n].corr = 0
    BY <1>1, <2>1, <2>2
  <2> QED BY <1>1, <2>1, <2>3 DEF PorReconstruir
<1> QED BY <1>3, <1>4

LEMMA ReconstruccionDeInv == IInv => ReconstruccionExacta
<1> SUFFICES ASSUME IInv, porMarcar = 0, caidas = 0, ~(\E i \in Indices : ReversaRechazada(i)),
                    NEW b \in Baldes \ (IF Valen("nc") = {} THEN {} ELSE {"gral"})
             PROVE  Reconstruccion[b] = Contado[b]
  BY DEF ReconstruccionExacta
<1>1. jnl \in Seq(Registro) /\ Len(jnl) \in Nat
  BY IInvDef
<1>2. \A n \in 1 .. Len(jnl) : n \in PorReconstruir <=> n \in Valen(jnl[n].tipo)
  BY LeidasValen
<1>3. \A n \in 1 .. Len(jnl) : n \in Releen({"venta"}) <=> n \in Valen("venta")
  BY <1>2, ValenDef DEF Releen
<1>4. ImporteDe(jnl, Releen({"venta"})) = ImporteDe(jnl, Valen("venta"))
  BY <1>1, <1>3, ImporteIgual
<1>5. ASSUME Valen("nc") = {}
      PROVE  /\ ImporteDe(jnl, Releen({"sesion", "nc"})) = ImporteDe(jnl, Valen("sesion"))
             /\ ImporteDe(jnl, Valen("nc")) = 0
  <2>1. \A n \in 1 .. Len(jnl) : jnl[n].tipo # "nc"
    BY <1>5, NotasValen
  <2>2. \A n \in 1 .. Len(jnl) : n \in Releen({"sesion", "nc"}) <=> n \in Valen("sesion")
    BY <1>2, <2>1, ValenDef DEF Releen
  <2>3. ImporteDe(jnl, Releen({"sesion", "nc"})) = ImporteDe(jnl, Valen("sesion"))
    BY <1>1, <2>2, ImporteIgual
  <2>4. /\ Terminos(jnl, {}) \in [1 .. Len(jnl) -> Int]
        /\ \A n \in 1 .. Len(jnl) : Terminos(jnl, {})[n] = 0
        /\ ImporteDe(jnl, {}) = Parciales(Terminos(jnl, {}), Len(jnl))[Len(jnl)]
    BY <1>1, TerminosTipo
  <2>5. ImporteDe(jnl, {}) = 0
    BY <1>1, <2>4, ParcialesCero
  <2> QED BY <1>5, <2>3, <2>5
<1>6. ImporteDe(jnl, Valen("sesion")) \in Int
  BY <1>1, TerminosTipo
<1> QED BY <1>4, <1>5, <1>6, ReconstruccionDef, ContadoBaldes, InicialContado DEF Baldes

-----------------------------------------------------------------------------
(* What each step does to the totals, and to what they should be.            *)

\* Each bucket moves by what the step changes of the transactions that stand.
Cuadra == \A b \in Baldes : tots'[b] - tots[b] = Contado'[b] - Contado[b]

\* The amounts that move the buckets: of sales, of ends of session, of credit notes.
Mueve(u, t, dv, ds, dn) ==
    /\ u["vta"] = t["vta"] + dv /\ u["efe"] = t["efe"] - dv
    /\ u["gral"] = t["gral"] + ds - dn

LEMMA CuadraSi ==
    ASSUME IInv, jnl' \in Seq(Registro), tots' \in Cuentas, NEW dv \in Int, NEW ds \in Int, NEW dn \in Int,
           Mueve(tots', tots, dv, ds, dn),
           ImporteDe(jnl', Valen("venta")') = ImporteDe(jnl, Valen("venta")) + dv,
           ImporteDe(jnl', Valen("sesion")') = ImporteDe(jnl, Valen("sesion")) + ds,
           ImporteDe(jnl', Valen("nc")') = ImporteDe(jnl, Valen("nc")) + dn,
           InicialAlDia'
    PROVE  Cuadra
<1>1. jnl \in Seq(Registro) /\ tots \in Cuentas
  BY IInvDef
<1>2. tots["vta"] \in Int /\ tots["efe"] \in Int /\ tots["gral"] \in Int /\ tots["ini"] \in Int
  BY <1>1 DEF Cuentas, Baldes
<1>3. /\ ImporteDe(jnl, Valen("venta")) \in Int /\ ImporteDe(jnl, Valen("sesion")) \in Int
      /\ ImporteDe(jnl, Valen("nc")) \in Int
  BY <1>1, TerminosTipo
<1>4. tots["ini"] = Contado["ini"] /\ tots'["ini"] = Contado'["ini"]
  BY DEF InicialAlDia, IInv, MarcasInv
<1> DEFINE v == ImporteDe(jnl, Valen("venta"))
           s == ImporteDe(jnl, Valen("sesion"))
           c == ImporteDe(jnl, Valen("nc"))
<1>a. /\ Contado["vta"] = v /\ Contado["efe"] = -v /\ Contado["gral"] = s - c
      /\ Contado'["vta"] = v + dv /\ Contado'["efe"] = -(v + dv)
      /\ Contado'["gral"] = (s + ds) - (c + dn)
  BY ContadoBaldes, Zenon
<1>b. v \in Int /\ s \in Int /\ c \in Int
  BY <1>3
<1> HIDE DEF v, s, c
<1>c. /\ tots'["vta"] = tots["vta"] + dv /\ tots'["efe"] = tots["efe"] - dv
      /\ tots'["gral"] = tots["gral"] + ds - dn
  BY DEF Mueve
<1>5. tots'["vta"] - tots["vta"] = Contado'["vta"] - Contado["vta"]
  BY <1>2, <1>a, <1>b, <1>c
<1>6. tots'["efe"] - tots["efe"] = Contado'["efe"] - Contado["efe"]
  BY <1>2, <1>a, <1>b, <1>c
<1>7. tots'["gral"] - tots["gral"] = Contado'["gral"] - Contado["gral"]
  BY <1>2, <1>a, <1>b, <1>c
<1>8. tots'["ini"] - tots["ini"] = Contado'["ini"] - Contado["ini"]
  BY <1>4
<1> QED BY <1>5, <1>6, <1>7, <1>8 DEF Cuadra, Baldes

\* The amount of a record, if it is of a type.
SiEs(r, t) == IF r.tipo = t THEN r.imp ELSE 0

\* A TOTScommit that its modifier lets through moves the buckets by the record's amount.
LEMMA CommitMueve ==
    ASSUME IInv, NEW r \in Registro, NEW rev \in BOOLEAN, NEW reentry,
           r.tipo # "inicial" => (reentry <=> r.st >= HOST_REJECTED)
    PROVE  LET u == TOTScommit(tots, r, rev, reentry) IN
           /\ u \in Cuentas
           /\ rev = FALSE => Mueve(u, tots, SiEs(r, "venta"), SiEs(r, "sesion"), SiEs(r, "nc"))
           /\ rev = TRUE => Mueve(u, tots, 0 - SiEs(r, "venta"), 0 - SiEs(r, "sesion"), 0 - SiEs(r, "nc"))
           /\ r.tipo # "inicial" => u["ini"] = tots["ini"]
           /\ r.tipo = "inicial" /\ r.imp = 0 => u["ini"] = tots["ini"]
           /\ r.tipo = "inicial" /\ r.imp # 0 /\ ~rev => u["ini"] = r.imp
<1> DEFINE u == TOTScommit(tots, r, rev, reentry)
<1>1. r.tipo \in Tipos /\ r.imp \in Nat /\ r.imp \in Int
  <2>1. r.tipo \in Tipos /\ r.imp \in Nat
    BY RegistroDef
  <2> QED BY <2>1
<1>2. tots \in Cuentas
  BY IInvDef
<1>3. Modificador(r, reentry) <=> (r.tipo = "inicial" => r.imp # 0)
  BY DEF Modificador
<1>4. /\ u \in Cuentas
      /\ ~Modificador(r, reentry) => u = tots
      /\ Modificador(r, reentry) => Totalizado(u, tots, r.tipo, r, rev)
  <2>1. r.tipo \in Tipos
    BY <1>1
  <2>2. r.imp \in Int
    BY <1>1
  <2>3. u = total_list(tots, Lista(r.tipo), r, rev, reentry)
    BY DEF TOTScommit
  <2> HIDE DEF u
  <2>4. ASSUME NEW x \in BOOLEAN, x = rev
        PROVE  /\ total_list(tots, Lista(r.tipo), r, x, reentry) \in Cuentas
               /\ ~Modificador(r, reentry) => total_list(tots, Lista(r.tipo), r, x, reentry) = tots
               /\ Modificador(r, reentry) =>
                     Totalizado(total_list(tots, Lista(r.tipo), r, x, reentry), tots, r.tipo, r, x)
    BY <1>2, <2>1, <2>2, TotalizaDef
  <2> QED BY <2>3, <2>4
<1> HIDE DEF u
<1>5. tots["vta"] \in Int /\ tots["efe"] \in Int /\ tots["gral"] \in Int
  BY <1>2 DEF Cuentas, Baldes
<1>6. CASE ~Modificador(r, reentry)
  <2>1. r.tipo = "inicial" /\ r.imp = 0 /\ u = tots
    BY <1>3, <1>4, <1>6
  <2>2. SiEs(r, "venta") = 0 /\ SiEs(r, "sesion") = 0 /\ SiEs(r, "nc") = 0
    BY <2>1 DEF SiEs
  <2>3. Mueve(u, tots, 0, 0, 0)
    BY <1>5, <2>1 DEF Mueve
  <2>4. 0 - 0 = 0
    OBVIOUS
  <2> QED BY <1>4, <2>1, <2>2, <2>3, <2>4 DEF u
<1>7. CASE Modificador(r, reentry)
  <2>1. Totalizado(u, tots, r.tipo, r, rev)
    BY <1>4, <1>7
  <2>2. CASE rev = FALSE
    <3>1. Mueve(u, tots, SiEs(r, "venta"), SiEs(r, "sesion"), SiEs(r, "nc"))
      BY <1>1, <1>5, <2>1, <2>2 DEF Mueve, SiEs, Totalizado, ConSigno, Tipos
    <3> QED BY <1>3, <1>4, <1>7, <2>1, <2>2, <3>1 DEF Totalizado, u
  <2>3. CASE rev = TRUE
    <3>1. Mueve(u, tots, 0 - SiEs(r, "venta"), 0 - SiEs(r, "sesion"), 0 - SiEs(r, "nc"))
      BY <1>1, <1>5, <2>1, <2>3 DEF Mueve, SiEs, Totalizado, ConSigno, Tipos
    <3> QED BY <1>3, <1>4, <1>7, <2>1, <2>3, <3>1 DEF Totalizado, u
  <2> QED BY <2>2, <2>3
<1> QED BY <1>6, <1>7

\* A new record changes the initial cash if it is that of an 8800 with an amount.
LEMMA InicialAgrega ==
    ASSUME IInv, NEW r \in Registro, jnl' = Append(jnl, r), Marcas'
    PROVE  Contado'["ini"] = IF r.tipo = "inicial" /\ r.imp # 0 THEN r.imp ELSE Contado["ini"]
<1>1. PICK n \in Nat : n = Len(jnl)
  BY IInvDef
<1>2. /\ jnl' \in Seq(Registro) /\ Len(jnl') = n + 1 /\ jnl'[n + 1] = r
      /\ \A i \in 1 .. n : jnl'[i] = jnl[i]
  BY <1>1, AgregaDef, IInvDef
<1>3. Contado'["ini"] = InicialHasta(jnl', n + 1)
  BY <1>2, InicialContado
<1>4. n + 1 \in Nat /\ n + 1 # 0 /\ (n + 1) - 1 = n
  BY <1>1
<1>5. InicialHasta(jnl', n + 1) =
         IF EsInicial(jnl', n + 1) THEN jnl'[n + 1].imp ELSE InicialHasta(jnl', (n + 1) - 1)
  BY <1>4, InicialHastaUno, Zenon
<1>6. InicialHasta(jnl', n) = InicialHasta(jnl, n)
  <2>1. \A i \in 1 .. n : jnl'[i].tipo = jnl[i].tipo /\ jnl'[i].imp = jnl[i].imp
    BY <1>2
  <2> QED BY <2>1, InicialHastaIgual, Zenon
<1>7. Contado["ini"] = InicialHasta(jnl, n)
  BY <1>1, InicialContado
<1> QED BY <1>2, <1>3, <1>4, <1>5, <1>6, <1>7 DEF EsInicial

\* A step that changes the marks of the records, or their states, does not.
LEMMA InicialMisma ==
    ASSUME IInv, jnl' \in Seq(Registro), Marcas', Len(jnl') = Len(jnl),
           \A n \in 1 .. Len(jnl) : jnl'[n].tipo = jnl[n].tipo /\ jnl'[n].imp = jnl[n].imp
    PROVE  Contado'["ini"] = Contado["ini"]
<1>1. PICK n \in Nat : n = Len(jnl)
  BY IInvDef
<1>2. Contado'["ini"] = InicialHasta(jnl', n) /\ Contado["ini"] = InicialHasta(jnl, n)
  BY <1>1, InicialContado
<1>3. \A i \in 1 .. n : jnl'[i].tipo = jnl[i].tipo /\ jnl'[i].imp = jnl[i].imp
  BY <1>1
<1>4. InicialHasta(jnl', n) = InicialHasta(jnl, n)
  BY <1>3, InicialHastaIgual, Zenon
<1> QED BY <1>2, <1>4

\* A new transaction.
LEMMA NuevaTotales ==
    ASSUME IInv, NEW r \in Registro, Nueva(r)
    PROVE  tots' \in Cuentas /\ jnl' \in Seq(Registro) /\ InicialAlDia' /\ Cuadra
<1>1. PICK n \in Nat : n = Len(jnl)
  BY IInvDef
<1>2. /\ jnl' \in Seq(Registro) /\ Len(jnl') = n + 1 /\ Indices' = 1 .. n + 1
      /\ \A i \in 1 .. n : jnl'[i] = jnl[i]
      /\ jnl'[n + 1] = r
  BY <1>1, AgregaDef, IInvDef DEF Nueva
<1>3. /\ ~r.rev /\ r.st \in Codigos /\ (r.tipo # "venta" => r.st = HOST_ACCEPTED)
      /\ tots' = IF r.st < HOST_REJECTED THEN TOTScommit(tots, r, FALSE, FALSE) ELSE tots
  BY DEF Nueva
<1>4. (\A k : Reversas(k)' = Reversas(k)) /\ Reversas(n + 1) = {}
  BY <1>1, ReversasNueva, ReversasDelSiguiente
<1>5. \A t : \A i \in 1 .. n : i \in Valen(t)' <=> i \in Valen(t)
  BY <1>1, <1>2, <1>4, IInvDef DEF Valen
<1>6. \A t : n + 1 \in Valen(t)' <=> r.tipo = t /\ r.st < HOST_REJECTED
  BY <1>2, <1>3, <1>4 DEF Valen
<1>7. \A t : ImporteDe(jnl', Valen(t)') =
                ImporteDe(jnl, Valen(t)) + (IF n + 1 \in Valen(t)' THEN r.imp ELSE 0)
  <2> SUFFICES ASSUME NEW t
               PROVE  ImporteDe(jnl', Valen(t)') =
                         ImporteDe(jnl, Valen(t)) + (IF n + 1 \in Valen(t)' THEN r.imp ELSE 0)
    OBVIOUS
  <2>1. \A i \in 1 .. n : jnl'[i].imp = jnl[i].imp
    BY <1>2
  <2>2. jnl \in Seq(Registro)
    BY IInvDef
  <2> QED BY <1>1, <1>2, <1>5, <2>1, <2>2, ImporteMas
<1>8. r.tipo \in Tipos /\ r.imp \in Nat /\ r.st \in Nat
  BY RegistroDef
<1>9. /\ jnl \in Seq(Registro) /\ tots \in Cuentas
      /\ Contado["ini"] = InicialHasta(jnl, n) /\ tots["ini"] = Contado["ini"]
  BY <1>1, IInvDef, InicialContado DEF InicialAlDia, IInv, MarcasInv
<1>10. Contado'["ini"] = IF r.tipo = "inicial" /\ r.imp # 0 THEN r.imp ELSE Contado["ini"]
  BY NuevaMarcas, InicialAgrega DEF Nueva
<1>11. /\ ImporteDe(jnl, Valen("venta")) \in Int /\ ImporteDe(jnl, Valen("sesion")) \in Int
       /\ ImporteDe(jnl, Valen("nc")) \in Int
  BY <1>9, TerminosTipo
<1>12. CASE r.st < HOST_REJECTED
  <2>1. /\ tots' \in Cuentas
        /\ Mueve(tots', tots, SiEs(r, "venta"), SiEs(r, "sesion"), SiEs(r, "nc"))
        /\ r.tipo # "inicial" => tots'["ini"] = tots["ini"]
        /\ r.tipo = "inicial" /\ r.imp = 0 => tots'["ini"] = tots["ini"]
        /\ r.tipo = "inicial" /\ r.imp # 0 => tots'["ini"] = r.imp
    <3>1. r.tipo # "inicial" => (FALSE <=> r.st >= HOST_REJECTED)
      BY <1>8, <1>12, EstadosDef
    <3> QED BY <1>3, <1>12, <3>1, CommitMueve
  <2>2. InicialAlDia'
    BY <1>9, <1>10, <2>1 DEF InicialAlDia
  <2>3. /\ ImporteDe(jnl', Valen("venta")') = ImporteDe(jnl, Valen("venta")) + SiEs(r, "venta")
        /\ ImporteDe(jnl', Valen("sesion")') = ImporteDe(jnl, Valen("sesion")) + SiEs(r, "sesion")
        /\ ImporteDe(jnl', Valen("nc")') = ImporteDe(jnl, Valen("nc")) + SiEs(r, "nc")
    BY <1>6, <1>7, <1>12 DEF SiEs
  <2>4. SiEs(r, "venta") \in Int /\ SiEs(r, "sesion") \in Int /\ SiEs(r, "nc") \in Int
    BY <1>8 DEF SiEs
  <2>5. Cuadra
    BY <1>2, <2>1, <2>2, <2>3, <2>4, CuadraSi
  <2> QED BY <1>2, <2>1, <2>2, <2>5
<1>13. CASE ~(r.st < HOST_REJECTED)
  <2>1. tots' = tots /\ r.tipo = "venta"
    BY <1>3, <1>13, EstadosDef
  <2>2. InicialAlDia'
    BY <1>9, <1>10, <2>1 DEF InicialAlDia
  <2>3. Mueve(tots', tots, 0, 0, 0)
    BY <1>9, <2>1 DEF Mueve, Cuentas, Baldes
  <2>4. /\ ImporteDe(jnl', Valen("venta")') = ImporteDe(jnl, Valen("venta")) + 0
        /\ ImporteDe(jnl', Valen("sesion")') = ImporteDe(jnl, Valen("sesion")) + 0
        /\ ImporteDe(jnl', Valen("nc")') = ImporteDe(jnl, Valen("nc")) + 0
    BY <1>6, <1>7, <1>13
  <2>5. Cuadra
    BY <1>2, <1>9, <2>1, <2>2, <2>3, <2>4, CuadraSi
  <2> QED BY <1>2, <1>9, <2>1, <2>2, <2>5
<1> QED BY <1>12, <1>13

\* The transactions that stand are the same, and so are the totals.
LEMMA SinCambio ==
    ASSUME IInv, jnl' \in Seq(Registro), Marcas', Len(jnl') = Len(jnl), tots' = tots,
           \A n \in 1 .. Len(jnl) : jnl'[n].tipo = jnl[n].tipo /\ jnl'[n].imp = jnl[n].imp,
           \A t : \A n \in 1 .. Len(jnl) : n \in Valen(t)' <=> n \in Valen(t)
    PROVE  InicialAlDia' /\ Cuadra
<1>1. jnl \in Seq(Registro) /\ tots \in Cuentas /\ tots["ini"] = Contado["ini"]
  BY IInvDef DEF IInv, MarcasInv, InicialAlDia
<1>2. InicialAlDia'
  BY <1>1, InicialMisma DEF InicialAlDia
<1>3. \A t : ImporteDe(jnl', Valen(t)') = ImporteDe(jnl, Valen(t))
  <2> SUFFICES ASSUME NEW t PROVE ImporteDe(jnl', Valen(t)') = ImporteDe(jnl, Valen(t))
    OBVIOUS
  <2> QED BY <1>1, ImporteIgual
<1>4. \A t : ImporteDe(jnl, Valen(t)) \in Int
  BY <1>1, TerminosTipo
<1>5. \A t : ImporteDe(jnl', Valen(t)') = ImporteDe(jnl, Valen(t)) + 0
  BY <1>3, <1>4
<1>6. Mueve(tots', tots, 0, 0, 0)
  BY <1>1 DEF Mueve, Cuentas, Baldes
<1>7. Cuadra
  BY <1>1, <1>2, <1>5, <1>6, CuadraSi
<1> QED BY <1>2, <1>7

\* A transaction stands no longer: its sum loses its amount.
LEMMA ImporteMenos ==
    ASSUME IInv, NEW i \in 1 .. Len(jnl), NEW t, jnl[i].tipo = t => i \in Valen(t)
    PROVE  ImporteDe(jnl, Valen(t) \ {i}) = ImporteDe(jnl, Valen(t)) + (0 - SiEs(jnl[i], t))
<1>1. jnl \in Seq(Registro)
  BY IInvDef
<1>2. i \in Valen(t) <=> jnl[i].tipo = t
  BY ValenDef
<1>3. \A n \in 1 .. Len(jnl) : n # i => (n \in Valen(t) \ {i} <=> n \in Valen(t))
  OBVIOUS
<1>4. ImporteDe(jnl, Valen(t) \ {i}) =
         ImporteDe(jnl, Valen(t)) + (IF i \in Valen(t) \ {i} THEN jnl[i].imp ELSE 0)
                                  - (IF i \in Valen(t) THEN jnl[i].imp ELSE 0)
  BY <1>1, <1>3, ImporteUno
<1>5. ImporteDe(jnl, Valen(t)) \in Int
  BY <1>1, TerminosTipo
<1>6. jnl[i].imp \in Nat
  BY IInvDef, RegistroDef
<1>7. ImporteDe(jnl, Valen(t) \ {i}) = ImporteDe(jnl, Valen(t)) + 0 - SiEs(jnl[i], t)
  BY <1>2, <1>4 DEF SiEs
<1>8. SiEs(jnl[i], t) \in Int
  BY <1>6 DEF SiEs
<1> QED BY <1>5, <1>7, <1>8

LEMMA CorreccionTotales ==
    ASSUME IInv, NEW i \in 1 .. Len(jnl), NEW r \in Registro, Correccion(i, r)
    PROVE  /\ tots' \in Cuentas /\ jnl' \in Seq(Registro) /\ InicialAlDia'
           /\ caidas = 0 => Cuadra
<1>1. PICK n \in Nat : n = Len(jnl)
  BY IInvDef
<1>2. /\ jnl' \in Seq(Registro) /\ Len(jnl') = n + 1 /\ Indices' = 1 .. n + 1
      /\ \A k \in 1 .. n : jnl'[k] = jnl[k]
      /\ jnl'[n + 1] = r
  BY <1>1, AgregaDef, IInvDef DEF Correccion
<1>3. /\ r.rev = TRUE /\ r.tipo = jnl[i].tipo /\ r.imp = jnl[i].imp /\ r.st \in Codigos
      /\ r.tipo \in {"venta", "sesion"}
      /\ ~jnl[i].rev /\ jnl[i].corr = 0 /\ jnl[i].st < HOST_REJECTED /\ porMarcar = 0
      /\ tots' = IF r.st < HOST_REJECTED THEN TOTScommit(tots, r, TRUE, FALSE) ELSE tots
  BY DEF Correccion, Reversible
<1>4. /\ \A k : k # i => Reversas(k)' = Reversas(k)
      /\ Reversas(i)' = IF r.st < HOST_REJECTED THEN Reversas(i) \cup {n + 1} ELSE Reversas(i)
  BY <1>1, ReversasCorrige
<1>5. /\ jnl \in Seq(Registro) /\ tots \in Cuentas /\ tots["ini"] = Contado["ini"]
  BY IInvDef DEF IInv, MarcasInv, InicialAlDia
<1>6. Contado'["ini"] = Contado["ini"]
  BY <1>3, CorreccionMarcas, InicialAgrega DEF Correccion
<1>7. \A t : n + 1 \notin Valen(t)'
  BY <1>2, <1>3 DEF Valen
<1>8. r.tipo \in Tipos /\ r.imp \in Nat /\ r.st \in Nat
  BY RegistroDef
<1>9. \A t, S : (\A k \in 1 .. n : k \in Valen(t)' <=> k \in S) =>
                   ImporteDe(jnl', Valen(t)') = ImporteDe(jnl, S)
  <2> SUFFICES ASSUME NEW t, NEW S, \A k \in 1 .. n : k \in Valen(t)' <=> k \in S
               PROVE  ImporteDe(jnl', Valen(t)') = ImporteDe(jnl, S)
    OBVIOUS
  <2>1. \A k \in 1 .. n : jnl'[k].imp = jnl[k].imp
    BY <1>2
  <2>2. ImporteDe(jnl', Valen(t)') =
           ImporteDe(jnl, S) + (IF n + 1 \in Valen(t)' THEN jnl'[n + 1].imp ELSE 0)
    BY <1>1, <1>2, <1>5, <2>1, ImporteMas
  <2>3. ImporteDe(jnl, S) \in Int
    BY <1>5, TerminosTipo
  <2> QED BY <1>7, <2>2, <2>3
<1>10. CASE r.st < HOST_REJECTED
  <2>1. /\ tots' \in Cuentas /\ tots'["ini"] = tots["ini"]
        /\ Mueve(tots', tots, 0 - SiEs(r, "venta"), 0 - SiEs(r, "sesion"), 0 - SiEs(r, "nc"))
    <3>1. r.tipo # "inicial" => (FALSE <=> r.st >= HOST_REJECTED)
      BY <1>8, <1>10, EstadosDef
    <3> QED BY <1>3, <1>10, <3>1, CommitMueve
  <2>2. InicialAlDia'
    BY <1>5, <1>6, <2>1 DEF InicialAlDia
  <2>3. ASSUME caidas = 0 PROVE Cuadra
    <3>1. Reversas(i) = {}
      <4>1. i \in Indices \ {porMarcar}
        BY <1>3, IInvDef
      <4> QED BY <1>3, <2>3, <4>1 DEF IInv, MarcasInv, MarcaFiel
    <3>2. \A t : jnl[i].tipo = t => i \in Valen(t)
      BY <1>3, <3>1, ValenDef
    <3>3. \A t : \A k \in 1 .. n : k \in Valen(t)' <=> k \in Valen(t) \ {i}
      <4> SUFFICES ASSUME NEW t, NEW k \in 1 .. n PROVE k \in Valen(t)' <=> k \in Valen(t) \ {i}
        OBVIOUS
      <4>1. CASE k = i
        BY <1>4, <1>10, <4>1 DEF Valen
      <4>2. CASE k # i
        BY <1>1, <1>2, <1>4, <4>2, IInvDef DEF Valen
      <4> QED BY <4>1, <4>2
    <3>4. \A t : ImporteDe(jnl', Valen(t)') = ImporteDe(jnl, Valen(t)) + (0 - SiEs(r, t))
      <4> SUFFICES ASSUME NEW t
                   PROVE  ImporteDe(jnl', Valen(t)') = ImporteDe(jnl, Valen(t)) + (0 - SiEs(r, t))
        OBVIOUS
      <4>1. ImporteDe(jnl, Valen(t) \ {i}) = ImporteDe(jnl, Valen(t)) + (0 - SiEs(jnl[i], t))
        BY <3>2, ImporteMenos
      <4>2. SiEs(jnl[i], t) = SiEs(r, t)
        BY <1>3 DEF SiEs
      <4> QED BY <1>9, <3>3, <4>1, <4>2
    <3>5. 0 - SiEs(r, "venta") \in Int /\ 0 - SiEs(r, "sesion") \in Int /\ 0 - SiEs(r, "nc") \in Int
      BY <1>8 DEF SiEs
    <3> QED BY <1>2, <2>1, <2>2, <3>4, <3>5, CuadraSi
  <2> QED BY <1>2, <2>1, <2>2, <2>3
<1>11. CASE ~(r.st < HOST_REJECTED)
  <2>1. tots' = tots
    BY <1>3, <1>11
  <2>2. InicialAlDia'
    BY <1>5, <1>6, <2>1 DEF InicialAlDia
  <2>3. \A t : \A k \in 1 .. n : k \in Valen(t)' <=> k \in Valen(t)
    BY <1>1, <1>2, <1>4, <1>11, IInvDef DEF Valen
  <2>4. \A t : ImporteDe(jnl', Valen(t)') = ImporteDe(jnl, Valen(t))
    BY <1>9, <2>3
  <2>5. \A t : ImporteDe(jnl, Valen(t)) \in Int
    BY <1>5, TerminosTipo
  <2>6. \A t : ImporteDe(jnl', Valen(t)') = ImporteDe(jnl, Valen(t)) + 0
    BY <2>4, <2>5
  <2>7. Mueve(tots', tots, 0, 0, 0)
    BY <1>5, <2>1 DEF Mueve, Cuentas, Baldes
  <2>8. Cuadra
    <3>1. /\ ImporteDe(jnl', Valen("venta")') = ImporteDe(jnl, Valen("venta")) + 0
          /\ ImporteDe(jnl', Valen("sesion")') = ImporteDe(jnl, Valen("sesion")) + 0
          /\ ImporteDe(jnl', Valen("nc")') = ImporteDe(jnl, Valen("nc")) + 0
      BY <2>6
    <3>2. tots' \in Cuentas /\ jnl' \in Seq(Registro)
      BY <1>2, <1>5, <2>1
    <3> QED BY <2>2, <2>7, <3>1, <3>2, CuadraSi
  <2> QED BY <1>2, <1>5, <2>1, <2>2, <2>8
<1> QED BY <1>10, <1>11

LEMMA MarcaTotales ==
    ASSUME IInv, MISCmarca_corregida
    PROVE  tots' \in Cuentas /\ jnl' \in Seq(Registro) /\ InicialAlDia' /\ Cuadra
<1>1. PICK m \in 1 .. Len(jnl) : m = porMarcar
  BY MarcaForma DEF IInv, MarcasInv
<1> DEFINE r == [jnl[m] EXCEPT !.corr = Len(jnl)]
<1>2. jnl' = [jnl EXCEPT ![m] = r] /\ r \in Registro /\ tots' = tots
  BY <1>1, MarcaForma DEF IInv, MarcasInv
<1>3. r.tipo = jnl[m].tipo /\ r.imp = jnl[m].imp /\ r.rev = jnl[m].rev /\ r.st = jnl[m].st
  <2>1. jnl[m] \in Registro
    BY IInvDef
  <2> QED BY <2>1 DEF Registro
<1> HIDE DEF r
<1>4. /\ jnl' \in Seq(Registro) /\ Len(jnl') = Len(jnl)
      /\ Indices' = 1 .. Len(jnl) /\ Indices = 1 .. Len(jnl)
      /\ \A k \in 1 .. Len(jnl) : jnl'[k] = IF k = m THEN r ELSE jnl[k]
  BY <1>2, CambiaDef, IInvDef
<1>5. \A k \in 1 .. Len(jnl) : /\ jnl'[k].tipo = jnl[k].tipo /\ jnl'[k].imp = jnl[k].imp
                               /\ jnl'[k].rev = jnl[k].rev /\ jnl'[k].st = jnl[k].st
  BY <1>3, <1>4
<1>6. \A t : \A k \in 1 .. Len(jnl) : k \in Valen(t)' <=> k \in Valen(t)
  BY <1>4, <1>5, ReversasMarca DEF Valen
<1>7. InicialAlDia' /\ Cuadra
  BY <1>2, <1>4, <1>5, <1>6, MarcaMarcas, SinCambio
<1> QED BY <1>2, <1>4, <1>7, IInvDef

LEMMA ReentraTotales ==
    ASSUME IInv, JNLreentry_upd \/ ReentraSupervisor
    PROVE  /\ tots' \in Cuentas /\ jnl' \in Seq(Registro) /\ InicialAlDia'
           /\ JNLreentry_upd /\ ~ReversaPendiente => Cuadra
<1>1. PICK st : /\ Reentra(Min(Pendientes), st)
                /\ [jnl[Min(Pendientes)] EXCEPT !.st = st] \in Registro
                /\ JNLreentry_upd => tots' = IF st >= HOST_REJECTED
                      THEN TOTScommit(tots, [jnl[Min(Pendientes)] EXCEPT !.st = st],
                                      ~jnl[Min(Pendientes)].rev, TRUE) ELSE tots
                /\ ~JNLreentry_upd => tots' = tots
  BY ReentraForma DEF IInv, MarcasInv
<1>2. PICK i : i = Min(Pendientes)
  OBVIOUS
<1> DEFINE r == [jnl[i] EXCEPT !.st = st]
<1>3. /\ Reentra(i, st) /\ r \in Registro
      /\ JNLreentry_upd => tots' = IF st >= HOST_REJECTED
            THEN TOTScommit(tots, r, ~jnl[i].rev, TRUE) ELSE tots
      /\ ~JNLreentry_upd => tots' = tots
  BY <1>1, <1>2
<1>4. /\ i \in 1 .. Len(jnl) /\ jnl[i].st = UNPOSTED
      /\ jnl' \in Seq(Registro) /\ Len(jnl') = Len(jnl) /\ Indices' = 1 .. Len(jnl)
      /\ \A k \in 1 .. Len(jnl) : k # i => jnl'[k] = jnl[k]
      /\ jnl'[i].tipo = jnl[i].tipo /\ jnl'[i].imp = jnl[i].imp /\ jnl'[i].rev = jnl[i].rev
      /\ jnl'[i].corr = jnl[i].corr /\ jnl'[i].st = st
      /\ st = HOST_ACCEPTED \/ ~jnl[i].rev => \A k : Reversas(k)' = Reversas(k)
  BY <1>3, ReversasReentra
<1>5. jnl[i] \in Registro /\ Indices = 1 .. Len(jnl) /\ st \in {HOST_ACCEPTED, HOST_REJECTED}
  BY <1>3, <1>4, IInvDef DEF Reentra
<1>6. r.tipo = jnl[i].tipo /\ r.imp = jnl[i].imp /\ r.st = st
  BY <1>5 DEF Registro
<1>7. jnl[i].rev \in BOOLEAN /\ jnl[i].imp \in Nat /\ jnl[i].tipo \in Tipos
  BY <1>5, RegistroDef
<1>8. r.tipo # "inicial" /\ (~jnl[i].rev => r.tipo = "venta")
  <2>1. jnl[i].tipo # "venta" /\ ~jnl[i].rev => jnl[i].st = HOST_ACCEPTED
    BY <1>4, IInvDef
  <2>2. jnl[i].tipo = "inicial" => ~jnl[i].rev
    BY <1>4, IInvDef
  <2> QED BY <1>4, <1>6, <2>1, <2>2, EstadosDef
<1> HIDE DEF r
<1>9. Marcas'
  BY <1>1, ReentraMarcas
<1>10. /\ tots \in Cuentas /\ jnl \in Seq(Registro) /\ tots["ini"] = Contado["ini"]
  BY IInvDef DEF IInv, MarcasInv, InicialAlDia
<1>11. tots' \in Cuentas /\ tots'["ini"] = tots["ini"]
  <2>1. ASSUME NEW rev \in BOOLEAN, st >= HOST_REJECTED
        PROVE  /\ TOTScommit(tots, r, rev, TRUE) \in Cuentas
               /\ TOTScommit(tots, r, rev, TRUE)["ini"] = tots["ini"]
    <3>1. r.tipo # "inicial" => (TRUE <=> r.st >= HOST_REJECTED)
      BY <1>6, <2>1
    <3> QED BY <1>3, <1>8, <3>1, CommitMueve
  <2>2. (~jnl[i].rev) \in BOOLEAN
    BY Zenon
  <2>3. CASE JNLreentry_upd /\ st >= HOST_REJECTED
    BY <1>3, <2>1, <2>2, <2>3
  <2>4. CASE ~(JNLreentry_upd /\ st >= HOST_REJECTED)
    BY <1>3, <1>10, <2>4
  <2> QED BY <2>3, <2>4
<1>12. \A k \in 1 .. Len(jnl) : jnl'[k].tipo = jnl[k].tipo /\ jnl'[k].imp = jnl[k].imp
  BY <1>4
<1>13. Contado'["ini"] = Contado["ini"]
  BY <1>4, <1>9, <1>12, InicialMisma
<1>14. InicialAlDia'
  BY <1>10, <1>11, <1>13 DEF InicialAlDia
<1>15. ASSUME JNLreentry_upd, ~ReversaPendiente PROVE Cuadra
  <2>1. ~jnl[i].rev
    BY <1>4, <1>5, <1>15 DEF ReversaPendiente, Pendientes
  <2>2. \A k : Reversas(k)' = Reversas(k)
    BY <1>4, <2>1
  <2>3. CASE st = HOST_ACCEPTED
    <3>1. tots' = tots
      BY <1>3, <1>15, <2>3, EstadosDef
    <3>2. \A t : \A k \in 1 .. Len(jnl) : k \in Valen(t)' <=> k \in Valen(t)
      <4> SUFFICES ASSUME NEW t, NEW k \in 1 .. Len(jnl) PROVE k \in Valen(t)' <=> k \in Valen(t)
        OBVIOUS
      <4>1. CASE k = i
        BY <1>4, <1>5, <2>2, <2>3, <4>1, EstadosDef DEF Valen
      <4>2. CASE k # i
        BY <1>4, <1>5, <2>2, <4>2 DEF Valen
      <4> QED BY <4>1, <4>2
    <3> QED BY <1>4, <1>9, <1>12, <3>1, <3>2, SinCambio
  <2>4. CASE st = HOST_REJECTED
    <3>1. Reversas(i) = {}
      <4>1. \A k \in 1 .. Len(jnl) : jnl[k].rev => jnl[k].st # UNPOSTED
        BY <1>5, <1>15 DEF ReversaPendiente, Pendientes
      <4>2. \A k \in 1 .. Len(jnl) : jnl[k].rev /\ jnl[k].corr = i => jnl[k].st = UNPOSTED
        BY <1>4, IInvDef
      <4> QED BY <1>5, <4>1, <4>2 DEF Reversas
    <3>2. \A t : jnl[i].tipo = t => i \in Valen(t)
      BY <1>4, <2>1, <3>1, ValenDef, EstadosDef
    <3>3. \A t : \A k \in 1 .. Len(jnl) : k \in Valen(t)' <=> k \in Valen(t) \ {i}
      <4> SUFFICES ASSUME NEW t, NEW k \in 1 .. Len(jnl)
                   PROVE  k \in Valen(t)' <=> k \in Valen(t) \ {i}
        OBVIOUS
      <4>1. CASE k = i
        BY <1>4, <1>5, <2>4, <4>1, EstadosDef DEF Valen
      <4>2. CASE k # i
        BY <1>4, <1>5, <2>2, <4>2 DEF Valen
      <4> QED BY <4>1, <4>2
    <3>4. \A t : ImporteDe(jnl', Valen(t)') = ImporteDe(jnl, Valen(t)) + (0 - SiEs(r, t))
      <4> SUFFICES ASSUME NEW t
                   PROVE  ImporteDe(jnl', Valen(t)') = ImporteDe(jnl, Valen(t)) + (0 - SiEs(r, t))
        OBVIOUS
      <4>1. ImporteDe(jnl, Valen(t) \ {i}) = ImporteDe(jnl, Valen(t)) + (0 - SiEs(jnl[i], t))
        BY <1>4, <3>2, ImporteMenos
      <4>2. SiEs(jnl[i], t) = SiEs(r, t)
        BY <1>6 DEF SiEs
      <4>3. ImporteDe(jnl', Valen(t)') = ImporteDe(jnl, Valen(t) \ {i})
        <5> DEFINE S == Valen(t) \ {i}
        <5>1. \A k \in 1 .. Len(jnl) : k \in Valen(t)' <=> k \in S
          BY <3>3
        <5> HIDE DEF S
        <5>2. ImporteDe(jnl', Valen(t)') = ImporteDe(jnl, S)
          BY <1>4, <1>10, <1>12, <5>1, ImporteIgual
        <5> QED BY <5>2 DEF S
      <4> QED BY <4>1, <4>2, <4>3
    <3>5. 0 - SiEs(r, "venta") \in Int /\ 0 - SiEs(r, "sesion") \in Int /\ 0 - SiEs(r, "nc") \in Int
      BY <1>6, <1>7 DEF SiEs
    <3>6. Mueve(tots', tots, 0 - SiEs(r, "venta"), 0 - SiEs(r, "sesion"), 0 - SiEs(r, "nc"))
      <4>1. r.tipo # "inicial" => (TRUE <=> r.st >= HOST_REJECTED)
        BY <1>6, <2>4, EstadosDef
      <4>2. tots' = TOTScommit(tots, r, TRUE, TRUE)
        <5>1. (~jnl[i].rev) = TRUE
          BY <2>1, Zenon
        <5>2. tots' = TOTScommit(tots, r, ~jnl[i].rev, TRUE)
          BY <1>3, <1>15, <2>4, EstadosDef
        <5> QED BY <5>1, <5>2, Zenon
      <4> QED BY <1>3, <4>1, <4>2, CommitMueve
    <3>7. /\ ImporteDe(jnl', Valen("venta")') = ImporteDe(jnl, Valen("venta")) + (0 - SiEs(r, "venta"))
          /\ ImporteDe(jnl', Valen("sesion")') = ImporteDe(jnl, Valen("sesion")) + (0 - SiEs(r, "sesion"))
          /\ ImporteDe(jnl', Valen("nc")') = ImporteDe(jnl, Valen("nc")) + (0 - SiEs(r, "nc"))
      BY <3>4
    <3> QED BY <1>4, <1>11, <1>14, <3>5, <3>6, <3>7, CuadraSi
  <2> QED BY <1>5, <2>3, <2>4
<1> QED BY <1>4, <1>11, <1>14, <1>15

\* The journal does not move: nor do the totals, but for the rebuild.
LEMMA QuietaTotales ==
    ASSUME IInv, jnl' = jnl, Marcas', tots' = tots \/ tots' = Reconstruccion
    PROVE  /\ tots' \in Cuentas /\ jnl' \in Seq(Registro) /\ InicialAlDia'
           /\ tots' = tots => Cuadra
<1>1. /\ tots \in Cuentas /\ jnl' \in Seq(Registro) /\ tots["ini"] = Contado["ini"]
      /\ Reconstruccion \in Cuentas /\ Reconstruccion["ini"] = Contado["ini"]
  BY IInvDef, ReconstruccionDef, InicialContado DEF IInv, MarcasInv, InicialAlDia
<1>2. Contado'["ini"] = Contado["ini"]
  BY <1>1, InicialMisma
<1>3. InicialAlDia'
  BY <1>1, <1>2 DEF InicialAlDia
<1>4. \A t : \A k \in 1 .. Len(jnl) : k \in Valen(t)' <=> k \in Valen(t)
  BY DEF Valen, Reversas, Indices
<1>5. tots' = tots => Cuadra
  BY <1>1, <1>4, SinCambio
<1> QED BY <1>1, <1>3, <1>5

-----------------------------------------------------------------------------
(* The theorems.                                                             *)

LEMMA InicialHastaNat ==
    ASSUME NEW j \in Seq(Registro) PROVE InicialHasta(j, Len(j)) \in Nat
<1> DEFINE N == Len(j)
           A == {n \in 0 .. N : InicialHasta(j, n) \in Nat}
<1>1. N \in Nat /\ \A n \in 1 .. N : j[n].imp \in Nat
  <2>1. \A n \in 1 .. N : j[n] \in Registro
    OBVIOUS
  <2> QED BY <2>1, RegistroDef
<1>2. 0 \in A
  BY <1>1, InicialHastaCero
<1>3. \A n \in 1 .. N : n - 1 \in A => n \in A
  <2> SUFFICES ASSUME NEW n \in 1 .. N, n - 1 \in A PROVE n \in A
    OBVIOUS
  <2>1. n \in Nat /\ n # 0
    BY <1>1
  <2>2. InicialHasta(j, n) = IF EsInicial(j, n) THEN j[n].imp ELSE InicialHasta(j, n - 1)
    BY <2>1, InicialHastaUno, Zenon
  <2> QED BY <1>1, <2>2
<1>4. \A n \in 0 .. N : n \in A
  <2> HIDE DEF A, N
  <2> QED BY <1>1, <1>2, <1>3, InduccionHasta, Zenon
<1> QED BY <1>1, <1>4

LEMMA InitIInv == Init => IInv
<1> SUFFICES ASSUME Init PROVE IInv
  OBVIOUS
<1>1. jnl = <<>> /\ tots = TotsVacios /\ porMarcar = 0 /\ caidas = 0 /\ linea = TRUE
  BY DEF Init
<1>2. jnl \in Seq(Registro) /\ Len(jnl) = 0 /\ Indices = {}
  BY <1>1 DEF Indices
<1>3. tots \in [Baldes -> Int] /\ tots["ini"] = 0
  BY <1>1 DEF TotsVacios, Baldes
<1>4. TypeOK
  BY <1>1, <1>2, <1>3, TotalesAssumption DEF TypeOK
<1>5. /\ MarcaCierta /\ MarcaFiel /\ ReversaDeAnterior /\ LocalAceptada
      /\ MarcaPendiente /\ Corregible /\ UnaReversa
  BY <1>1, <1>2 DEF MarcaCierta, MarcaFiel, ReversaDeAnterior, LocalAceptada,
                    MarcaPendiente, Corregible, UnaReversa
<1>6. Contado["ini"] = 0
  <2>1. InicialesDe(jnl) = {}
    BY <1>2 DEF InicialesDe, ValenDe, Indices
  <2> QED BY <2>1, ContadoBaldes DEF InicialDe
<1>7. InicialAlDia
  BY <1>3, <1>6 DEF InicialAlDia
<1> QED BY <1>4, <1>5, <1>7 DEF IInv, MarcasInv

\* A step keeps the invariant, and, with the exceptions that CadaPaso names, moves
\* each bucket by what it changes of the transactions that stand.
LEMMA Paso ==
    ASSUME IInv, [Next]_vars
    PROVE  /\ IInv'
           /\ \/ SVAL_rtot_dia \/ ReentraSupervisor \/ caidas > 0 \/ ReversaPendiente
              \/ Cuadra
<1> DEFINE Forma == /\ Len(jnl') <= MaxReg /\ linea' \in BOOLEAN /\ caidas' \in 0 .. MaxCaidas
                    /\ porMarcar' \in 0 .. Len(jnl')
                    /\ (porMarcar' # 0 => jnl'[Len(jnl')].corr = porMarcar')
           Hecho == /\ tots' \in Cuentas /\ jnl' \in Seq(Registro) /\ InicialAlDia' /\ Marcas'
                    /\ \/ SVAL_rtot_dia \/ ReentraSupervisor \/ caidas > 0 \/ ReversaPendiente
                       \/ Cuadra
<1>1. SUFFICES Forma /\ Hecho
  <2>1. ASSUME Forma, Hecho PROVE IInv'
    <3>1. Contado'["ini"] \in Nat
      BY <2>1, InicialContado, InicialHastaNat
    <3>2. tots'["ini"] >= 0
      BY <2>1, <3>1 DEF InicialAlDia
    <3>3. TypeOK'
      BY <2>1, <3>2 DEF TypeOK, Cuentas
    <3> QED BY <2>1, <3>3 DEF IInv, MarcasInv, Marcas
  <2> QED BY <2>1
<1>2. /\ linea \in BOOLEAN /\ caidas \in 0 .. MaxCaidas /\ Len(jnl) <= MaxReg
      /\ porMarcar \in 0 .. Len(jnl) /\ (porMarcar # 0 => jnl[Len(jnl)].corr = porMarcar)
      /\ Len(jnl) \in Nat /\ caidas \in Nat /\ MaxReg \in Nat /\ TypeOK
  BY IInvDef, TotalesAssumption DEF IInv, MarcasInv, TypeOK
<1>3. ASSUME NEW r \in Registro, Nueva(r) PROVE Forma /\ Hecho
  <2>1. Hecho
    BY <1>3, NuevaTotales, NuevaMarcas
  <2>2. Len(jnl') = Len(jnl) + 1 /\ porMarcar' = 0 /\ UNCHANGED <<linea, caidas>> /\ Len(jnl) < MaxReg
    BY <1>3, AgregaDef, IInvDef DEF Nueva
  <2>3. Forma
    BY <1>2, <2>2
  <2> QED BY <2>1, <2>3
<1>4. ASSUME NEW i \in Indices, KEYScorrection(i) PROVE Forma /\ Hecho
  <2>1. PICK r \in Registro : Correccion(i, r)
    BY <1>2, <1>4, CorrigeForma
  <2>2. i \in 1 .. Len(jnl)
    BY <1>4, IInvDef
  <2>3. Hecho
    BY <1>2, <2>1, <2>2, CorreccionTotales, CorreccionMarcas
  <2>4. /\ Len(jnl') = Len(jnl) + 1 /\ jnl'[Len(jnl) + 1] = r
    BY <2>1, AgregaDef, IInvDef DEF Correccion
  <2>5. /\ r.corr = i /\ (porMarcar' = i \/ porMarcar' = 0) /\ UNCHANGED <<linea, caidas>>
        /\ Len(jnl) < MaxReg
    BY <2>1 DEF Correccion
  <2>6. Forma
    BY <1>2, <2>2, <2>4, <2>5
  <2> QED BY <2>3, <2>6
<1>5. CASE MISCmarca_corregida
  <2>1. Hecho
    BY <1>5, MarcaTotales, MarcaMarcas
  <2>2. porMarcar' = 0 /\ UNCHANGED <<linea, caidas>>
    BY <1>5 DEF MISCmarca_corregida
  <2>3. Len(jnl') = Len(jnl)
    <3> DEFINE r == [jnl[porMarcar] EXCEPT !.corr = Len(jnl)]
    <3>1. porMarcar \in 1 .. Len(jnl) /\ jnl' = [jnl EXCEPT ![porMarcar] = r] /\ r \in Registro
      BY <1>2, <1>5, MarcaForma
    <3> HIDE DEF r
    <3>2. PICK m \in 1 .. Len(jnl) : m = porMarcar
      BY <3>1
    <3> QED BY <3>1, <3>2, CambiaDef, IInvDef
  <2>4. Forma
    BY <1>2, <2>2, <2>3
  <2> QED BY <2>1, <2>4
<1>6. CASE JNLreentry_upd \/ ReentraSupervisor
  <2>1. PICK st : Reentra(Min(Pendientes), st) /\ [jnl[Min(Pendientes)] EXCEPT !.st = st] \in Registro
    BY <1>2, <1>6, ReentraForma
  <2>2. PICK i : i = Min(Pendientes)
    OBVIOUS
  <2>3. Reentra(i, st) /\ [jnl[i] EXCEPT !.st = st] \in Registro
    BY <2>1, <2>2
  <2>4. Marcas'
    BY <2>3, ReentraMarcas
  <2>5. Hecho
    BY <1>6, <2>4, ReentraTotales
  <2>6. /\ Len(jnl') = Len(jnl) /\ \A k \in 1 .. Len(jnl) : jnl'[k].corr = jnl[k].corr
    BY <2>3, ReversasReentra
  <2>7. UNCHANGED <<porMarcar, linea, caidas>>
    BY <2>3 DEF Reentra
  <2>8. porMarcar # 0 => Len(jnl) \in 1 .. Len(jnl)
    BY <1>2
  <2>9. Forma
    BY <1>2, <2>6, <2>7, <2>8
  <2> QED BY <2>5, <2>9
<1>7. ASSUME jnl' = jnl, tots' = tots \/ SVAL_rtot_dia, linea' \in BOOLEAN,
             UNCHANGED <<porMarcar, caidas>> \/ Cae
      PROVE  Forma /\ Hecho
  <2>1. Marcas'
    BY <1>7, QuietaMarcas
  <2>2. tots' = tots \/ tots' = Reconstruccion
    BY <1>7 DEF SVAL_rtot_dia
  <2>3. Hecho
    BY <1>7, <2>1, <2>2, QuietaTotales
  <2>4. Forma
    <3>1. CASE UNCHANGED <<porMarcar, caidas>>
      BY <1>2, <1>7, <3>1
    <3>2. CASE Cae
      BY <1>2, <1>7, <3>2, TotalesAssumption DEF Cae
    <3> QED BY <1>7, <3>1, <3>2
  <2> QED BY <2>3, <2>4
<1>8. CASE SVAL_rtot_dia \/ CambiaLinea \/ Cae \/ UNCHANGED vars
  <2>1. /\ jnl' = jnl /\ (tots' = tots \/ SVAL_rtot_dia) /\ linea' \in BOOLEAN
        /\ UNCHANGED <<porMarcar, caidas>> \/ Cae
    BY <1>2, <1>8 DEF SVAL_rtot_dia, CambiaLinea, Cae, vars
  <2> HIDE DEF Forma, Hecho
  <2> QED BY <1>7, <2>1
<1>9. CASE Hace \/ HaceLocal
  <2> HIDE DEF Forma, Hecho
  <2> QED BY <1>2, <1>3, <1>9, HaceForma
<1> HIDE DEF Forma, Hecho
<1> QED BY <1>4, <1>5, <1>6, <1>8, <1>9 DEF Next

LEMMA SpecIInv == Spec => []IInv
<1>1. Init => IInv
  BY InitIInv
<1>2. IInv /\ [Next]_vars => IInv'
  BY Paso
<1> QED BY <1>1, <1>2, PTL DEF Spec

\* The number of its correction is in an original when, and only when, there is
\* one that stands or that the reentry rejected (MISCmarca_corregida), with the
\* facts about the journal and the initial cash that make it inductive.
THEOREM Spec_MarcasInv == Spec => []MarcasInv
<1>1. IInv => MarcasInv
  BY DEF IInv
<1> QED BY <1>1, SpecIInv, PTL

\* "Transaccion Ya Reversada": a crash between the close and its mark is the only
\* thing that lets a transaction be corrected again, once for each crash.
THEOREM Spec_UnaReversa == Spec => []UnaReversa
<1>1. IInv => UnaReversa
  BY DEF IInv
<1> QED BY <1>1, SpecIInv, PTL

\* The rebuild of the day gives the totals of the transactions that stand.
THEOREM Spec_ReconstruccionExacta == Spec => []ReconstruccionExacta
<1>1. IInv => ReconstruccionExacta
  BY ReconstruccionDeInv
<1> QED BY <1>1, SpecIInv, PTL

\* What a TOTScommit added, a correction or a rejection at the reentry takes back,
\* and nothing twice.
THEOREM Spec_CadaPaso == Spec => CadaPaso
<1> DEFINE Bien == \/ SVAL_rtot_dia \/ ReentraSupervisor \/ caidas > 0 \/ ReversaPendiente
                   \/ \A b \in Baldes : tots'[b] - tots[b] = Contado'[b] - Contado[b]
<1>1. IInv /\ [Next]_vars => [Bien]_vars
  BY Paso DEF Cuadra
<1>2. [][Bien]_vars <=> CadaPaso
  BY DEF CadaPaso
<1> HIDE DEF Bien
<1>3. Spec => [][Bien]_vars
  BY <1>1, SpecIInv, PTL DEF Spec
<1> QED BY <1>2, <1>3
=============================================================================
