-------------------------- MODULE SortieranlageBeweis --------------------------
(***************************************************************************)
(* Proofs about Sortieranlage, for all calibrated times, any number and    *)
(* kinds of workpieces and any behaviour of the user.                      *)
(***************************************************************************)
EXTENDS Sortieranlage, FiniteSetTheorems, SequenceTheorems, WellFoundedInduction, TLAPS

-----------------------------------------------------------------------------
(***************************************************************************)
(* Induction.  The library's theorems of induction take a predicate; stated *)
(* for sets, induction follows from the well-foundedness of Nat.           *)
(***************************************************************************)
LEMMA KleinerFundiert == IsWellFoundedOn({p \in Nat \X Nat : p[1] < p[2]}, Nat)
  BY NatLessThanWellFounded DEF OpToRel

LEMMA Induktion ==
  ASSUME NEW T, 0 \in T, \A n \in Nat : n \in T => n + 1 \in T
  PROVE  Nat \subseteq T
<1> DEFINE R == {p \in Nat \X Nat : p[1] < p[2]}
           U == {n \in Nat : n \notin T}
<1> SUFFICES ASSUME U # {} PROVE FALSE
  OBVIOUS
<1>1. \E n \in U : \A m \in U : ~ (<<m, n>> \in R)
  <2>1. U \subseteq Nat
    OBVIOUS
  <2> HIDE DEF U, R
  <2> QED
    BY <2>1, KleinerFundiert, WFMin DEF R
<1>2. PICK n \in U : \A m \in U : ~ (<<m, n>> \in R)
  BY <1>1
<1>3. n - 1 \in Nat /\ n - 1 < n
  OBVIOUS
<1>4. n - 1 \in T
  BY <1>2, <1>3
<1> QED
  BY <1>3, <1>4

-----------------------------------------------------------------------------
(***************************************************************************)
(* FoldLeft goes through the sets 1..i.                                    *)
(***************************************************************************)
LEMMA Groesstes ==
  ASSUME NEW n \in Nat, NEW S \in SUBSET (1..n), S # {}
  PROVE  Max(S) \in S /\ \A y \in S : y <= Max(S)
<1> DEFINE Hat(U) == \E x \in U : \A y \in U : y <= x
           T == {m \in Nat : \A U \in SUBSET (1..m) : U # {} => Hat(U)}
<1>1. 0 \in T
  <2>1. 1..0 = {}
    OBVIOUS
  <2> QED
    BY <2>1
<1>2. ASSUME NEW m \in Nat, m \in T PROVE m + 1 \in T
  <2> SUFFICES ASSUME NEW U \in SUBSET (1..(m + 1)), U # {} PROVE Hat(U)
    OBVIOUS
  <2>1. CASE m + 1 \in U
    BY <2>1
  <2>2. CASE m + 1 \notin U
    <3>1. U \in SUBSET (1..m)
      BY <2>2
    <3> QED
      BY <3>1, <1>2
  <2> QED
    BY <2>1, <2>2
<1>3. n \in T
  <2> HIDE DEF T
  <2> QED
    BY <1>1, <1>2, Induktion
<1> QED
  BY <1>3 DEF Max

LEMMA Anfang ==
  ASSUME NEW n \in Nat
  PROVE  /\ 1..0 = {}
         /\ \A i \in 1..n : /\ 1..i \in SUBSET (1..n) /\ 1..i # {}
                            /\ Max(1..i) = i
                            /\ (1..i) \ {i} = 1..(i - 1)
                            /\ i - 1 \in 0..n
<1> SUFFICES ASSUME NEW i \in 1..n
             PROVE  /\ 1..i \in SUBSET (1..n) /\ 1..i # {}
                    /\ Max(1..i) = i
                    /\ (1..i) \ {i} = 1..(i - 1)
                    /\ i - 1 \in 0..n
  OBVIOUS
<1>1. 1..i \subseteq 1..n /\ i \in 1..i /\ i - 1 \in 0..n
  OBVIOUS
<1>2. Max(1..i) \in 1..i /\ \A y \in 1..i : y <= Max(1..i)
  BY <1>1, Groesstes
<1>3. Max(1..i) = i
  BY <1>1, <1>2
<1>4. (1..i) \ {i} = 1..(i - 1)
  OBVIOUS
<1> QED
  BY <1>1, <1>3, <1>4

\* g is what FoldLeft computes, when the i-th step leads from x to F[x][i].
Gefaltet(g, b, F, n) ==
  g = [S \in SUBSET (1..n) |-> IF S = {} THEN b ELSE F[g[S \ {Max(S)}]][Max(S)]]

\* It can be computed: the recursion of FoldLeft defines a function.
LEMMA FaltungDa ==
  ASSUME NEW X, NEW b \in X, NEW n \in Nat, NEW F \in [X -> [1..n -> X]]
  PROVE  \E g \in [SUBSET (1..n) -> X] : Gefaltet(g, b, F, n)
<1> DEFINE Da(m) == \E g \in [SUBSET (1..m) -> X] : Gefaltet(g, b, F, m)
           T == {m \in Nat : m <= n => Da(m)}
<1> HIDE DEF Da
<1>1. 0 \in T
  <2>1. 1..0 = {}
    BY Anfang
  <2> DEFINE g == [S \in SUBSET (1..0) |-> b]
  <2>2. \A S \in SUBSET (1..0) : S = {}
    BY <2>1
  <2>3. Gefaltet(g, b, F, 0)
    BY <2>2 DEF Gefaltet
  <2>4. \A S \in SUBSET (1..0) : g[S] \in X
    OBVIOUS
  <2>5. g \in [SUBSET (1..0) -> X]
    BY <2>4
  <2> HIDE DEF g
  <2>6. Da(0)
    BY <2>3, <2>5 DEF Da
  <2> QED
    BY <2>6
<1>2. ASSUME NEW m \in Nat, m \in T PROVE m + 1 \in T
  <2> SUFFICES ASSUME m + 1 <= n PROVE Da(m + 1)
    OBVIOUS
  <2>1. PICK g \in [SUBSET (1..m) -> X] : Gefaltet(g, b, F, m)
    <3>1. Da(m)
      BY <1>2
    <3> QED
      BY <3>1 DEF Da
  <2>2. \A S \in SUBSET (1..(m + 1)) : /\ m + 1 \in S => S \ {m + 1} \in SUBSET (1..m)
                                       /\ m + 1 \notin S => S \in SUBSET (1..m)
    OBVIOUS
  <2>3. \A x \in X, i \in 1..(m + 1) : F[x][i] \in X
    OBVIOUS
  <2>4. \A S \in SUBSET (1..m) : g[S] = IF S = {} THEN b ELSE F[g[S \ {Max(S)}]][Max(S)]
    BY <2>1 DEF Gefaltet
  <2> DEFINE h == [S \in SUBSET (1..(m + 1)) |->
                     IF m + 1 \in S THEN F[g[S \ {m + 1}]][m + 1] ELSE g[S]]
             k == [S \in SUBSET (1..(m + 1)) |->
                     IF S = {} THEN b ELSE F[h[S \ {Max(S)}]][Max(S)]]
  <2>5. \A S \in SUBSET (1..(m + 1)) :
          h[S] = IF m + 1 \in S THEN F[g[S \ {m + 1}]][m + 1] ELSE g[S]
    OBVIOUS
  <2>6. ASSUME NEW S \in SUBSET (1..(m + 1))
        PROVE  h[S] \in X /\ h[S] = IF S = {} THEN b ELSE F[h[S \ {Max(S)}]][Max(S)]
    <3> HIDE DEF h, k
    <3>1. CASE S = {}
      BY <3>1, <2>2, <2>4, <2>5
    <3>2. CASE m + 1 \in S
      <4>1. Max(S) \in S /\ \A y \in S : y <= Max(S)
        <5>1. m + 1 \in Nat /\ S # {}
          BY <3>2
        <5> QED
          BY <5>1, Groesstes
      <4>2. Max(S) = m + 1
        <5>1. m + 1 <= Max(S)
          BY <4>1, <3>2
        <5>2. Max(S) \in 1..(m + 1)
          BY <4>1
        <5>3. \A x \in 1..(m + 1) : m + 1 <= x => x = m + 1
          OBVIOUS
        <5> QED
          BY <5>1, <5>2, <5>3
      <4>3. S \ {m + 1} \in SUBSET (1..m)
        BY <3>2, <2>2
      <4>7. S \ {m + 1} \in SUBSET (1..(m + 1)) /\ m + 1 \notin S \ {m + 1}
        OBVIOUS
      <4>4. g[S \ {m + 1}] \in X /\ h[S \ {m + 1}] = g[S \ {m + 1}]
        BY <4>3, <4>7, <2>5
      <4>5. m + 1 \in 1..(m + 1)
        OBVIOUS
      <4>6. h[S] = F[g[S \ {m + 1}]][m + 1]
        BY <2>5, <3>2
      <4> QED
        BY <4>2, <4>4, <4>5, <4>6, <3>2, <2>3
    <3>3. CASE S # {} /\ m + 1 \notin S
      <4>1. S \in SUBSET (1..m)
        BY <3>3
      <4>2. Max(S) \in S
        BY <4>1, <3>3, Groesstes
      <4>3. S \ {Max(S)} \in SUBSET (1..m) /\ S \ {Max(S)} \in SUBSET (1..(m + 1))
        BY <4>1
      <4>4. h[S] = g[S] /\ h[S \ {Max(S)}] = g[S \ {Max(S)}]
        BY <4>1, <4>3, <3>3, <2>5
      <4>5. g[S] = F[g[S \ {Max(S)}]][Max(S)]
        BY <2>4, <4>1, <3>3
      <4> QED
        BY <4>1, <4>4, <4>5, <3>3
    <3> QED
      BY <3>1, <3>2, <3>3
  <2>7. h = k
    BY <2>6
  <2>8. Gefaltet(h, b, F, m + 1)
    BY <2>7 DEF Gefaltet
  <2>9. h \in [SUBSET (1..(m + 1)) -> X]
    BY <2>6
  <2> HIDE DEF h
  <2> QED
    BY <2>8, <2>9 DEF Da
<1>3. n \in T
  <2> HIDE DEF T
  <2> QED
    BY <1>1, <1>2, Induktion
<1>4. Da(n)
  BY <1>3
<1> QED
  BY <1>4 DEF Da

\* h[i] is the value after the first i elements.
Lauf(h, X, b, F, n) ==
  /\ h \in [0..n -> X]
  /\ h[0] = b
  /\ \A i \in 1..n : h[i] = F[h[i - 1]][i]

\* As long as g is in X it goes on by F.
Schrittweise(g, X, b, F, n) ==
  /\ b \in X /\ n \in Nat /\ F \in [X -> [1..n -> X]]
  /\ g[{}] = b
  /\ \A S \in SUBSET (1..n) :
       S # {} /\ g[S \ {Max(S)}] \in X => g[S] = F[g[S \ {Max(S)}]][Max(S)]

LEMMA FaltungLauf ==
  ASSUME NEW X, NEW b, NEW n, NEW F, NEW g, Schrittweise(g, X, b, F, n)
  PROVE  \E h : Lauf(h, X, b, F, n) /\ h[n] = g[1..n]
<1> USE DEF Schrittweise
<1> DEFINE h == [i \in 0..n |-> g[1..i]]
           T == {m \in Nat : m <= n => g[1..m] \in X}
<1>1. 1..0 = {}
  BY Anfang
<1>2. \A x \in X, i \in 1..n : F[x][i] \in X
  OBVIOUS
<1>3. ASSUME NEW i \in 1..n, g[1..(i - 1)] \in X PROVE g[1..i] = F[g[1..(i - 1)]][i]
  <2>1. 1..i \in SUBSET (1..n) /\ 1..i # {} /\ Max(1..i) = i /\ (1..i) \ {i} = 1..(i - 1)
    BY Anfang
  <2>2. g[1..i] = F[g[(1..i) \ {Max(1..i)}]][Max(1..i)]
    BY <2>1, <1>3
  <2> QED
    BY <2>1, <2>2
<1>4. 0 \in T
  BY <1>1
<1>5. ASSUME NEW m \in Nat, m \in T PROVE m + 1 \in T
  <2> SUFFICES ASSUME m + 1 <= n PROVE g[1..(m + 1)] \in X
    OBVIOUS
  <2>1. m + 1 \in 1..n /\ (m + 1) - 1 = m /\ m <= n
    OBVIOUS
  <2>2. g[1..m] \in X
    BY <1>5, <2>1
  <2>3. g[1..(m + 1)] = F[g[1..m]][m + 1]
    BY <1>3, <2>1, <2>2
  <2> QED
    BY <1>2, <2>1, <2>2, <2>3
<1>6. \A i \in 0..n : g[1..i] \in X
  <2>1. Nat \subseteq T
    <3> HIDE DEF T
    <3> QED
      BY <1>4, <1>5, Induktion
  <2> QED
    BY <2>1
<1>7. \A i \in 0..n : h[i] = g[1..i]
  OBVIOUS
<1>8. h \in [0..n -> X]
  BY <1>6
<1>9. \A i \in 1..n : i \in 0..n /\ i - 1 \in 0..n
  OBVIOUS
<1>10. 0 \in 0..n /\ n \in 0..n
  OBVIOUS
<1> HIDE DEF h
<1>11. h[0] = b /\ h[n] = g[1..n]
  BY <1>1, <1>7, <1>10
<1>12. \A i \in 1..n : h[i] = F[h[i - 1]][i]
  BY <1>3, <1>6, <1>7, <1>9
<1> QED
  BY <1>8, <1>11, <1>12 DEF Lauf

-----------------------------------------------------------------------------
(***************************************************************************)
(* The HAL and the channels.                                               *)
(***************************************************************************)

Signale ==
  BefehlSignale \cup SensorSignale \cup UebergabeSignale \cup RutscheSignale
    \cup WerkstueckSignale \cup TimerSignale
    \cup {"S_METAL_AN", "WERKSTUECK_ANDERS", "S_PARTNER_FEHLER"}

\* A pulse: only S_UEBERGABE_WS carries a type.
Puls == {m \in [sig : Signale, wert : WerkstueckTyp \cup {"-"}] :
           m.wert \in IF m.sig = "S_UEBERGABE_WS" THEN WerkstueckTyp ELSE {"-"}}

LEMMA BefehlTyp ==
  ASSUME NEW a \in Anlagen, NEW k \in Aktor, NEW m \in Puls, FuerHAL(m)
  PROVE  Befehl(a, k, m) \in Aktor
<1>1. m \in Befehlspuls
  BY DEF Puls, Befehlspuls, FuerHAL, BefehlSignale
<1>2. Append(k.wartend, m) \in Seq(Befehlspuls)
  BY <1>1 DEF Aktor
<1>3. OffenZeit \in 1..OffenZeit
  BY SortieranlageAnnahme
<1>4. durchlassenWeiche(k) \in Aktor /\ aussortierenWeiche(k) \in Aktor
  BY <1>3 DEF durchlassenWeiche, aussortierenWeiche, Aktor
<1>5. durchlassenAuswerfer(k) \in Aktor /\ aussortierenAuswerfer(k) \in Aktor
  BY <1>3 DEF durchlassenAuswerfer, aussortierenAuswerfer, Aktor
<1>6. /\ [k EXCEPT !.wartend = Append(@, m)] \in Aktor
      /\ \A v \in {"stop", "langsam", "schnell"} : [k EXCEPT !.motor = v] \in Aktor
      /\ \A v \in BOOLEAN : [k EXCEPT !.q1 = v] \in Aktor /\ [k EXCEPT !.gelb = v] \in Aktor
  BY <1>2 DEF Aktor
<1>7. m.sig \in BefehlSignale
  BY DEF FuerHAL
<1> QED
  BY <1>4, <1>5, <1>6, <1>7 DEF Befehl, BefehlSignale

\* What a pulse in the dispatcher does to the HAL.
Ausgefuehrt(a, h, m) == IF FuerHAL(m) THEN Befehl(a, h, m) ELSE h

\* The HAL goes through the pulses one after the other.
LEMMA BefehleLauf ==
  ASSUME NEW a \in Anlagen, NEW k \in Aktor, NEW s \in Seq(Puls)
  PROVE  \E h \in [0..Len(s) -> Aktor] :
           /\ h[0] = k
           /\ \A i \in 1..Len(s) : h[i] = Ausgefuehrt(a, h[i - 1], s[i])
           /\ Befehle(a, k, s) = h[Len(s)]
<1> DEFINE n == Len(s)
           F == [x \in Aktor |-> [i \in 1..n |-> Ausgefuehrt(a, x, s[i])]]
           Rek(g) == g = [S \in SUBSET (1..n) |->
                            IF S = {} THEN k ELSE Ausgefuehrt(a, g[S \ {Max(S)}], s[Max(S)])]
           g == CHOOSE f : Rek(f)
<1>1. n \in Nat /\ DOMAIN s = 1..n /\ \A i \in 1..n : s[i] \in Puls
  OBVIOUS
<1>2. Befehle(a, k, s) = g[1..n]
  BY <1>1 DEF Befehle, FoldLeft, MapThenFoldSet, Ausgefuehrt
<1>3. F \in [Aktor -> [1..n -> Aktor]]
  BY <1>1, BefehlTyp DEF Ausgefuehrt
<1>4. \A S \in SUBSET (1..n) : S # {} => Max(S) \in 1..n
  BY <1>1, Groesstes
<1>5. \A x \in Aktor, i \in 1..n : F[x][i] = Ausgefuehrt(a, x, s[i])
  OBVIOUS
<1>6. Rek(g)
  <2>1. PICK f \in [SUBSET (1..n) -> Aktor] : Gefaltet(f, k, F, n)
    <3> HIDE DEF F
    <3> QED
      BY <1>1, <1>3, FaltungDa
  <2>2. ASSUME NEW S \in SUBSET (1..n), S # {}
        PROVE  F[f[S \ {Max(S)}]][Max(S)] = Ausgefuehrt(a, f[S \ {Max(S)}], s[Max(S)])
    BY <1>4, <1>5, <2>2
  <2>3. Rek(f)
    <3> HIDE DEF F
    <3> QED
      BY <2>1, <2>2 DEF Gefaltet
  <2> HIDE DEF Rek
  <2> QED
    BY <2>3
<1> HIDE DEF g, F
<1>7. \A S \in SUBSET (1..n) :
        g[S] = IF S = {} THEN k ELSE Ausgefuehrt(a, g[S \ {Max(S)}], s[Max(S)])
  BY <1>6
<1>8. PICK h : Lauf(h, Aktor, k, F, n) /\ h[n] = g[1..n]
  <2>1. Schrittweise(g, Aktor, k, F, n)
    BY <1>1, <1>3, <1>4, <1>5, <1>7 DEF Schrittweise
  <2> QED
    BY <2>1, FaltungLauf
<1>9. \A i \in 1..n : h[i] = Ausgefuehrt(a, h[i - 1], s[i])
  <2>1. \A i \in 1..n : i - 1 \in 0..n
    BY <1>1
  <2> QED
    BY <1>5, <1>8, <2>1 DEF Lauf
<1> QED
  BY <1>2, <1>8, <1>9 DEF Lauf

LEMMA BefehleTyp ==
  ASSUME NEW a \in Anlagen, NEW k \in Aktor, NEW s \in Seq(Puls)
  PROVE  Befehle(a, k, s) \in Aktor
<1>1. Len(s) \in 0..Len(s)
  OBVIOUS
<1> QED
  BY <1>1, BefehleLauf

-----------------------------------------------------------------------------
\* What a pulse in plant a's dispatcher does to the channel of plant z.
Eingereiht(z, a, k, m) ==
  IF ~FuerHAL(m) /\ z \in Ziele(a, m.sig) THEN Einreihen(k, m) ELSE k

\* A channel is split where the pulse is put in.
LEMMA EinreihenTeilt ==
  ASSUME NEW k \in Seq(Puls), NEW m \in Puls
  PROVE  /\ Einreihen(k, m) \in Seq(Puls)
         /\ \E p \in 0..Len(k) :
              /\ Len(Einreihen(k, m)) = Len(k) + 1
              /\ \A i \in 1..p : Einreihen(k, m)[i] = k[i]
              /\ Einreihen(k, m)[p + 1] = m
              /\ \A i \in (p + 1)..Len(k) : Einreihen(k, m)[i + 1] = k[i]
              /\ (\A i \in 1..Len(k) :
                    bestimmtPrioritaet(k[i].sig) >= bestimmtPrioritaet(m.sig)) => p = Len(k)
<1> DEFINE vor == {i \in DOMAIN k : bestimmtPrioritaet(k[i].sig) >= bestimmtPrioritaet(m.sig)}
           p == Cardinality(vor)
           n == Len(k)
           A == SubSeq(k, 1, p)
           B == SubSeq(k, p + 1, n)
<1>1. n \in Nat /\ DOMAIN k = 1..n /\ vor \subseteq 1..n
  OBVIOUS
<1>2. IsFiniteSet(1..n) /\ Cardinality(1..n) = n
  BY <1>1, FS_Interval
<1>3. p \in 0..n
  BY <1>1, <1>2, FS_Subset, FS_CardinalityType
<1>4. vor = 1..n => p = n
  BY <1>2
<1>16. Einreihen(k, m) = InsertAt(k, p + 1, m)
  BY DEF Einreihen
<1> HIDE DEF p
<1>17. (p + 1) - 1 = p
  BY <1>3
<1>5. Einreihen(k, m) = (A \o <<m>>) \o B
  BY <1>16, <1>17 DEF InsertAt
<1>6. A \in Seq(Puls) /\ Len(A) = p /\ \A i \in 1..p : A[i] = k[i]
  BY <1>3, SubSeqProperties
<1>7. B \in Seq(Puls) /\ Len(B) = n - p /\ \A i \in 1..(n - p) : B[i] = k[p + i]
  BY <1>3, SubSeqProperties
<1> HIDE DEF A, B
<1> DEFINE C == A \o <<m>>
           D == C \o B
<1>8. <<m>> \in Seq(Puls) /\ Len(<<m>>) = 1 /\ <<m>>[1] = m
  OBVIOUS
<1>9. C \in Seq(Puls) /\ Len(C) = p + 1 /\ (\A i \in 1..p : C[i] = k[i]) /\ C[p + 1] = m
  BY <1>3, <1>6, <1>8
<1> HIDE DEF C
<1>10. D \in Seq(Puls) /\ Len(D) = n + 1
  BY <1>3, <1>7, <1>9
<1>11. \A i \in 1..p : D[i] = k[i]
  BY <1>3, <1>7, <1>9
<1>12. D[p + 1] = m
  BY <1>3, <1>7, <1>9
<1>13. ASSUME NEW i \in (p + 1)..n PROVE D[i + 1] = k[i]
  <2>1. i - p \in 1..(n - p) /\ (i + 1) - (p + 1) = i - p /\ p + (i - p) = i
    BY <1>3
  <2>2. D[i + 1] = B[i - p]
    BY <1>3, <1>7, <1>9, <2>1
  <2> QED
    BY <1>7, <2>1, <2>2
<1>14. Einreihen(k, m) = D
  BY <1>5 DEF C
<1> HIDE DEF D
<1>15. (\A i \in 1..n : bestimmtPrioritaet(k[i].sig) >= bestimmtPrioritaet(m.sig)) => p = n
  BY <1>1, <1>4
<1> QED
  BY <1>3, <1>10, <1>11, <1>12, <1>13, <1>14, <1>15

\* h[i] is the channel of plant z after the first i pulses.
Gang(h, z, k, a, s) ==
  /\ h \in [0..Len(s) -> Seq(Puls)]
  /\ h[0] = k
  /\ \A i \in 1..Len(s) : h[i] = Eingereiht(z, a, h[i - 1], s[i])
  /\ KanalNach(z, k, a, s) = h[Len(s)]

\* A dispatcher passes on its pulses one after the other.
LEMMA KanalLauf ==
  ASSUME NEW a \in Anlagen, NEW z \in Anlagen, NEW k \in Seq(Puls), NEW s \in Seq(Puls)
  PROVE  \E h : Gang(h, z, k, a, s)
<1> DEFINE n == Len(s)
           X == Seq(Puls)
           F == [x \in X |-> [i \in 1..n |-> Eingereiht(z, a, x, s[i])]]
           Rek(g) == g = [S \in SUBSET (1..n) |->
                            IF S = {} THEN k ELSE Eingereiht(z, a, g[S \ {Max(S)}], s[Max(S)])]
           g == CHOOSE f : Rek(f)
<1>1. n \in Nat /\ DOMAIN s = 1..n /\ (\A i \in 1..n : s[i] \in Puls) /\ k \in X
  OBVIOUS
<1>2. KanalNach(z, k, a, s) = g[1..n]
  BY <1>1 DEF KanalNach, FoldLeft, MapThenFoldSet, Eingereiht
<1>3. F \in [X -> [1..n -> X]]
  BY <1>1, EinreihenTeilt DEF Eingereiht
<1>4. \A S \in SUBSET (1..n) : S # {} => Max(S) \in 1..n
  BY <1>1, Groesstes
<1>5. \A x \in X, i \in 1..n : F[x][i] = Eingereiht(z, a, x, s[i])
  OBVIOUS
<1> HIDE DEF X
<1>6. Rek(g)
  <2>1. PICK f \in [SUBSET (1..n) -> X] : Gefaltet(f, k, F, n)
    <3> HIDE DEF F
    <3> QED
      BY <1>1, <1>3, FaltungDa
  <2>2. ASSUME NEW S \in SUBSET (1..n), S # {}
        PROVE  F[f[S \ {Max(S)}]][Max(S)] = Eingereiht(z, a, f[S \ {Max(S)}], s[Max(S)])
    BY <1>4, <1>5, <2>2
  <2>3. Rek(f)
    <3> HIDE DEF F
    <3> QED
      BY <2>1, <2>2 DEF Gefaltet
  <2> HIDE DEF Rek
  <2> QED
    BY <2>3
<1> HIDE DEF g, F
<1>7. \A S \in SUBSET (1..n) :
        g[S] = IF S = {} THEN k ELSE Eingereiht(z, a, g[S \ {Max(S)}], s[Max(S)])
  BY <1>6
<1>8. PICK h : Lauf(h, X, k, F, n) /\ h[n] = g[1..n]
  <2>1. Schrittweise(g, X, k, F, n)
    BY <1>1, <1>3, <1>4, <1>5, <1>7 DEF Schrittweise
  <2> QED
    BY <2>1, FaltungLauf
<1>9. \A i \in 1..n : h[i] = Eingereiht(z, a, h[i - 1], s[i])
  <2>1. \A i \in 1..n : i - 1 \in 0..n
    BY <1>1
  <2> QED
    BY <1>5, <1>8, <2>1 DEF Lauf
<1> QED
  BY <1>2, <1>8, <1>9 DEF Lauf, X, Gang

LEMMA ZustellenTyp ==
  ASSUME NEW a \in Anlagen, NEW K \in [Anlagen -> Seq(Puls)], NEW s \in Seq(Puls)
  PROVE  Zustellen(K, a, s) \in [Anlagen -> Seq(Puls)]
<1>1. Len(s) \in 0..Len(s)
  OBVIOUS
<1>2. ASSUME NEW z \in Anlagen PROVE KanalNach(z, K[z], a, s) \in Seq(Puls)
  <2>1. K[z] \in Seq(Puls)
    OBVIOUS
  <2> QED
    BY <1>1, <2>1, KanalLauf DEF Gang
<1> QED
  BY <1>2 DEF Zustellen

-----------------------------------------------------------------------------
(***************************************************************************)
(* Pulses that switch something on and off, the yellow lamp or the flag    *)
(* of a slide: what is left of v after the first n pulses of s.            *)
(***************************************************************************)
Letztes(v, s, n, ein, aus) ==
  \E i \in 0..n : /\ IF i = 0 THEN v ELSE s[i].sig = ein
                  /\ \A j \in (i + 1)..n : s[j].sig # aus

LEMMA LetztesAnfang ==
  ASSUME NEW v \in BOOLEAN, NEW s, NEW ein, NEW aus
  PROVE  Letztes(v, s, 0, ein, aus) <=> v
<1>1. 0..0 = {0} /\ 1..0 = {}
  OBVIOUS
<1> QED
  BY <1>1 DEF Letztes

LEMMA LetztesWeiter ==
  ASSUME NEW v \in BOOLEAN, NEW s, NEW n \in Nat, NEW ein, NEW aus, ein # aus
  PROVE  Letztes(v, s, n + 1, ein, aus)
           <=> \/ s[n + 1].sig = ein
               \/ s[n + 1].sig # aus /\ Letztes(v, s, n, ein, aus)
<1>1. ASSUME s[n + 1].sig = ein PROVE Letztes(v, s, n + 1, ein, aus)
  <2>1. n + 1 \in 0..(n + 1) /\ n + 1 # 0 /\ ((n + 1) + 1)..(n + 1) = {}
    OBVIOUS
  <2> QED
    BY <2>1, <1>1 DEF Letztes
<1>2. ASSUME s[n + 1].sig # aus, Letztes(v, s, n, ein, aus)
      PROVE  Letztes(v, s, n + 1, ein, aus)
  <2>1. PICK i \in 0..n : /\ IF i = 0 THEN v ELSE s[i].sig = ein
                          /\ \A j \in (i + 1)..n : s[j].sig # aus
    BY <1>2 DEF Letztes
  <2>2. i \in 0..(n + 1) /\ \A j \in (i + 1)..(n + 1) : j \in (i + 1)..n \/ j = n + 1
    OBVIOUS
  <2>3. \A j \in (i + 1)..(n + 1) : s[j].sig # aus
    BY <2>1, <2>2, <1>2
  <2> QED
    BY <2>1, <2>2, <2>3 DEF Letztes
<1>3. ASSUME Letztes(v, s, n + 1, ein, aus), s[n + 1].sig # ein
      PROVE  s[n + 1].sig # aus /\ Letztes(v, s, n, ein, aus)
  <2>1. PICK i \in 0..(n + 1) : /\ IF i = 0 THEN v ELSE s[i].sig = ein
                                /\ \A j \in (i + 1)..(n + 1) : s[j].sig # aus
    BY <1>3 DEF Letztes
  <2>2. i # n + 1
    BY <2>1, <1>3
  <2>3. i \in 0..n /\ n + 1 \in (i + 1)..(n + 1)
        /\ \A j \in (i + 1)..n : j \in (i + 1)..(n + 1)
    BY <2>2
  <2> QED
    BY <2>1, <2>3 DEF Letztes
<1> QED
  BY <1>1, <1>2, <1>3

LEMMA LetztesGleich ==
  ASSUME NEW v, NEW s, NEW t, NEW n \in Nat, NEW ein, NEW aus,
         \A i \in 1..n : s[i] = t[i]
  PROVE  Letztes(v, s, n, ein, aus) <=> Letztes(v, t, n, ein, aus)
<1>1. \A i \in 0..n : (i # 0 => i \in 1..n) /\ \A j \in (i + 1)..n : j \in 1..n
  OBVIOUS
<1> QED
  BY <1>1 DEF Letztes

\* Is the yellow lamp on when the commands among the pulses of s have been
\* carried out?
Gelb(v, s) == Letztes(v, s, Len(s), "CMD_LED_AMP_GLB_B", "CMD_LED_AMP_GLB_AUS")

LEMMA GelbSenden ==
  ASSUME NEW v \in BOOLEAN, NEW s \in Seq(Puls), NEW m \in Puls
  PROVE  Gelb(v, Append(s, m))
           <=> \/ m.sig = "CMD_LED_AMP_GLB_B"
               \/ m.sig # "CMD_LED_AMP_GLB_AUS" /\ Gelb(v, s)
<1> DEFINE n == Len(s)
           t == Append(s, m)
<1>1. n \in Nat /\ Len(t) = n + 1 /\ t[n + 1] = m /\ \A i \in 1..n : t[i] = s[i]
  OBVIOUS
<1> HIDE DEF n, t
<1>2. Letztes(v, t, n, "CMD_LED_AMP_GLB_B", "CMD_LED_AMP_GLB_AUS")
        <=> Letztes(v, s, n, "CMD_LED_AMP_GLB_B", "CMD_LED_AMP_GLB_AUS")
  BY <1>1, LetztesGleich
<1>3. Letztes(v, t, n + 1, "CMD_LED_AMP_GLB_B", "CMD_LED_AMP_GLB_AUS")
        <=> \/ t[n + 1].sig = "CMD_LED_AMP_GLB_B"
            \/ /\ t[n + 1].sig # "CMD_LED_AMP_GLB_AUS"
               /\ Letztes(v, t, n, "CMD_LED_AMP_GLB_B", "CMD_LED_AMP_GLB_AUS")
  BY <1>1, LetztesWeiter
<1> QED
  BY <1>1, <1>2, <1>3 DEF Gelb, n, t

LEMMA GelbLeer == \A v \in BOOLEAN : Gelb(v, <<>>) <=> v
<1>1. Len(<<>>) = 0
  OBVIOUS
<1> QED
  BY <1>1, LetztesAnfang DEF Gelb

-----------------------------------------------------------------------------
(***************************************************************************)
(* The yellow lamp once the HAL has carried out what waits for it.         *)
(***************************************************************************)
EndGelb(k) == Gelb(k.gelb, k.wartend)

\* Commands wait only while the ejector is out.
Bereit(a, k) == Blockiert(a, k) \/ k.wartend = <<>>

LEMMA BefehlspulsTyp == Befehlspuls \subseteq Puls
<1> SUFFICES ASSUME NEW m \in Befehlspuls PROVE m \in Puls
  OBVIOUS
<1>1. m = [sig |-> m.sig, wert |-> m.wert] /\ m.sig \in BefehlSignale /\ m.wert = "-"
  BY DEF Befehlspuls
<1>2. m.sig \in Signale /\ m.sig # "S_UEBERGABE_WS"
  BY <1>1 DEF BefehlSignale, Signale
<1> QED
  BY <1>1, <1>2 DEF Puls

LEMMA WartendTyp == \A k \in Aktor : k.wartend \in Seq(Puls) /\ k.gelb \in BOOLEAN
<1> SUFFICES ASSUME NEW k \in Aktor PROVE k.wartend \in Seq(Puls) /\ k.gelb \in BOOLEAN
  OBVIOUS
<1>1. k.wartend \in Seq(Befehlspuls) /\ k.gelb \in BOOLEAN
  BY DEF Aktor
<1>2. k.wartend \in Seq(Puls)
  BY <1>1, BefehlspulsTyp, SeqMonotonic
<1> QED
  BY <1>1, <1>2

LEMMA BefehlGelb ==
  ASSUME NEW a \in Anlagen, NEW k \in Aktor, NEW m \in Puls, FuerHAL(m), Bereit(a, k)
  PROVE  /\ Bereit(a, Befehl(a, k, m))
         /\ Befehl(a, k, m).rutsche = k.rutsche
         /\ EndGelb(Befehl(a, k, m))
              <=> \/ m.sig = "CMD_LED_AMP_GLB_B"
                  \/ m.sig # "CMD_LED_AMP_GLB_AUS" /\ EndGelb(k)
<1> DEFINE h == Befehl(a, k, m)
<1>1. k.wartend \in Seq(Puls) /\ k.gelb \in BOOLEAN
  BY WartendTyp
<1>2. CASE Blockiert(a, k)
  <2>1. h = [k EXCEPT !.wartend = Append(@, m)]
    BY <1>2 DEF Befehl
  <2>2. /\ h.wartend = Append(k.wartend, m) /\ h.gelb = k.gelb /\ h.offen = k.offen
        /\ h.rutsche = k.rutsche
    BY <2>1 DEF Aktor
  <2> HIDE DEF h
  <2>3. Gelb(k.gelb, Append(k.wartend, m))
          <=> \/ m.sig = "CMD_LED_AMP_GLB_B"
              \/ m.sig # "CMD_LED_AMP_GLB_AUS" /\ Gelb(k.gelb, k.wartend)
    BY <1>1, GelbSenden
  <2> QED
    BY <1>2, <2>2, <2>3 DEF EndGelb, Bereit, Blockiert, h
<1>3. CASE ~Blockiert(a, k)
  <2>1. k.wartend = <<>>
    BY <1>3 DEF Bereit
  <2>2. m.sig \in BefehlSignale
    BY DEF FuerHAL
  <2>3. /\ h.wartend = <<>> /\ h.rutsche = k.rutsche
        /\ h.gelb = IF m.sig = "CMD_LED_AMP_GLB_B" THEN TRUE
                    ELSE IF m.sig = "CMD_LED_AMP_GLB_AUS" THEN FALSE ELSE k.gelb
    BY <1>3, <2>1, <2>2
       DEF Befehl, BefehlSignale, Aktor, durchlassenWeiche, durchlassenAuswerfer,
           aussortierenWeiche, aussortierenAuswerfer
  <2> HIDE DEF h
  <2>4. (EndGelb(h) <=> h.gelb) /\ (EndGelb(k) <=> k.gelb)
    BY <1>1, <2>1, <2>3, GelbLeer DEF EndGelb
  <2> QED
    BY <2>3, <2>4 DEF Bereit, h
<1> QED
  BY <1>2, <1>3

\* After the pulses of s the lamp is as the last command for it says.
LEMMA BefehleGelb ==
  ASSUME NEW a \in Anlagen, NEW k \in Aktor, NEW s \in Seq(Puls), Bereit(a, k)
  PROVE  /\ Bereit(a, Befehle(a, k, s))
         /\ Befehle(a, k, s).rutsche = k.rutsche
         /\ EndGelb(Befehle(a, k, s)) <=> Gelb(EndGelb(k), s)
<1> DEFINE n == Len(s)
           Danach(i) == Letztes(EndGelb(k), s, i, "CMD_LED_AMP_GLB_B", "CMD_LED_AMP_GLB_AUS")
<1>1. PICK h \in [0..n -> Aktor] :
           /\ h[0] = k
           /\ \A i \in 1..n : h[i] = Ausgefuehrt(a, h[i - 1], s[i])
           /\ Befehle(a, k, s) = h[n]
  BY BefehleLauf
<1>2. n \in Nat /\ \A i \in 1..n : s[i] \in Puls
  OBVIOUS
<1> HIDE DEF n, Danach
<1> DEFINE Gut(i) == /\ Bereit(a, h[i]) /\ h[i].rutsche = k.rutsche
                     /\ EndGelb(h[i]) <=> Danach(i)
           T == {i \in Nat : i <= n => Gut(i)}
<1>3. EndGelb(k) \in BOOLEAN
  BY DEF EndGelb, Gelb, Letztes
<1>4. 0 \in T
  BY <1>1, <1>3, LetztesAnfang DEF Danach
<1>5. ASSUME NEW i \in Nat, i \in T PROVE i + 1 \in T
  <2> SUFFICES ASSUME i + 1 <= n PROVE Gut(i + 1)
    OBVIOUS
  <2>1. i + 1 \in 1..n /\ i \in 0..n /\ i <= n /\ (i + 1) - 1 = i
    BY <1>2
  <2>2. Gut(i)
    BY <1>5, <2>1
  <2>3. h[i] \in Aktor /\ s[i + 1] \in Puls /\ h[i + 1] = Ausgefuehrt(a, h[i], s[i + 1])
    BY <1>1, <1>2, <2>1
  <2>4. Danach(i + 1) <=> \/ s[i + 1].sig = "CMD_LED_AMP_GLB_B"
                          \/ s[i + 1].sig # "CMD_LED_AMP_GLB_AUS" /\ Danach(i)
    BY <1>3, LetztesWeiter DEF Danach
  <2>5. CASE FuerHAL(s[i + 1])
    BY <2>2, <2>3, <2>4, <2>5, BefehlGelb DEF Ausgefuehrt
  <2>6. CASE ~FuerHAL(s[i + 1])
    <3>1. h[i + 1] = h[i]
      BY <2>3, <2>6 DEF Ausgefuehrt
    <3>2. s[i + 1].sig \notin {"CMD_LED_AMP_GLB_B", "CMD_LED_AMP_GLB_AUS"}
      BY <2>6 DEF FuerHAL, BefehlSignale
    <3> QED
      BY <2>2, <2>4, <3>1, <3>2
  <2> QED
    BY <2>5, <2>6
<1>6. Gut(n)
  <2>1. Nat \subseteq T
    <3> HIDE DEF T
    <3> QED
      BY <1>4, <1>5, Induktion
  <2> QED
    BY <1>2, <2>1
<1> QED
  BY <1>1, <1>6 DEF Danach, Gelb, n

-----------------------------------------------------------------------------
(***************************************************************************)
(* The state machine of a plant.                                           *)
(***************************************************************************)
\* What a state machine sends: the slides report for themselves.
Gesendet == {m \in Puls : m.sig \notin RutscheSignale}

Zeitgeber == {t \in [TimerNamen -> Timer] : \A n \in TimerNamen : t[n].stand <= Ganz(n)}

Daten ==
  [festo : Anlagen, timer : Zeitgeber, anzahlWS : Int, order_index : 0..3,
   werkstueckListe : Seq(Werkstueck), erwarteteTypenQueue : Seq(WerkstueckTyp),
   f2_bereit : BOOLEAN, f2_voll : BOOLEAN, festo1Frei : BOOLEAN, festo2Frei : BOOLEAN,
   rutsche_voll : BOOLEAN, rutsche2_voll : BOOLEAN, motorSchnell : BOOLEAN,
   enteredHoheMessen : BOOLEAN, enteredWartenAufErlaubnisVonF2 : BOOLEAN,
   enteredWartenBisWSEntfernt : BOOLEAN, enteredAussortieren : BOOLEAN,
   FehlerVerlorenBeiLAS2 : BOOLEAN, fehler : [art : Fehlerart, ort : FehlerOrt]]

Maschine ==
  [d : Daten, aus : Seq(Gesendet),
   zustand : {"Betriebszustand", "Fehlerbehandlung", "EStop"},
   bz : {"AufWSWarten", "Sortierung"}, lsa : LSAZustand, lsh : LSHZustand, lsw : LSWZustand,
   lse : LSEZustand, warn : WarnZustand, exit : BOOLEAN]

\* v: the lamp before what the machine has sent since.  In Betriebszustand the
\* lamp is on while the region Warnung of Sortierung warns, ...
LampeWieWarnung(v, g) ==
  g.zustand = "Betriebszustand" =>
    (Gelb(v, g.aus) <=> g.bz = "Sortierung" /\ g.warn = "WarnsignalAktivieren")

\* ... and it warns while the machine takes the slide to be full.
WarnungWieRutsche(g) ==
  g.zustand = "Betriebszustand" /\ g.bz = "Sortierung" =>
    (g.warn = "WarnsignalAktivieren" <=> g.d.rutsche_voll)

VollPuls(a) == IF a = 1 THEN "EC_RTSCH1_VOLL" ELSE "EC_RTSCH2_VOLL"
FreiPuls(a) == IF a = 1 THEN "CMD_RTSCH1_NV" ELSE "CMD_RTSCH2_NV"

\* Does plant a take its slide to be full once it has handled the pulses k?
Voll(a, v, k) == Letztes(v, k, Len(k), VollPuls(a), FreiPuls(a))

\* The pulses of plant 1's slide stay on plant 1.
Fuer(a, m) == m \in Puls /\ (a = 2 => m.sig \notin {"EC_RTSCH1_VOLL", "CMD_RTSCH1_NV"})

FuerAlle(a, k) == \A i \in 1..Len(k) : Fuer(a, k[i])

(***************************************************************************)
(* The inductive invariant.                                                *)
(***************************************************************************)
Typen ==
  /\ anlage \in [Anlagen -> Maschine]
  /\ kanal \in [Anlagen -> Seq(Puls)]
  /\ aktor \in [Anlagen -> Aktor]
  /\ ws \in [Plaetze -> Werkstuecke]
  /\ zuBewegen \subseteq Plaetze
  /\ naechster \in 0..3
  /\ verloren \in BOOLEAN

Fertig(a, g) == g.aus = <<>> /\ ~g.exit /\ g.d.festo = a /\ g.d.anzahlWS >= 0

\* What holds of machine g, channel k and actuators h of plant a.
Passt(a, g, k, h) ==
  /\ g \in Maschine /\ k \in Seq(Puls) /\ h \in Aktor
  /\ Fertig(a, g) /\ Bereit(a, h)
  /\ LampeWieWarnung(EndGelb(h), g) /\ WarnungWieRutsche(g)
  /\ FuerAlle(a, k)
  /\ Voll(a, g.d.rutsche_voll, k) <=> h.rutsche > RutschenZeit

IInv == Typen /\ \A a \in Anlagen : Passt(a, anlage[a], kanal[a], aktor[a])

-----------------------------------------------------------------------------
(***************************************************************************)
(* Most steps of the machine leave alone what the lamp depends on.         *)
(***************************************************************************)
Gleich(x, g) ==
  /\ g.zustand = x.zustand /\ g.bz = x.bz /\ g.warn = x.warn /\ g.exit = x.exit
  /\ g.d.rutsche_voll = x.d.rutsche_voll /\ g.d.festo = x.d.festo
  /\ x.d.anzahlWS >= 0 => g.d.anzahlWS >= 0
  /\ \A v \in BOOLEAN : Gelb(v, g.aus) <=> Gelb(v, x.aus)

Folgt(x, g) == g \in Maschine /\ Gleich(x, g)

\* Pulses without a type that do not switch the lamp.
Leise == {s \in Signale : s \notin RutscheSignale
            \cup {"S_UEBERGABE_WS", "CMD_LED_AMP_GLB_B", "CMD_LED_AMP_GLB_AUS"}}

LEMMA GesendetIstPuls ==
  ASSUME NEW s \in Seq(Gesendet) PROVE s \in Seq(Puls)
<1>1. Gesendet \subseteq Puls
  BY DEF Gesendet
<1> QED
  BY <1>1, SeqMonotonic

LEMMA AppendGelb ==
  ASSUME NEW s \in Seq(Gesendet), NEW m \in Gesendet, NEW v \in BOOLEAN
  PROVE  /\ Append(s, m) \in Seq(Gesendet)
         /\ Gelb(v, Append(s, m))
              <=> \/ m.sig = "CMD_LED_AMP_GLB_B"
                  \/ m.sig # "CMD_LED_AMP_GLB_AUS" /\ Gelb(v, s)
<1>1. m \in Puls
  BY DEF Gesendet
<1> QED
  BY <1>1, GesendetIstPuls, GelbSenden

LEMMA SendenMitGeht ==
  ASSUME NEW x, NEW g, Folgt(x, g), NEW sig, NEW wert, [sig |-> sig, wert |-> wert] \in Gesendet,
         sig # "CMD_LED_AMP_GLB_B", sig # "CMD_LED_AMP_GLB_AUS"
  PROVE  Folgt(x, sendenMit(g, sig, wert))
<1> DEFINE m == [sig |-> sig, wert |-> wert]
           h == sendenMit(g, sig, wert)
<1>1. g \in Maschine /\ g.aus \in Seq(Gesendet)
  BY DEF Folgt, Maschine
<1>2. m \in Gesendet /\ m.sig = sig
  OBVIOUS
<1> HIDE DEF m
<1>3. Append(g.aus, m) \in Seq(Gesendet)
  BY <1>1, <1>2
<1>4. \A v \in BOOLEAN : Gelb(v, Append(g.aus, m)) <=> Gelb(v, g.aus)
  BY <1>1, <1>2, AppendGelb
<1>5. h = [g EXCEPT !.aus = Append(g.aus, m)]
  BY DEF sendenMit, m
<1>6. h \in Maschine /\ h.aus = Append(g.aus, m) /\ h.d = g.d
      /\ h.zustand = g.zustand /\ h.bz = g.bz /\ h.warn = g.warn /\ h.exit = g.exit
  BY <1>1, <1>3, <1>5 DEF Maschine
<1> HIDE DEF h
<1> QED
  BY <1>4, <1>6 DEF Folgt, Gleich, h

LEMMA SendenGeht ==
  ASSUME NEW x, NEW g, Folgt(x, g), NEW sig \in Leise
  PROVE  Folgt(x, senden(g, sig))
<1>1. sig \in Signale /\ sig \notin RutscheSignale /\ sig # "S_UEBERGABE_WS"
      /\ sig # "CMD_LED_AMP_GLB_B" /\ sig # "CMD_LED_AMP_GLB_AUS"
  BY DEF Leise
<1>2. [sig |-> sig, wert |-> "-"] \in Gesendet
  BY <1>1 DEF Gesendet, Puls
<1> QED
  BY <1>1, <1>2, SendenMitGeht DEF senden

\* The signals the machine sends.
LEMMA LeiseSignale ==
  {"CMD_MTR_STOP", "CMD_WCH_AUS", "CMD_MTR_RECHTS_L", "CMD_MTR_RECHTS_S", "CMD_DURCHLASSEN",
   "CMD_AUSSORTIEREN", "CMD_LED_Q1_AN", "CMD_LED_Q1_AUS", "S_PARTNER_FEHLER",
   "S_FESTO1_FREI", "S_FESTO1_NFREI", "S_FESTO2_FREI", "S_FESTO2_NFREI", "S_FESTO2_BEREIT",
   "S_FESTO2_NBEREIT", "CMD_FESTOS_FREI", "S_FESTO1_STOPPEN", "S_WS_AN_FESTO2",
   "WERKSTUECK_ANDERS", "T_LSE1_LSA2", "T_LSA_LSH", "T_LSH_LSM", "T_LSW_LSE", "T_LSW_LSR",
   "T_TOLERANZZEIT_LSA", "T_TOLERANZZEIT_LSH", "T_TOLERANZZEIT_LSW", "T_TOLERANZZEIT_LSE"}
    \subseteq Leise
<1>1. TimerSignale =
        {"T_LSE1_LSA2", "T_LSA_LSH", "T_LSH_LSM", "T_LSW_LSE", "T_LSW_LSR",
         "T_TOLERANZZEIT_LSA", "T_TOLERANZZEIT_LSH", "T_TOLERANZZEIT_LSW",
         "T_TOLERANZZEIT_LSE"}
  BY DEF TimerSignale, TimerNamen, BandTimer, ZeitPuls, ToleranzPuls
<1> QED
  BY <1>1 DEF Leise, Signale, BefehlSignale, UebergabeSignale, RutscheSignale

LEMMA RegionenGehen ==
  ASSUME NEW x, NEW g, Folgt(x, g)
  PROVE  /\ \A z \in LSAZustand : Folgt(x, [g EXCEPT !.lsa = z])
         /\ \A z \in LSHZustand : Folgt(x, [g EXCEPT !.lsh = z])
         /\ \A z \in LSWZustand : Folgt(x, [g EXCEPT !.lsw = z])
         /\ \A z \in LSEZustand : Folgt(x, [g EXCEPT !.lse = z])
  BY DEF Folgt, Gleich, Maschine

LEMMA MerkerGehen ==
  ASSUME NEW x, NEW g, Folgt(x, g), NEW b \in BOOLEAN
  PROVE  /\ Folgt(x, [g EXCEPT !.d.f2_voll = b])
         /\ Folgt(x, [g EXCEPT !.d.f2_bereit = b])
         /\ Folgt(x, [g EXCEPT !.d.festo1Frei = b])
         /\ Folgt(x, [g EXCEPT !.d.festo2Frei = b])
         /\ Folgt(x, [g EXCEPT !.d.rutsche2_voll = b])
         /\ Folgt(x, [g EXCEPT !.d.motorSchnell = b])
         /\ Folgt(x, [g EXCEPT !.d.enteredHoheMessen = b])
         /\ Folgt(x, [g EXCEPT !.d.enteredWartenAufErlaubnisVonF2 = b])
         /\ Folgt(x, [g EXCEPT !.d.enteredWartenBisWSEntfernt = b])
         /\ Folgt(x, [g EXCEPT !.d.enteredAussortieren = b])
         /\ Folgt(x, [g EXCEPT !.d.FehlerVerlorenBeiLAS2 = b])
<1> USE DEF Folgt, Gleich, Maschine, Daten
<1>1. Folgt(x, [g EXCEPT !.d.f2_voll = b])
  OBVIOUS
<1>2. Folgt(x, [g EXCEPT !.d.f2_bereit = b])
  OBVIOUS
<1>3. Folgt(x, [g EXCEPT !.d.festo1Frei = b])
  OBVIOUS
<1>4. Folgt(x, [g EXCEPT !.d.festo2Frei = b])
  OBVIOUS
<1>5. Folgt(x, [g EXCEPT !.d.rutsche2_voll = b])
  OBVIOUS
<1>6. Folgt(x, [g EXCEPT !.d.motorSchnell = b])
  OBVIOUS
<1>7. Folgt(x, [g EXCEPT !.d.enteredHoheMessen = b])
  OBVIOUS
<1>8. Folgt(x, [g EXCEPT !.d.enteredWartenAufErlaubnisVonF2 = b])
  OBVIOUS
<1>9. Folgt(x, [g EXCEPT !.d.enteredWartenBisWSEntfernt = b])
  OBVIOUS
<1>10. Folgt(x, [g EXCEPT !.d.enteredAussortieren = b])
  OBVIOUS
<1>11. Folgt(x, [g EXCEPT !.d.FehlerVerlorenBeiLAS2 = b])
  OBVIOUS
<1> QED
  BY <1>1, <1>2, <1>3, <1>4, <1>5, <1>6, <1>7, <1>8, <1>9, <1>10, <1>11

LEMMA AnzahlGeht ==
  ASSUME NEW x, NEW g, Folgt(x, g), NEW n \in Int, x.d.anzahlWS >= 0 => n >= 0
  PROVE  Folgt(x, [g EXCEPT !.d.anzahlWS = n])
  BY DEF Folgt, Gleich, Maschine, Daten

LEMMA OrderGeht ==
  ASSUME NEW x, NEW g, Folgt(x, g), NEW i \in 0..3
  PROVE  Folgt(x, [g EXCEPT !.d.order_index = i])
  BY DEF Folgt, Gleich, Maschine, Daten

LEMMA ListeGeht ==
  ASSUME NEW x, NEW g, Folgt(x, g), NEW L \in Seq(Werkstueck)
  PROVE  Folgt(x, [g EXCEPT !.d.werkstueckListe = L])
  BY DEF Folgt, Gleich, Maschine, Daten

LEMMA ErwartungGeht ==
  ASSUME NEW x, NEW g, Folgt(x, g), NEW q \in Seq(WerkstueckTyp)
  PROVE  Folgt(x, [g EXCEPT !.d.erwarteteTypenQueue = q])
  BY DEF Folgt, Gleich, Maschine, Daten

LEMMA FehlerGeht ==
  ASSUME NEW x, NEW g, Folgt(x, g), NEW f \in [art : Fehlerart, ort : FehlerOrt]
  PROVE  Folgt(x, [g EXCEPT !.d.fehler = f])
  BY DEF Folgt, Gleich, Maschine, Daten

LEMMA TimerGehen ==
  ASSUME NEW x, NEW g, Folgt(x, g), NEW n \in TimerNamen, NEW t \in Timer, t.stand <= Ganz(n)
  PROVE  Folgt(x, stelle(g, n, t))
<1>1. g.d.timer \in Zeitgeber
  BY DEF Folgt, Maschine, Daten
<1>2. [g.d.timer EXCEPT ![n] = t] \in Zeitgeber
  BY <1>1 DEF Zeitgeber
<1> QED
  BY <1>2 DEF Folgt, Gleich, Maschine, Daten, stelle

LEMMA GanzTyp == \A n \in TimerNamen : Ganz(n) \in Nat /\ 0 <= Ganz(n)
  BY BasisAnnahme DEF Ganz

LEMMA StartenGeht ==
  ASSUME NEW x, NEW g, Folgt(x, g), NEW n \in TimerNamen
  PROVE  Folgt(x, starte(g, n))
<1>1. Gestartet \in Timer /\ Gestartet.stand <= Ganz(n)
  BY GanzTyp DEF Gestartet, Timer
<1> QED
  BY <1>1, TimerGehen DEF starte

LEMMA PausierenGeht ==
  ASSUME NEW x, NEW g, Folgt(x, g), NEW N \in SUBSET TimerNamen
  PROVE  Folgt(x, pausiere(g, N)) /\ Folgt(x, fortsetzen(g, N))
<1> DEFINE p == [n \in TimerNamen |-> IF n \in N THEN Pausiert(g.d.timer[n]) ELSE g.d.timer[n]]
           f == [n \in TimerNamen |-> IF n \in N THEN Fortgesetzt(g.d.timer[n]) ELSE g.d.timer[n]]
<1>1. g.d.timer \in Zeitgeber
  BY DEF Folgt, Maschine, Daten
<1>2. p \in Zeitgeber /\ f \in Zeitgeber
  BY <1>1 DEF Zeitgeber, Timer, Pausiert, Fortgesetzt
<1>3. pausiere(g, N) = [g EXCEPT !.d.timer = p] /\ fortsetzen(g, N) = [g EXCEPT !.d.timer = f]
  BY DEF pausiere, fortsetzen
<1> HIDE DEF p, f
<1>4. \A t \in Zeitgeber : Folgt(x, [g EXCEPT !.d.timer = t])
  BY DEF Folgt, Gleich, Maschine, Daten
<1> QED
  BY <1>2, <1>3, <1>4

LEMMA DatenTyp ==
  ASSUME NEW x, NEW g, Folgt(x, g)
  PROVE  /\ g \in Maschine /\ g.d \in Daten /\ g.aus \in Seq(Gesendet)
         /\ g.d.anzahlWS \in Int /\ (x.d.anzahlWS >= 0 => g.d.anzahlWS >= 0)
         /\ g.d.order_index \in 0..3
         /\ g.d.werkstueckListe \in Seq(Werkstueck)
         /\ g.d.erwarteteTypenQueue \in Seq(WerkstueckTyp)
         /\ g.d.festo \in Anlagen /\ g.d.festo = x.d.festo
         /\ g.bz = x.bz /\ g.zustand = x.zustand /\ g.exit = x.exit /\ g.warn = x.warn
         /\ g.d.rutsche_voll = x.d.rutsche_voll /\ g.d.rutsche_voll \in BOOLEAN
  BY DEF Folgt, Gleich, Maschine, Daten

-----------------------------------------------------------------------------
(***************************************************************************)
(* The count of the workpieces.                                            *)
(***************************************************************************)
LEMMA AddWSGeht ==
  ASSUME NEW x, NEW g, Folgt(x, g)
  PROVE  Folgt(x, addWS_F1(g)) /\ Folgt(x, addWS_F2(g))
<1> DEFINE h == [g EXCEPT !.d.anzahlWS = @ + 1]
<1>1. /\ g.d.anzahlWS + 1 \in Int /\ (x.d.anzahlWS >= 0 => g.d.anzahlWS + 1 >= 0)
      /\ h = [g EXCEPT !.d.anzahlWS = g.d.anzahlWS + 1]
  BY DatenTyp
<1>2. Folgt(x, h)
  BY <1>1, AnzahlGeht
<1> HIDE DEF h
<1>3. Folgt(x, senden(h, "S_FESTO1_NFREI")) /\ Folgt(x, senden(h, "S_FESTO2_NFREI"))
  BY <1>2, LeiseSignale, SendenGeht
<1>4. Folgt(x, senden([senden(h, "S_FESTO2_NFREI") EXCEPT !.d.f2_voll = TRUE],
                      "S_FESTO2_NBEREIT"))
  BY <1>3, LeiseSignale, SendenGeht, MerkerGehen
<1> QED
  BY <1>3, <1>4 DEF addWS_F1, addWS_F2, h

LEMMA NichtNegativGeht ==
  ASSUME NEW x, NEW g, Folgt(x, g), NEW z \in Int, NEW k,
         Folgt([g EXCEPT !.d.anzahlWS = z], k)
  PROVE  Folgt(x, NichtNegativ(k))
<1> DEFINE r == [g EXCEPT !.d.anzahlWS = z]
           n == IF k.d.anzahlWS < 0 THEN 0 ELSE k.d.anzahlWS
           h == [k EXCEPT !.d.anzahlWS = n]
<1>1. g \in Maschine /\ k \in Maschine /\ k.d.anzahlWS \in Int
  BY DEF Folgt, Maschine, Daten
<1>2. /\ r.zustand = g.zustand /\ r.bz = g.bz /\ r.warn = g.warn /\ r.exit = g.exit
      /\ r.d.rutsche_voll = g.d.rutsche_voll /\ r.d.festo = g.d.festo /\ r.aus = g.aus
  BY <1>1 DEF Maschine, Daten
<1> HIDE DEF r
<1>3. n \in Int /\ n >= 0
  BY <1>1
<1>4. NichtNegativ(k) = h
  BY DEF NichtNegativ
<1> HIDE DEF n
<1>5. /\ h \in Maschine /\ h.d.anzahlWS >= 0
      /\ h.zustand = k.zustand /\ h.bz = k.bz /\ h.warn = k.warn /\ h.exit = k.exit
      /\ h.d.rutsche_voll = k.d.rutsche_voll /\ h.d.festo = k.d.festo /\ h.aus = k.aus
  BY <1>1, <1>3 DEF Maschine, Daten
<1> HIDE DEF h
<1>6. Folgt(r, k)
  BY DEF r
<1> QED
  BY <1>2, <1>4, <1>5, <1>6 DEF Folgt, Gleich

LEMMA LoescheWSGeht ==
  ASSUME NEW x, NEW g, Folgt(x, g)
  PROVE  Folgt(x, loescheWS_F1(g)) /\ Folgt(x, loescheWS_F2(g))
<1> DEFINE z == g.d.anzahlWS - 1
           r == [g EXCEPT !.d.anzahlWS = @ - 1]
           f == senden(r, "S_FESTO1_FREI")
           b == [senden(r, "S_FESTO2_BEREIT") EXCEPT !.d.f2_voll = FALSE]
<1>1. z \in Int /\ r = [g EXCEPT !.d.anzahlWS = z]
  BY DatenTyp
<1>2. Folgt(r, r)
  BY <1>1 DEF Folgt, Gleich, Maschine, Daten
<1>3. \A k : Folgt(r, k) => Folgt(x, NichtNegativ(k))
  BY <1>1, NichtNegativGeht
<1>4. loescheWS_F1(g) =
         NichtNegativ(
           IF r.d.anzahlWS # 0 THEN r
           ELSE IF r.d.festo2Frei /\ r.d.enteredAussortieren
                THEN senden(f, "CMD_FESTOS_FREI") ELSE f)
  BY DEF loescheWS_F1
<1>5. loescheWS_F2(g) =
         LET k == IF r.d.anzahlWS < 2 THEN b ELSE r
             frei == senden(k, "S_FESTO2_FREI")
         IN  NichtNegativ(
               IF r.d.anzahlWS # 0 THEN k
               ELSE IF r.d.festo1Frei THEN senden(frei, "CMD_FESTOS_FREI") ELSE frei)
  BY DEF loescheWS_F2
<1> HIDE DEF r
<1>6. Folgt(r, f) /\ Folgt(r, senden(f, "CMD_FESTOS_FREI"))
  BY <1>2, LeiseSignale, SendenGeht
<1>7. Folgt(r, b)
  BY <1>2, LeiseSignale, SendenGeht, MerkerGehen
<1> HIDE DEF f, b
<1>8. \A k : Folgt(r, k) => /\ Folgt(r, senden(k, "S_FESTO2_FREI"))
                            /\ Folgt(r, senden(senden(k, "S_FESTO2_FREI"), "CMD_FESTOS_FREI"))
  BY LeiseSignale, SendenGeht
<1> QED
  BY <1>2, <1>3, <1>4, <1>5, <1>6, <1>7, <1>8

-----------------------------------------------------------------------------
(***************************************************************************)
(* The list of the workpieces and the order.                               *)
(***************************************************************************)
LEMMA VornTyp ==
  ASSUME NEW x, NEW g, Folgt(x, g), ~ListeLeer(g)
  PROVE  Vorn(g) \in Werkstueck /\ Vorn(g) = g.d.werkstueckListe[1]
<1>1. g.d.werkstueckListe \in Seq(Werkstueck) /\ g.d.werkstueckListe # <<>>
  BY DatenTyp DEF ListeLeer
<1> QED
  BY <1>1 DEF Vorn

LEMMA ErstesGeht ==
  ASSUME NEW x, NEW g, Folgt(x, g), ~ListeLeer(g), NEW w \in Werkstueck
  PROVE  Folgt(x, ErstesWird(g, w))
<1> DEFINE L == g.d.werkstueckListe
           M == [L EXCEPT ![1] = w]
<1>1. L \in Seq(Werkstueck) /\ L # <<>>
  BY DatenTyp DEF ListeLeer
<1>2. M \in Seq(Werkstueck)
  BY <1>1
<1>3. ErstesWird(g, w) = [g EXCEPT !.d.werkstueckListe = M]
  BY DEF ErstesWird
<1> HIDE DEF M
<1> QED
  BY <1>2, <1>3, ListeGeht

LEMMA RegisterId1Geht ==
  ASSUME NEW x, NEW g, Folgt(x, g)
  PROVE  Folgt(x, registerId1(g))
<1>1. NeuesWerkstueck \in Werkstueck
  BY DEF NeuesWerkstueck, Werkstueck, WerkstueckTyp
<1>2. Append(g.d.werkstueckListe, NeuesWerkstueck) \in Seq(Werkstueck)
  BY <1>1, DatenTyp
<1> QED
  BY <1>2, ListeGeht DEF registerId1

LEMMA RegisterId2Geht ==
  ASSUME NEW x, NEW g, Folgt(x, g), NEW sig
  PROVE  Folgt(x, registerId2(g, sig))
<1>1. CASE ListeLeer(g)
  BY <1>1 DEF registerId2
<1>2. CASE ~ListeLeer(g)
  <2> DEFINE typ == CASE sig = "WERKSTUECK_FLACH" -> "F"
                      [] sig = "WERKSTUECK_HOCH"  -> "H"
                      [] sig = "WERKSTUECK_MIT_BOHRUNG" ->
                           IF Vorn(g).metall THEN "HBM" ELSE "HB"
                      [] OTHER -> "UNBEKANNT"
             w == [Vorn(g) EXCEPT !.typ = typ, !.aussortieren = @ \/ typ = "UNBEKANNT"]
  <2>1. typ \in WerkstueckTyp
    BY DEF WerkstueckTyp
  <2>2. registerId2(g, sig) = ErstesWird(g, w)
    BY <1>2 DEF registerId2
  <2> HIDE DEF typ
  <2>3. w \in Werkstueck
    BY <1>2, <2>1, VornTyp DEF Werkstueck
  <2> QED
    BY <1>2, <2>2, <2>3, ErstesGeht
<1> QED
  BY <1>1, <1>2

LEMMA RegisterId3Geht ==
  ASSUME NEW x, NEW g, Folgt(x, g)
  PROVE  Folgt(x, registerId3(g))
<1>1. CASE ListeLeer(g)
  BY <1>1 DEF registerId3
<1>2. CASE ~ListeLeer(g)
  <2> DEFINE w == [Vorn(g) EXCEPT !.metall = TRUE, !.typ = IF @ = "HB" THEN "HBM" ELSE @]
  <2>1. w \in Werkstueck
    BY <1>2, VornTyp DEF Werkstueck, WerkstueckTyp
  <2>2. Folgt(x, ErstesWird(g, w))
    BY <1>2, <2>1, ErstesGeht
  <2> QED
    BY <1>2, <2>2 DEF registerId3
<1> QED
  BY <1>1, <1>2

LEMMA VerlaesstGeht ==
  ASSUME NEW x, NEW g, Folgt(x, g)
  PROVE  Folgt(x, werkstueckVerlaesstAnlage(g))
<1>1. ~ListeLeer(g) => Tail(g.d.werkstueckListe) \in Seq(Werkstueck)
  BY DatenTyp DEF ListeLeer
<1> QED
  BY <1>1, ListeGeht DEF werkstueckVerlaesstAnlage

LEMMA UeberpruefeGeht ==
  ASSUME NEW x, NEW g, Folgt(x, g)
  PROVE  Folgt(x, ueberpruefeReihenfolge(g))
<1>1. CASE ListeLeer(g)
  BY <1>1 DEF ueberpruefeReihenfolge
<1>2. CASE ~ListeLeer(g)
  <2> DEFINE falsch == IF gFesto1(g) THEN FalschFuerF1(g) ELSE FalschFuerF2(g)
             w == [Vorn(g) EXCEPT !.aussortieren = falsch]
             h == ErstesWird(g, w)
             i == IF gFesto1(g) /\ h.d.order_index >= 4 THEN 0 ELSE h.d.order_index
  <2>1. falsch \in BOOLEAN
    BY DEF FalschFuerF1, FalschFuerF2
  <2>2. ueberpruefeReihenfolge(g) = [h EXCEPT !.d.order_index = i]
    BY <1>2 DEF ueberpruefeReihenfolge
  <2> HIDE DEF falsch
  <2>3. w \in Werkstueck
    BY <1>2, <2>1, VornTyp DEF Werkstueck
  <2> HIDE DEF w
  <2>4. Folgt(x, h)
    BY <1>2, <2>3, ErstesGeht
  <2> HIDE DEF h
  <2>5. i \in 0..3
    BY <2>4, DatenTyp
  <2> HIDE DEF i
  <2>6. Folgt(x, [h EXCEPT !.d.order_index = i])
    BY <2>4, <2>5, OrderGeht
  <2> QED
    BY <2>2, <2>6
<1> QED
  BY <1>1, <1>2

LEMMA QueueGeht ==
  ASSUME NEW x, NEW g, Folgt(x, g), g.d.erwarteteTypenQueue # <<>>
  PROVE  Folgt(x, [g EXCEPT !.d.erwarteteTypenQueue = Tail(g.d.erwarteteTypenQueue)])
<1>1. Tail(g.d.erwarteteTypenQueue) \in Seq(WerkstueckTyp)
  BY DatenTyp
<1> QED
  BY <1>1, ErwartungGeht

LEMMA AdvanceGeht ==
  ASSUME NEW x, NEW g, Folgt(x, g)
  PROVE  Folgt(x, advanceOrder(g)) /\ Folgt(x, WerkstueckAnders(g))
<1> DEFINE i == g.d.order_index
<1>1. i \in 0..3
  BY DatenTyp
<1>2. (IF i + 1 >= 4 THEN 0 ELSE i + 1) \in 0..3 /\ (IF i > 0 THEN i - 1 ELSE 3) \in 0..3
  BY <1>1
<1>3. /\ Folgt(x, [g EXCEPT !.d.order_index = IF i + 1 >= 4 THEN 0 ELSE i + 1])
      /\ Folgt(x, [g EXCEPT !.d.order_index = IF i > 0 THEN i - 1 ELSE 3])
  BY <1>2, OrderGeht
<1>4. g.d.erwarteteTypenQueue # <<>> =>
        Folgt(x, [g EXCEPT !.d.erwarteteTypenQueue = Tail(g.d.erwarteteTypenQueue)])
  BY QueueGeht
<1> QED
  BY <1>3, <1>4 DEF advanceOrder, WerkstueckAnders

LEMMA EmpfangeGeht ==
  ASSUME NEW x, NEW g, Folgt(x, g), NEW typ \in WerkstueckTyp
  PROVE  Folgt(x, empfangeTypVonF1(g, typ))
<1>1. Append(g.d.erwarteteTypenQueue, typ) \in Seq(WerkstueckTyp)
  BY DatenTyp
<1> QED
  BY <1>1, ErwartungGeht DEF empfangeTypVonF1

LEMMA TypSendenGeht ==
  ASSUME NEW x, NEW g, Folgt(x, g), NEW typ \in WerkstueckTyp
  PROVE  Folgt(x, wsTypSenden(g, typ))
<1>1. [sig |-> "S_UEBERGABE_WS", wert |-> typ] \in Gesendet
  BY DEF Gesendet, Puls, Signale, UebergabeSignale, RutscheSignale
<1> QED
  BY <1>1, SendenMitGeht DEF wsTypSenden

-----------------------------------------------------------------------------
(***************************************************************************)
(* The timers count, the data are forgotten.                               *)
(***************************************************************************)
LEMMA GanzGross ==
  ASSUME NEW n \in TimerNamen, NEW s \in BOOLEAN
  PROVE  basisZeit(n, s) \in Nat /\ basisZeit(n, s) <= Ganz(n) /\ Anteil(n, s) \in Nat
<1>1. \A a, b \in Nat \ {0} : a * b \in Nat /\ a <= a * b /\ b <= a * b
  OBVIOUS
<1>2. Basis[n].schnell \in Nat \ {0} /\ Basis[n].langsam \in Nat \ {0}
  BY BasisAnnahme
<1> QED
  BY <1>1, <1>2 DEF basisZeit, Anteil, Ganz

LEMMA AktualisiereTyp ==
  ASSUME NEW n \in TimerNamen, NEW s \in BOOLEAN, NEW t \in Timer, t.stand <= Ganz(n)
  PROVE  aktualisiere(t, n, s) \in Timer /\ aktualisiere(t, n, s).stand <= Ganz(n)
<1> DEFINE u == aktualisiere(t, n, s)
<1>1. Ganz(n) \in Nat /\ Anteil(n, s) \in Nat /\ basisZeit(n, s) \in Nat
      /\ basisZeit(n, s) <= Ganz(n) /\ t.stand \in Nat
  BY GanzTyp, GanzGross DEF Timer
<1>2. CASE ~laeuft(t)
  <2>1. u = t
    BY <1>2 DEF aktualisiere, ZeitAbgelaufen, ToleranzAbgelaufen
  <2> QED
    BY <2>1
<1>3. CASE laeuft(t) /\ (ZeitAbgelaufen(t, n, s) \/ ToleranzAbgelaufen(t, n, s))
  <2>1. /\ ToleranzAbgelaufen(t, n, s) => t.phase = "toleranz"
        /\ ZeitAbgelaufen(t, n, s) => t.phase = "zeit"
    BY DEF ZeitAbgelaufen, ToleranzAbgelaufen
  <2>2. u = [t EXCEPT !.phase = "toleranz", !.stand = 0] \/ u = NeuerTimer
    BY <1>3, <2>1 DEF aktualisiere
  <2> HIDE DEF u
  <2>3. CASE u = [t EXCEPT !.phase = "toleranz", !.stand = 0]
    <3>1. u.stand = 0 /\ u \in Timer
      BY <2>3 DEF Timer
    <3> QED
      BY <1>1, <3>1 DEF u
  <2>4. CASE u = NeuerTimer
    <3>1. u.stand = 0 /\ u \in Timer
      BY <2>4 DEF Timer, NeuerTimer
    <3> QED
      BY <1>1, <3>1 DEF u
  <2> QED
    BY <2>2, <2>3, <2>4
<1>4. CASE laeuft(t) /\ t.phase = "zeit" /\ ~ZeitAbgelaufen(t, n, s)
  <2>1. u = [t EXCEPT !.stand = t.stand + Anteil(n, s)]
    BY <1>4 DEF aktualisiere, ToleranzAbgelaufen, fortschritt
  <2>2. t.stand + Anteil(n, s) \in Nat /\ t.stand + Anteil(n, s) <= Ganz(n)
    BY <1>1, <1>4 DEF ZeitAbgelaufen, fortschritt
  <2> QED
    BY <2>1, <2>2 DEF Timer
<1>5. CASE laeuft(t) /\ t.phase # "zeit" /\ ~ToleranzAbgelaufen(t, n, s)
  <2>1. u = [t EXCEPT !.stand = t.stand + 1]
    BY <1>5 DEF aktualisiere, ZeitAbgelaufen
  <2>2. t.phase = "toleranz"
    BY <1>5 DEF laeuft, Timer
  <2>3. t.stand + 1 \in Nat /\ t.stand + 1 <= Ganz(n)
    BY <1>1, <1>5, <2>2 DEF ToleranzAbgelaufen
  <2> QED
    BY <2>1, <2>3 DEF Timer
<1> QED
  BY <1>2, <1>3, <1>4, <1>5

LEMMA RueckrufGeht ==
  ASSUME NEW x, NEW g, Folgt(x, g), NEW n \in TimerNamen, NEW t, NEW s
  PROVE  Folgt(x, Rueckruf(g, n, t, s))
<1>1. ZeitPuls[n] \in Leise /\ (n # "lsr" => ToleranzPuls[n] \in Leise)
  BY LeiseSignale DEF ZeitPuls, ToleranzPuls, TimerNamen
<1>2. Folgt(x, senden(g, ZeitPuls[n])) /\ (n # "lsr" => Folgt(x, senden(g, ToleranzPuls[n])))
  BY <1>1, SendenGeht
<1>3. ToleranzAbgelaufen(t, n, s) => ~ZeitAbgelaufen(t, n, s)
  BY DEF ToleranzAbgelaufen, ZeitAbgelaufen
<1> QED
  BY <1>2, <1>3 DEF Rueckruf

LEMMA TimerSchrittGeht ==
  ASSUME NEW x, NEW g, Folgt(x, g), NEW n \in TimerNamen
  PROVE  Folgt(x, TimerSchritt(g, n))
<1> DEFINE t == g.d.timer[n]
           s == g.d.motorSchnell
           u == aktualisiere(t, n, s)
<1>1. t \in Timer /\ t.stand <= Ganz(n) /\ s \in BOOLEAN
  BY DatenTyp DEF Daten, Zeitgeber
<1>2. u \in Timer /\ u.stand <= Ganz(n)
  BY <1>1, AktualisiereTyp
<1>3. TimerSchritt(g, n) = Rueckruf(stelle(g, n, u), n, t, s)
  BY DEF TimerSchritt
<1> HIDE DEF t, s, u
<1>4. Folgt(x, stelle(g, n, u))
  BY <1>2, TimerGehen
<1> QED
  BY <1>3, <1>4, RueckrufGeht

LEMMA UpdateTimersGeht ==
  ASSUME NEW x, NEW g, Folgt(x, g)
  PROVE  Folgt(x, updateTimers(g))
<1>1. \A n \in TimerNamen : \A k : Folgt(x, k) => Folgt(x, TimerSchritt(k, n))
  BY TimerSchrittGeht
<1> QED
  BY <1>1 DEF updateTimers, TimerNamen

LEMMA NeueDatenTyp ==
  ASSUME NEW a \in Anlagen
  PROVE  NeueDaten(a) \in Daten
<1>1. [n \in TimerNamen |-> NeuerTimer] \in Zeitgeber
  BY GanzTyp DEF Zeitgeber, NeuerTimer, Timer
<1>2. [art |-> "keinFehler", ort |-> "DEFAULT"] \in [art : Fehlerart, ort : FehlerOrt]
  BY DEF Fehlerart, FehlerOrt
<1>3. 0 \in 0..3 /\ <<>> \in Seq(Werkstueck) /\ <<>> \in Seq(WerkstueckTyp)
  OBVIOUS
<1> QED
  BY <1>1, <1>2, <1>3 DEF NeueDaten, Daten

LEMMA LoeschenTyp ==
  ASSUME NEW g \in Maschine
  PROVE  LET h == datenprozessLoeschen(g)
         IN  /\ h \in Maschine /\ h.aus = g.aus /\ h.exit = g.exit
             /\ h.d.festo = g.d.festo /\ h.d.anzahlWS = 0
             /\ h.d.rutsche_voll = g.d.rutsche_voll
<1> DEFINE D == g.d
           N == NeueDaten(D.festo)
           E == [f \in DOMAIN D |-> IF f \in Vergessen THEN N[f] ELSE D[f]]
<1>1. D \in Daten /\ N \in Daten /\ N.anzahlWS = 0
  BY NeueDatenTyp DEF Maschine, Daten, NeueDaten
<1>2. datenprozessLoeschen(g) = [g EXCEPT !.d = E]
  BY DEF datenprozessLoeschen, Geloescht
<1> HIDE DEF N
<1>3. DOMAIN D = DOMAIN N
  BY <1>1 DEF Daten
<1>4. \A f \in DOMAIN D : E[f] = D[f] \/ E[f] = N[f]
  OBVIOUS
<1>5. "festo" \in DOMAIN D /\ "anzahlWS" \in DOMAIN D /\ "rutsche_voll" \in DOMAIN D
  BY <1>1 DEF Daten
<1>6. E.festo = D.festo /\ E.anzahlWS = N.anzahlWS /\ E.rutsche_voll = D.rutsche_voll
  BY <1>5 DEF Vergessen
<1>7. E \in Daten
  BY <1>1, <1>3, <1>4 DEF Daten
<1> QED
  BY <1>1, <1>2, <1>6, <1>7 DEF Maschine

-----------------------------------------------------------------------------
(***************************************************************************)
(* The regions.  A region changes nothing the lamp depends on, or it asks  *)
(* for Fehlerbehandlung.                                                   *)
(***************************************************************************)
Verlangt(x) == [x EXCEPT !.exit = TRUE]

Region(x, g) == Folgt(x, g) \/ Folgt(Verlangt(x), g)

LEMMA FehlerExitGeht ==
  ASSUME NEW x \in Maschine, NEW g, Folgt(x, g), NEW art \in Fehlerart, NEW ort \in FehlerOrt
  PROVE  Region(x, FehlerExit(g, art, ort))
<1> DEFINE f == [art |-> art, ort |-> ort]
           h == setFehler(g, art, ort)
           k == FehlerExit(g, art, ort)
           y == Verlangt(x)
<1>1. f \in [art : Fehlerart, ort : FehlerOrt]
  OBVIOUS
<1>2. Folgt(x, h)
  BY <1>1, FehlerGeht DEF setFehler
<1>3. k = [h EXCEPT !.exit = TRUE]
  BY DEF FehlerExit
<1> HIDE DEF h
<1>4. h \in Maschine
  BY <1>2, DatenTyp
<1>5. /\ k \in Maschine /\ k.exit = TRUE /\ k.d = h.d /\ k.aus = h.aus
      /\ k.zustand = h.zustand /\ k.bz = h.bz /\ k.warn = h.warn
  BY <1>3, <1>4 DEF Maschine
<1>6. /\ y.exit = TRUE /\ y.d = x.d /\ y.aus = x.aus
      /\ y.zustand = x.zustand /\ y.bz = x.bz /\ y.warn = x.warn
  BY DEF Maschine, Verlangt
<1> HIDE DEF k, y
<1>7. Folgt(y, k)
  BY <1>2, <1>5, <1>6 DEF Folgt, Gleich
<1> QED
  BY <1>7 DEF Region, k, y

\* Region LSA.
LEMMA LSAEntriesGehen ==
  ASSUME NEW x, NEW g, Folgt(x, g)
  PROVE  /\ Folgt(x, BeginnSortierprozessF1_entry(g))
         /\ Folgt(x, BeginnSortierprozessF2_entry(g))
         /\ Folgt(x, NaechsteWSErlaubt_entry(g))
         /\ Folgt(x, MotorSchnell(g)) /\ Folgt(x, MotorLangsam(g))
<1>1. /\ Folgt(x, [g EXCEPT !.lsa = "BeginnSortierprozessF1"])
      /\ Folgt(x, [g EXCEPT !.lsa = "BeginnSortierprozessF2"])
      /\ Folgt(x, [g EXCEPT !.lsa = "NaechsteWSErlaubt"])
  BY RegionenGehen DEF LSAZustand
<1>2. Folgt(x, MotorSchnell(g)) /\ Folgt(x, MotorLangsam(g))
  BY LeiseSignale, SendenGeht DEF MotorSchnell, MotorLangsam
<1> QED
  BY <1>1, <1>2, LeiseSignale, SendenGeht
     DEF BeginnSortierprozessF1_entry, BeginnSortierprozessF2_entry, NaechsteWSErlaubt_entry

LEMMA BeginnGeht ==
  ASSUME NEW x, NEW g, Folgt(x, g)
  PROVE  /\ Folgt(x, starte(g, "lsh"))
         /\ Folgt(x, addWS_F1(starte(g, "lsh"))) /\ Folgt(x, addWS_F2(starte(g, "lsh")))
         /\ Folgt(x, BeginnSortierprozessF1_entry(starte(g, "lsh")))
         /\ Folgt(x, BeginnSortierprozessF1_entry(addWS_F1(starte(g, "lsh"))))
         /\ Folgt(x, BeginnSortierprozessF2_entry(MotorSchnell(g)))
<1>1. Folgt(x, starte(g, "lsh"))
  BY StartenGeht DEF TimerNamen
<1>2. Folgt(x, addWS_F1(starte(g, "lsh"))) /\ Folgt(x, addWS_F2(starte(g, "lsh")))
  BY <1>1, AddWSGeht
<1>3. Folgt(x, MotorSchnell(g))
  BY LSAEntriesGehen
<1> QED
  BY <1>1, <1>2, <1>3, LSAEntriesGehen

LEMMA LSAGeht ==
  ASSUME NEW x, NEW g, Folgt(x, g)
  PROVE  /\ Folgt(x, WartenAufLSA_entry(g))
         /\ Folgt(x, WartenAufLSA_s_lsa1_ub(g))
         /\ Folgt(x, NaechsteWSErlaubt_s_lsa1_ub(g))
         /\ Folgt(x, WartenAufLSA_s_lse1_ub(g))
<1>1. Folgt(x, [g EXCEPT !.lsa = "WartenAufLSA"])
  BY RegionenGehen DEF LSAZustand
<1>2. gFesto1(g) => ~gFesto2(g)
  BY DEF gFesto1, gFesto2
<1> QED
  BY <1>1, <1>2, BeginnGeht
     DEF WartenAufLSA_entry, WartenAufLSA_s_lsa1_ub, NaechsteWSErlaubt_s_lsa1_ub,
         WartenAufLSA_s_lse1_ub

LEMMA LSA2Geht ==
  ASSUME NEW x, NEW g, Folgt(x, g)
  PROVE  /\ Folgt(x, WartenAufWSBeiLSA_s_lsa2_ub(g))
         /\ Folgt(x, BeginnSortierprozessF2_t_lse1_lsa2(g))
<1> DEFINE h == addWS_F2(starte(g, "lsh"))
           k == [g EXCEPT !.d.FehlerVerlorenBeiLAS2 = FALSE]
<1>1. Folgt(x, h) /\ Folgt(x, k)
  BY BeginnGeht, MerkerGehen
<1>2. WartenAufWSBeiLSA_s_lsa2_ub(g) =
        BeginnSortierprozessF2_entry(IF h.d.festo1Frei THEN senden(h, "S_FESTO1_STOPPEN") ELSE h)
  BY DEF WartenAufWSBeiLSA_s_lsa2_ub
<1>3. BeginnSortierprozessF2_t_lse1_lsa2(g) =
        IF g.d.FehlerVerlorenBeiLAS2
        THEN addWS_F2(BeginnSortierprozessF2_entry(starte(k, "lsh")))
        ELSE [g EXCEPT !.lsa = "WartenAufWSBeiLSA"]
  BY DEF BeginnSortierprozessF2_t_lse1_lsa2, WartenAufWSBeiLSA_entry
<1> HIDE DEF h, k
<1>4. Folgt(x, senden(h, "S_FESTO1_STOPPEN"))
  BY <1>1, LeiseSignale, SendenGeht
<1>5. /\ Folgt(x, BeginnSortierprozessF2_entry(senden(h, "S_FESTO1_STOPPEN")))
      /\ Folgt(x, BeginnSortierprozessF2_entry(h))
  BY <1>1, <1>4, LSAEntriesGehen
<1>6. Folgt(x, starte(k, "lsh"))
  BY <1>1, BeginnGeht
<1>7. Folgt(x, BeginnSortierprozessF2_entry(starte(k, "lsh")))
  BY <1>6, LSAEntriesGehen
<1>8. Folgt(x, addWS_F2(BeginnSortierprozessF2_entry(starte(k, "lsh"))))
  BY <1>7, AddWSGeht
<1>9. Folgt(x, [g EXCEPT !.lsa = "WartenAufWSBeiLSA"])
  BY RegionenGehen DEF LSAZustand
<1> QED
  BY <1>2, <1>3, <1>5, <1>8, <1>9

\* Region LSH.
LEMMA LSHGeht ==
  ASSUME NEW x, NEW g, Folgt(x, g)
  PROVE  /\ Folgt(x, WartenAufLSH_entry(g)) /\ Folgt(x, WartenAufWSBeiLSH_entry(g))
         /\ Folgt(x, WartenAufWSBeiLSH_s_lsh_ub(g))
         /\ Folgt(x, HoeheMessen_s_lsh_nub(g))
<1>1. /\ \A h : Folgt(x, h) => Folgt(x, WartenAufLSH_entry(h))
      /\ Folgt(x, WartenAufWSBeiLSH_entry(g))
  BY RegionenGehen DEF LSHZustand, WartenAufLSH_entry, WartenAufWSBeiLSH_entry
<1>2. ASSUME NEW h, Folgt(x, h) PROVE Folgt(x, HoeheMessen_entry(h))
  <2> DEFINE p == [h EXCEPT !.lsh = "HoeheMessen"]
             q == [p EXCEPT !.d.enteredHoheMessen = TRUE]
             r == [q EXCEPT !.d.motorSchnell = FALSE]
  <2>1. HoeheMessen_entry(h) = r
    BY DEF HoeheMessen_entry
  <2>2. Folgt(x, p)
    BY <1>2, RegionenGehen DEF LSHZustand
  <2> HIDE DEF p
  <2>3. Folgt(x, q)
    BY <2>2, MerkerGehen
  <2> HIDE DEF q
  <2>4. Folgt(x, r)
    BY <2>3, MerkerGehen
  <2> QED
    BY <2>1, <2>4
<1>3. Folgt(x, WartenAufWSBeiLSH_s_lsh_ub(g))
  <2>1. Folgt(x, MotorLangsam(g))
    BY LSAEntriesGehen
  <2>2. Folgt(x, starte(MotorLangsam(g), "lsw"))
    BY <2>1, StartenGeht DEF TimerNamen
  <2> QED
    BY <1>2, <2>2 DEF WartenAufWSBeiLSH_s_lsh_ub
<1>4. Folgt(x, HoeheMessen_s_lsh_nub(g))
  <2> DEFINE h == IF g.d.enteredWartenAufErlaubnisVonF2 THEN g ELSE MotorSchnell(g)
             p == [h EXCEPT !.d.motorSchnell = TRUE]
             q == [p EXCEPT !.d.enteredHoheMessen = FALSE]
  <2>1. HoeheMessen_s_lsh_nub(g) = WartenAufLSH_entry(q)
    BY DEF HoeheMessen_s_lsh_nub
  <2>2. Folgt(x, h)
    BY LSAEntriesGehen
  <2> HIDE DEF h
  <2>3. Folgt(x, p)
    BY <2>2, MerkerGehen
  <2> HIDE DEF p
  <2>4. Folgt(x, q)
    BY <2>3, MerkerGehen
  <2> HIDE DEF q
  <2> QED
    BY <1>1, <2>1, <2>4
<1> QED
  BY <1>1, <1>3, <1>4

\* Region LSHbisLSW.
LEMMA LSWEntriesGehen ==
  ASSUME NEW x, NEW g, Folgt(x, g)
  PROVE  Folgt(x, WartenAufLSW_entry(g)) /\ Folgt(x, WartenAufWSBeiLSW_entry(g))
<1> DEFINE h == [g EXCEPT !.lsw = "WartenAufLSW"]
<1>1. Folgt(x, h) /\ Folgt(x, WartenAufWSBeiLSW_entry(g))
  BY RegionenGehen DEF LSWZustand, WartenAufWSBeiLSW_entry
<1>2. WartenAufLSW_entry(g) = [h EXCEPT !.d.enteredAussortieren = FALSE]
  BY DEF WartenAufLSW_entry
<1> HIDE DEF h
<1>3. Folgt(x, [h EXCEPT !.d.enteredAussortieren = FALSE])
  BY <1>1, MerkerGehen
<1> QED
  BY <1>1, <1>2, <1>3

LEMMA DurchlaufGeht ==
  ASSUME NEW x, NEW g, Folgt(x, g), ~ListeLeer(g)
  PROVE  Folgt(x, WSDurchlauf_entry(g))
<1> DEFINE aussortiert == Vorn(g).aussortieren
           typ == IF aussortiert /\ gFesto1(g) THEN "UNBEKANNT" ELSE Vorn(g).typ
           unterwegs == starte(wsTypSenden(g, typ), "lse")
           gezaehlt == IF gFesto2(g) \/ ~aussortiert THEN advanceOrder(unterwegs) ELSE unterwegs
<1>1. typ \in WerkstueckTyp
  BY VornTyp DEF Werkstueck, WerkstueckTyp
<1>2. WSDurchlauf_entry(g) =
        WartenAufLSW_entry(werkstueckVerlaesstAnlage(senden(gezaehlt, "CMD_DURCHLASSEN")))
  BY DEF WSDurchlauf_entry
<1> HIDE DEF typ
<1>3. Folgt(x, wsTypSenden(g, typ))
  BY <1>1, TypSendenGeht
<1>4. Folgt(x, unterwegs)
  BY <1>3, StartenGeht DEF TimerNamen
<1> HIDE DEF unterwegs
<1>5. Folgt(x, gezaehlt)
  BY <1>4, AdvanceGeht
<1> HIDE DEF gezaehlt
<1>6. Folgt(x, senden(gezaehlt, "CMD_DURCHLASSEN"))
  BY <1>5, LeiseSignale, SendenGeht
<1>7. Folgt(x, werkstueckVerlaesstAnlage(senden(gezaehlt, "CMD_DURCHLASSEN")))
  BY <1>6, VerlaesstGeht
<1> QED
  BY <1>2, <1>7, LSWEntriesGehen

LEMMA AussortierenGeht ==
  ASSUME NEW x, NEW g, Folgt(x, g)
  PROVE  Folgt(x, WSAussortieren_entry(g))
<1> DEFINE h == werkstueckVerlaesstAnlage(senden(g, "CMD_AUSSORTIEREN"))
           q == h.d.erwarteteTypenQueue
           ohne == [h EXCEPT !.d.erwarteteTypenQueue = Tail(q)]
           gemeldet == CASE gFesto1(g) \/ q = <<>> -> h
                         [] Head(q) # "UNBEKANNT"  -> senden(h, "WERKSTUECK_ANDERS")
                         [] OTHER -> [h EXCEPT !.d.erwarteteTypenQueue = Tail(q)]
           k == starte(gemeldet, "lsr")
           l == [k EXCEPT !.lsw = "WSAussortieren"]
<1>1. WSAussortieren_entry(g) = [l EXCEPT !.d.enteredAussortieren = TRUE]
  BY DEF WSAussortieren_entry
<1>2. Folgt(x, senden(g, "CMD_AUSSORTIEREN"))
  BY LeiseSignale, SendenGeht
<1>3. Folgt(x, h)
  BY <1>2, VerlaesstGeht
<1> HIDE DEF h
<1>4. Folgt(x, senden(h, "WERKSTUECK_ANDERS")) /\ (q # <<>> => Folgt(x, ohne))
  BY <1>3, LeiseSignale, SendenGeht, QueueGeht
<1>5. gemeldet \in {h, senden(h, "WERKSTUECK_ANDERS")} \/ (q # <<>> /\ gemeldet = ohne)
  OBVIOUS
<1> HIDE DEF gemeldet, ohne, q
<1>6. Folgt(x, gemeldet)
  BY <1>3, <1>4, <1>5
<1>7. Folgt(x, k)
  BY <1>6, StartenGeht DEF TimerNamen
<1> HIDE DEF k
<1>8. Folgt(x, l)
  BY <1>7, RegionenGehen DEF LSWZustand
<1> HIDE DEF l
<1>9. Folgt(x, [l EXCEPT !.d.enteredAussortieren = TRUE])
  BY <1>8, MerkerGehen
<1> QED
  BY <1>1, <1>9

LEMMA LSWGeht ==
  ASSUME NEW x \in Maschine, NEW g, Folgt(x, g)
  PROVE  /\ Region(x, WartenAufWSBeiLSW_s_lsw_ub(g))
         /\ Region(x, WSAussortieren_s_lsr_ub(g))
<1> DEFINE h == ueberpruefeReihenfolge(g)
<1>1. Folgt(x, h)
  BY UeberpruefeGeht
<1>2. Folgt(x, WSAussortieren_entry(h)) /\ (gLSWUBDurchlauf(h) => Folgt(x, WSDurchlauf_entry(h)))
  BY <1>1, DurchlaufGeht, AussortierenGeht DEF gLSWUBDurchlauf
<1>3. Region(x, FehlerExit(h, "rutscheVoll", "LSR"))
  BY <1>1, FehlerExitGeht DEF Fehlerart, FehlerOrt
<1>4. Region(x, WartenAufWSBeiLSW_s_lsw_ub(g))
  <2>1. WartenAufWSBeiLSW_s_lsw_ub(g) =
          CASE gLSWUBDurchlauf(h)          -> WSDurchlauf_entry(h)
            [] ~gLSWUBDurchlauf(h) /\ gLSWUBAussortieren(h) -> WSAussortieren_entry(h)
            [] ~gLSWUBDurchlauf(h) /\ ~gLSWUBAussortieren(h) /\ gLSWUBFehlerRutsche2Voll(h)
                                           -> FehlerExit(h, "rutscheVoll", "LSR")
            [] OTHER                       -> h
    BY DEF WartenAufWSBeiLSW_s_lsw_ub
  <2> HIDE DEF h
  <2>2. \/ WartenAufWSBeiLSW_s_lsw_ub(g) \in
             {WSAussortieren_entry(h), FehlerExit(h, "rutscheVoll", "LSR"), h}
        \/ gLSWUBDurchlauf(h) /\ WartenAufWSBeiLSW_s_lsw_ub(g) = WSDurchlauf_entry(h)
    BY <2>1
  <2> QED
    BY <1>1, <1>2, <1>3, <2>2 DEF Region
<1>5. Folgt(x, WSAussortieren_s_lsr_ub(g))
  <2>1. Folgt(x, loescheWS_F1(g)) /\ Folgt(x, loescheWS_F2(g))
    BY LoescheWSGeht
  <2> QED
    BY <2>1, LSWEntriesGehen DEF WSAussortieren_s_lsr_ub
<1> QED
  BY <1>4, <1>5 DEF Region

\* Region LSWbisLSE.
LEMMA LSEEntriesGehen ==
  ASSUME NEW x, NEW g, Folgt(x, g)
  PROVE  /\ Folgt(x, WartenAufLSE_entry(g)) /\ Folgt(x, WartenAufWSBeiLSE_entry(g))
         /\ Folgt(x, WartenAufErlaubnisVonF2_entry(g))
         /\ Folgt(x, WartenBisWSEntfernt_entry(g))
<1> DEFINE p == [g EXCEPT !.lse = "WartenAufErlaubnisVonF2"]
           q == [p EXCEPT !.d.enteredWartenAufErlaubnisVonF2 = TRUE]
           r == [g EXCEPT !.lse = "WartenBisWSEntfernt"]
           s == [r EXCEPT !.d.enteredWartenBisWSEntfernt = TRUE]
<1>1. /\ Folgt(x, p) /\ Folgt(x, r)
      /\ Folgt(x, WartenAufLSE_entry(g)) /\ Folgt(x, WartenAufWSBeiLSE_entry(g))
  BY RegionenGehen DEF LSEZustand, WartenAufLSE_entry, WartenAufWSBeiLSE_entry
<1>2. WartenAufErlaubnisVonF2_entry(g) = pausiere(senden(q, "CMD_MTR_STOP"), BandTimer)
  BY DEF WartenAufErlaubnisVonF2_entry
<1>3. WartenBisWSEntfernt_entry(g) =
        pausiere(senden(senden(s, "CMD_MTR_STOP"), "S_FESTO2_NBEREIT"), BandTimer)
  BY DEF WartenBisWSEntfernt_entry
<1> HIDE DEF p, r
<1>4. Folgt(x, q) /\ Folgt(x, s)
  BY <1>1, MerkerGehen
<1> HIDE DEF q, s
<1>5. Folgt(x, senden(q, "CMD_MTR_STOP")) /\ Folgt(x, senden(s, "CMD_MTR_STOP"))
  BY <1>4, LeiseSignale, SendenGeht
<1>6. Folgt(x, senden(senden(s, "CMD_MTR_STOP"), "S_FESTO2_NBEREIT"))
  BY <1>5, LeiseSignale, SendenGeht
<1>7. BandTimer \in SUBSET TimerNamen
  BY DEF BandTimer
<1>8. /\ Folgt(x, WartenAufErlaubnisVonF2_entry(g))
      /\ Folgt(x, WartenBisWSEntfernt_entry(g))
  BY <1>2, <1>3, <1>5, <1>6, <1>7, PausierenGeht
<1> QED
  BY <1>1, <1>8

LEMMA LSEExitsGehen ==
  ASSUME NEW x, NEW g, Folgt(x, g)
  PROVE  /\ Folgt(x, WartenAufErlaubnisVonF2_exit(g)) /\ Folgt(x, WartenBisWSEntfernt_exit(g))
         /\ Folgt(x, LSWbisLSE_verlassen(g))
<1> DEFINE b == IF g.d.enteredHoheMessen THEN MotorLangsam(g) ELSE MotorSchnell(g)
           h == starte(b, "lsa")
           k == [h EXCEPT !.d.enteredWartenAufErlaubnisVonF2 = FALSE]
<1>1. Folgt(x, b) /\ Folgt(x, MotorSchnell(g))
  BY LSAEntriesGehen
<1>2. WartenAufErlaubnisVonF2_exit(g) = fortsetzen(k, BandTimer)
  BY DEF WartenAufErlaubnisVonF2_exit
<1> HIDE DEF b
<1>3. Folgt(x, h)
  BY <1>1, StartenGeht DEF TimerNamen
<1> HIDE DEF h
<1>4. Folgt(x, k)
  BY <1>3, MerkerGehen
<1> HIDE DEF k
<1>5. BandTimer \in SUBSET TimerNamen
  BY DEF BandTimer
<1>6. Folgt(x, WartenAufErlaubnisVonF2_exit(g))
  BY <1>2, <1>4, <1>5, PausierenGeht
<1>7. Folgt(x, WartenBisWSEntfernt_exit(g))
  BY <1>1, MerkerGehen DEF WartenBisWSEntfernt_exit
<1> QED
  BY <1>6, <1>7 DEF LSWbisLSE_verlassen

LEMMA LSEGeht ==
  ASSUME NEW x \in Maschine, NEW g, Folgt(x, g)
  PROVE  /\ Region(x, WartenAufLSE_s_lse1_ub(g))
         /\ Region(x, WartenAufLSE_s_lse2_ub(g))
         /\ Region(x, WartenAufWSBeiLSE_s_lse1_ub(g))
         /\ Region(x, WartenAufWSBeiLSE_s_lse2_ub(g))
<1>1. Region(x, FehlerExit(g, "neuWS", "LSE1")) /\ Region(x, FehlerExit(g, "neuWS", "LSE2"))
  BY FehlerExitGeht DEF Fehlerart, FehlerOrt
<1> DEFINE a == starte(g, "lsa")
           b == loescheWS_F1(a)
           c == senden(b, "S_WS_AN_FESTO2")
<1>2. Folgt(x, a)
  BY StartenGeht DEF TimerNamen
<1> HIDE DEF a
<1>3. Folgt(x, b)
  BY <1>2, LoescheWSGeht
<1> HIDE DEF b
<1>4. Folgt(x, c)
  BY <1>3, LeiseSignale, SendenGeht
<1>5. WartenAufWSBeiLSE_s_lse1_ub(g) \in
        {WartenAufLSE_entry(c), WartenAufErlaubnisVonF2_entry(g), g}
  BY DEF WartenAufWSBeiLSE_s_lse1_ub, a, b
<1> HIDE DEF c
<1>6. Folgt(x, WartenAufWSBeiLSE_s_lse1_ub(g))
  BY <1>4, <1>5, LSEEntriesGehen
<1>7. Folgt(x, WartenAufWSBeiLSE_s_lse2_ub(g))
  BY LSEEntriesGehen DEF WartenAufWSBeiLSE_s_lse2_ub
<1> QED
  BY <1>1, <1>6, <1>7
     DEF Region, WartenAufLSE_s_lse1_ub, WartenAufLSE_s_lse2_ub

LEMMA UebergabeGeht ==
  ASSUME NEW x, NEW g, Folgt(x, g)
  PROVE  /\ Folgt(x, WartenAufErlaubnisVonF2_s_festo2_bereit(g))
         /\ Folgt(x, WartenBisWSEntfernt_s_lse2_nub(g))
<1>1. Folgt(x, loescheWS_F1(g)) /\ Folgt(x, loescheWS_F2(g))
  BY LoescheWSGeht
<1>2. Folgt(x, senden(loescheWS_F1(g), "S_WS_AN_FESTO2"))
  BY <1>1, LeiseSignale, SendenGeht
<1>3. Folgt(x, fortsetzen(loescheWS_F2(g), BandTimer))
  BY <1>1, PausierenGeht DEF BandTimer
<1>4. /\ Folgt(x, WartenAufErlaubnisVonF2_exit(senden(loescheWS_F1(g), "S_WS_AN_FESTO2")))
      /\ Folgt(x, WartenBisWSEntfernt_exit(fortsetzen(loescheWS_F2(g), BandTimer)))
  BY <1>2, <1>3, LSEExitsGehen
<1> QED
  BY <1>4, LSEEntriesGehen
     DEF WartenAufErlaubnisVonF2_s_festo2_bereit, WartenBisWSEntfernt_s_lse2_nub

-----------------------------------------------------------------------------
(***************************************************************************)
(* The steps that switch the lamp or leave a state: the data the other     *)
(* steps rely on stay.                                                     *)
(***************************************************************************)
Bleibt(x, g) ==
  /\ g \in Maschine /\ g.exit = x.exit
  /\ g.d.rutsche_voll = x.d.rutsche_voll /\ g.d.festo = x.d.festo
  /\ x.d.anzahlWS >= 0 => g.d.anzahlWS >= 0

LEMMA FolgtSelbst == ASSUME NEW g \in Maschine PROVE Folgt(g, g) /\ Bleibt(g, g)
  BY DEF Folgt, Gleich, Bleibt

LEMMA BleibtDanach ==
  ASSUME NEW x, NEW g, Bleibt(x, g), NEW h, Folgt(g, h)
  PROVE  Bleibt(x, h) /\ h.zustand = g.zustand /\ h.bz = g.bz /\ h.warn = g.warn
  BY DEF Bleibt, Folgt, Gleich

LEMMA LampeSenden ==
  ASSUME NEW g \in Maschine, NEW sig \in {"CMD_LED_AMP_GLB_B", "CMD_LED_AMP_GLB_AUS"}
  PROVE  LET h == senden(g, sig)
         IN  /\ h \in Maschine /\ h.d = g.d /\ h.zustand = g.zustand /\ h.bz = g.bz
             /\ h.warn = g.warn /\ h.exit = g.exit
             /\ \A v \in BOOLEAN : Gelb(v, h.aus) <=> sig = "CMD_LED_AMP_GLB_B"
<1> DEFINE m == [sig |-> sig, wert |-> "-"]
           h == senden(g, sig)
<1>1. m \in Gesendet /\ m.sig = sig
  BY DEF Gesendet, Puls, Signale, BefehlSignale, RutscheSignale
<1>2. g.aus \in Seq(Gesendet)
  BY DEF Maschine
<1>3. h = [g EXCEPT !.aus = Append(g.aus, m)]
  BY DEF senden, sendenMit
<1> HIDE DEF m, h
<1>4. Append(g.aus, m) \in Seq(Gesendet)
  BY <1>1, <1>2
<1>5. \A v \in BOOLEAN : Gelb(v, Append(g.aus, m)) <=> sig = "CMD_LED_AMP_GLB_B"
  BY <1>1, <1>2, AppendGelb
<1>6. /\ h \in Maschine /\ h.d = g.d /\ h.zustand = g.zustand /\ h.bz = g.bz
      /\ h.warn = g.warn /\ h.exit = g.exit /\ h.aus = Append(g.aus, m)
  BY <1>3, <1>4 DEF Maschine
<1>7. \A v \in BOOLEAN : Gelb(v, h.aus) <=> sig = "CMD_LED_AMP_GLB_B"
  BY <1>5, <1>6
<1> QED
  BY <1>6, <1>7 DEF h

LEMMA SendenBleibt ==
  ASSUME NEW x, NEW g, Bleibt(x, g),
         NEW sig \in Leise \cup {"CMD_LED_AMP_GLB_B", "CMD_LED_AMP_GLB_AUS"}
  PROVE  /\ Bleibt(x, senden(g, sig)) /\ senden(g, sig).zustand = g.zustand
         /\ senden(g, sig).bz = g.bz /\ senden(g, sig).warn = g.warn
<1>1. g \in Maschine
  BY DEF Bleibt
<1>2. CASE sig \in Leise
  BY <1>1, <1>2, FolgtSelbst, SendenGeht, BleibtDanach
<1>3. CASE sig \in {"CMD_LED_AMP_GLB_B", "CMD_LED_AMP_GLB_AUS"}
  BY <1>1, <1>3, LampeSenden DEF Bleibt
<1> QED
  BY <1>2, <1>3

LEMMA VerlassenBleibt ==
  ASSUME NEW x, NEW g, Bleibt(x, g)
  PROVE  /\ Bleibt(x, SortierungVerlassen(g)) /\ SortierungVerlassen(g).zustand = g.zustand
         /\ SortierungVerlassen(g).bz = g.bz
         /\ Bleibt(x, BetriebVerlassen(g)) /\ BetriebVerlassen(g).zustand = g.zustand
<1> DEFINE h == LSWbisLSE_verlassen(g)
           k == SortierungVerlassen(g)
<1>1. g \in Maschine
  BY DEF Bleibt
<1>2. Folgt(g, h)
  BY <1>1, FolgtSelbst, LSEExitsGehen
<1>3. Bleibt(x, h) /\ h.zustand = g.zustand /\ h.bz = g.bz
  BY <1>2, BleibtDanach
<1>4. k \in {h, senden(h, "CMD_LED_AMP_GLB_AUS")}
  BY DEF SortierungVerlassen, Warnung_verlassen, WarnsignalAktivieren_exit
<1> HIDE DEF h, k
<1>5. Bleibt(x, k) /\ k.zustand = g.zustand /\ k.bz = g.bz
  BY <1>3, <1>4, SendenBleibt
<1>6. /\ Bleibt(x, senden(k, "CMD_MTR_STOP")) /\ senden(k, "CMD_MTR_STOP").zustand = g.zustand
      /\ Bleibt(x, senden(g, "CMD_MTR_STOP")) /\ senden(g, "CMD_MTR_STOP").zustand = g.zustand
  BY <1>5, LeiseSignale, SendenBleibt
<1>7. BetriebVerlassen(g) \in {senden(k, "CMD_MTR_STOP"), senden(g, "CMD_MTR_STOP")}
  BY DEF BetriebVerlassen, k
<1> QED
  BY <1>5, <1>6, <1>7 DEF k

LEMMA PausierenBleibt ==
  ASSUME NEW x, NEW g, Bleibt(x, g)
  PROVE  Bleibt(x, pausiere(g, TimerNamen)) /\ pausiere(g, TimerNamen).zustand = g.zustand
<1>1. g \in Maschine
  BY DEF Bleibt
<1>2. Folgt(g, pausiere(g, TimerNamen))
  BY <1>1, FolgtSelbst, PausierenGeht
<1> QED
  BY <1>2, BleibtDanach

\* Betriebszustand is left, for Fehlerbehandlung or EStop.
LEMMA BetriebszustandExitBleibt ==
  ASSUME NEW x \in Maschine, NEW g, Bleibt(Verlangt(x), g)
  PROVE  LET h == BetriebszustandExit(g)
         IN  /\ h \in Maschine /\ ~h.exit /\ h.zustand = "Fehlerbehandlung"
             /\ h.d.rutsche_voll = x.d.rutsche_voll /\ h.d.festo = x.d.festo
             /\ x.d.anzahlWS >= 0 => h.d.anzahlWS >= 0
<1> DEFINE y == Verlangt(x)
           p == pausiere(g, TimerNamen)
           q == senden(p, "S_PARTNER_FEHLER")
           r == BetriebVerlassen(q)
           s == senden(r, "CMD_MTR_STOP")
           h == BetriebszustandExit(g)
<1>1. y.exit = TRUE /\ y.d = x.d
  BY DEF Verlangt, Maschine
<1>2. g.exit = TRUE
  BY <1>1 DEF Bleibt
<1>3. h = [s EXCEPT !.zustand = "Fehlerbehandlung", !.exit = FALSE]
  BY <1>2 DEF BetriebszustandExit
<1> HIDE DEF y
<1>4. Bleibt(y, p)
  BY PausierenBleibt DEF y
<1> HIDE DEF p
<1>5. Bleibt(y, q)
  BY <1>4, LeiseSignale, SendenBleibt
<1> HIDE DEF q
<1>6. Bleibt(y, r)
  BY <1>5, VerlassenBleibt
<1> HIDE DEF r
<1>7. Bleibt(y, s)
  BY <1>6, LeiseSignale, SendenBleibt
<1> HIDE DEF s
<1>8. s \in Maschine
  BY <1>7 DEF Bleibt
<1>9. h \in Maschine /\ ~h.exit /\ h.zustand = "Fehlerbehandlung" /\ h.d = s.d
  BY <1>3, <1>8 DEF Maschine
<1> HIDE DEF h
<1> QED
  BY <1>1, <1>7, <1>9 DEF Bleibt, h

LEMMA PartnerFehlerBleibt ==
  ASSUME NEW x \in Maschine
  PROVE  Bleibt(x, s_partner_fehler(x)) /\ s_partner_fehler(x).zustand = "Fehlerbehandlung"
<1> DEFINE p == senden(x, "S_PARTNER_FEHLER")
           q == pausiere(p, TimerNamen)
           r == BetriebVerlassen(q)
           s == senden(r, "CMD_MTR_STOP")
           h == s_partner_fehler(x)
<1>1. h = [s EXCEPT !.zustand = "Fehlerbehandlung"]
  BY DEF s_partner_fehler
<1>2. Bleibt(x, p)
  BY FolgtSelbst, LeiseSignale, SendenBleibt
<1> HIDE DEF p
<1>3. Bleibt(x, q)
  BY <1>2, PausierenBleibt
<1> HIDE DEF q
<1>4. Bleibt(x, r)
  BY <1>3, VerlassenBleibt
<1> HIDE DEF r
<1>5. Bleibt(x, s)
  BY <1>4, LeiseSignale, SendenBleibt
<1> HIDE DEF s
<1>6. s \in Maschine
  BY <1>5 DEF Bleibt
<1>7. h \in Maschine /\ h.exit = s.exit /\ h.zustand = "Fehlerbehandlung" /\ h.d = s.d
  BY <1>1, <1>6 DEF Maschine
<1> HIDE DEF h
<1> QED
  BY <1>5, <1>7 DEF Bleibt, h

LEMMA EStopBleibt ==
  ASSUME NEW x \in Maschine
  PROVE  Bleibt(x, EStopBetreten(x)) /\ EStopBetreten(x).zustand = "EStop"
<1> DEFINE v == IF x.zustand = "Betriebszustand" THEN BetriebVerlassen(x) ELSE x
           p == senden(v, "CMD_MTR_STOP")
           q == senden(p, "CMD_WCH_AUS")
           r == senden(q, "CMD_LED_AMP_GLB_B")
           s == senden(r, "CMD_LED_Q1_AUS")
           h == EStopBetreten(x)
<1>1. h = [s EXCEPT !.zustand = "EStop"]
  BY DEF EStopBetreten
<1>2. Bleibt(x, v)
  BY FolgtSelbst, VerlassenBleibt
<1> HIDE DEF v
<1>3. Bleibt(x, p)
  BY <1>2, LeiseSignale, SendenBleibt
<1> HIDE DEF p
<1>4. Bleibt(x, q)
  BY <1>3, LeiseSignale, SendenBleibt
<1> HIDE DEF q
<1>5. Bleibt(x, r)
  BY <1>4, SendenBleibt
<1> HIDE DEF r
<1>6. Bleibt(x, s)
  BY <1>5, LeiseSignale, SendenBleibt
<1> HIDE DEF s
<1>7. s \in Maschine
  BY <1>6 DEF Bleibt
<1>8. h \in Maschine /\ h.exit = s.exit /\ h.zustand = "EStop" /\ h.d = s.d
  BY <1>1, <1>7 DEF Maschine
<1> HIDE DEF h
<1> QED
  BY <1>6, <1>8 DEF Bleibt, h

-----------------------------------------------------------------------------
(***************************************************************************)
(* The lamp.                                                               *)
(***************************************************************************)
Stimmig(v, g) == LampeWieWarnung(v, g) /\ WarnungWieRutsche(g)

\* Region Warnung of h is entered out of g: the lamp is on if it warns, and it
\* warns if the slide is full.
Gewarnt(v, g, h) ==
  /\ h \in Maschine /\ h.d = g.d /\ h.zustand = g.zustand /\ h.bz = g.bz /\ h.exit = g.exit
  /\ Gelb(v, h.aus) <=> h.warn = "WarnsignalAktivieren"
  /\ h.warn = "WarnsignalAktivieren" <=> g.d.rutsche_voll

LEMMA WarnungEntry ==
  ASSUME NEW v \in BOOLEAN, NEW g \in Maschine
  PROVE  /\ Gewarnt(v, g, WarnsignalAktivieren_entry(g))
         /\ ~Gelb(v, g.aus) => Gewarnt(v, g, WartenAufWarnung_entry(g))
<1> DEFINE h == senden(g, "CMD_LED_AMP_GLB_B")
           k == senden(h, "CMD_LED_AMP_GLB_AUS")
           p == [h EXCEPT !.warn = "WarnsignalAktivieren"]
           q == [k EXCEPT !.warn = "WartenAufWarnung"]
           r == [g EXCEPT !.warn = "WartenAufWarnung"]
<1>1. WarnsignalAktivieren_entry(g) = IF g.d.rutsche_voll THEN p ELSE q
  BY DEF WarnsignalAktivieren_entry, WarnsignalAktivieren_exit
<1>2. /\ h \in Maschine /\ h.d = g.d /\ h.zustand = g.zustand /\ h.bz = g.bz /\ h.exit = g.exit
      /\ Gelb(v, h.aus)
  BY LampeSenden
<1> HIDE DEF h
<1>3. /\ k \in Maschine /\ k.d = g.d /\ k.zustand = g.zustand /\ k.bz = g.bz /\ k.exit = g.exit
      /\ ~Gelb(v, k.aus)
  BY <1>2, LampeSenden
<1> HIDE DEF k
<1>4. g.d.rutsche_voll => Gewarnt(v, g, p)
  BY <1>2 DEF Gewarnt, Maschine, WarnZustand
<1>5. ~g.d.rutsche_voll => Gewarnt(v, g, q)
  BY <1>3 DEF Gewarnt, Maschine, WarnZustand
<1>6. ~g.d.rutsche_voll /\ ~Gelb(v, g.aus) => Gewarnt(v, g, r)
  BY DEF Gewarnt, Maschine, WarnZustand
<1>7. Gewarnt(v, g, WarnsignalAktivieren_entry(g))
  BY <1>1, <1>4, <1>5
<1> QED
  BY <1>6, <1>7 DEF WartenAufWarnung_entry

LEMMA GewarntStimmig ==
  ASSUME NEW v \in BOOLEAN, NEW g, NEW h, Gewarnt(v, g, h),
         g.zustand = "Betriebszustand" => g.bz = "Sortierung"
  PROVE  h \in Maschine /\ Stimmig(v, h) /\ h.exit = g.exit /\ h.d = g.d /\ h.zustand = g.zustand
  BY DEF Gewarnt, Stimmig, LampeWieWarnung, WarnungWieRutsche

LEMMA SortierungBetretenStimmig ==
  ASSUME NEW v \in BOOLEAN, NEW g \in Maschine, g.zustand = "Betriebszustand",
         g.bz = "AufWSWarten", LampeWieWarnung(v, g)
  PROVE  Bleibt(g, SortierungBetreten(g)) /\ Stimmig(v, SortierungBetreten(g))
<1> DEFINE x == [g EXCEPT !.bz = "Sortierung"]
           p == Sortierung_entry(x)
           q == WartenAufLSA_entry(p)
           r == WartenAufLSH_entry(q)
           s == WartenAufLSW_entry(r)
           t == WartenAufLSE_entry(s)
           k == SortierungBetreten(g)
<1>1. k = WartenAufWarnung_entry(t)
  BY DEF SortierungBetreten
<1>2. /\ x \in Maschine /\ x.d = g.d /\ x.zustand = g.zustand /\ x.bz = "Sortierung"
      /\ x.exit = g.exit /\ x.aus = g.aus
  BY DEF Maschine
<1> HIDE DEF x
<1>3. Folgt(x, p)
  BY <1>2, FolgtSelbst, LSAEntriesGehen DEF Sortierung_entry
<1> HIDE DEF p
<1>4. Folgt(x, q)
  BY <1>3, LSAGeht
<1> HIDE DEF q
<1>5. Folgt(x, r)
  BY <1>4, LSHGeht
<1> HIDE DEF r
<1>6. Folgt(x, s)
  BY <1>5, LSWEntriesGehen
<1> HIDE DEF s
<1>7. Folgt(x, t)
  BY <1>6, LSEEntriesGehen
<1> HIDE DEF t, k
<1>8. ~Gelb(v, g.aus)
  BY DEF LampeWieWarnung
<1>9. /\ t \in Maschine /\ ~Gelb(v, t.aus) /\ t.bz = "Sortierung" /\ t.exit = g.exit
      /\ t.d.rutsche_voll = g.d.rutsche_voll /\ t.d.festo = g.d.festo
      /\ g.d.anzahlWS >= 0 => t.d.anzahlWS >= 0
  BY <1>2, <1>7, <1>8 DEF Folgt, Gleich
<1>10. Gewarnt(v, t, k)
  BY <1>1, <1>9, WarnungEntry
<1>11. k \in Maschine /\ Stimmig(v, k) /\ k.exit = t.exit /\ k.d = t.d
  BY <1>9, <1>10, GewarntStimmig
<1> QED
  BY <1>9, <1>11 DEF Bleibt, k

LEMMA AufWSWartenEntry ==
  ASSUME NEW v \in BOOLEAN, NEW g \in Maschine, ~Gelb(v, g.aus)
  PROVE  LET k == AufWSWarten_entry(g)
         IN  Bleibt(g, k) /\ Stimmig(v, k) /\ k.zustand = g.zustand
<1> DEFINE x == [g EXCEPT !.bz = "AufWSWarten"]
           h == senden(x, "CMD_MTR_STOP")
           k == AufWSWarten_entry(g)
<1>1. k = senden(h, "CMD_LED_Q1_AN")
  BY DEF AufWSWarten_entry
<1>2. /\ x \in Maschine /\ x.d = g.d /\ x.zustand = g.zustand /\ x.bz = "AufWSWarten"
      /\ x.exit = g.exit /\ x.aus = g.aus
  BY DEF Maschine
<1> HIDE DEF x, k
<1>3. Folgt(x, h)
  BY <1>2, FolgtSelbst, LeiseSignale, SendenGeht
<1> HIDE DEF h
<1>4. Folgt(x, k)
  BY <1>1, <1>3, LeiseSignale, SendenGeht
<1>5. /\ k \in Maschine /\ ~Gelb(v, k.aus) /\ k.bz = "AufWSWarten" /\ k.zustand = g.zustand
      /\ k.exit = g.exit /\ k.d.rutsche_voll = g.d.rutsche_voll /\ k.d.festo = g.d.festo
      /\ g.d.anzahlWS >= 0 => k.d.anzahlWS >= 0
  BY <1>2, <1>4 DEF Folgt, Gleich
<1> QED
  BY <1>5 DEF Bleibt, Stimmig, LampeWieWarnung, WarnungWieRutsche, k

LEMMA AufWSWartenBetretenStimmig ==
  ASSUME NEW v \in BOOLEAN, NEW g \in Maschine, g.zustand = "Betriebszustand",
         g.bz = "Sortierung", LampeWieWarnung(v, g)
  PROVE  Bleibt(g, AufWSWartenBetreten(g)) /\ Stimmig(v, AufWSWartenBetreten(g))
<1> DEFINE h == LSWbisLSE_verlassen(g)
           s == SortierungVerlassen(g)
           k == AufWSWartenBetreten(g)
<1>1. Folgt(g, h)
  BY FolgtSelbst, LSEExitsGehen
<1>2. Bleibt(g, s) /\ s = Warnung_verlassen(h)
  BY FolgtSelbst, VerlassenBleibt DEF SortierungVerlassen
<1>3. k = AufWSWarten_entry(s)
  BY DEF AufWSWartenBetreten
<1> HIDE DEF h, s, k
<1>4. h \in Maschine /\ h.warn = g.warn /\ (Gelb(v, h.aus) <=> g.warn = "WarnsignalAktivieren")
  BY <1>1 DEF Folgt, Gleich, LampeWieWarnung
<1>5. ~Gelb(v, s.aus)
  BY <1>2, <1>4, LampeSenden DEF Warnung_verlassen, WarnsignalAktivieren_exit
<1>6. s \in Maschine
  BY <1>2 DEF Bleibt
<1>7. Bleibt(s, k) /\ Stimmig(v, k)
  BY <1>3, <1>5, <1>6, AufWSWartenEntry
<1> QED
  BY <1>2, <1>7 DEF Bleibt, k

LEMMA NeubeginnStimmig ==
  ASSUME NEW v \in BOOLEAN, NEW g \in Maschine
  PROVE  LET k == Neubeginn(g)
         IN  /\ k \in Maschine /\ k.exit = g.exit /\ Stimmig(v, k)
             /\ k.d.rutsche_voll = g.d.rutsche_voll /\ k.d.festo = g.d.festo
             /\ k.d.anzahlWS >= 0
<1> DEFINE p == datenprozessLoeschen(g)
           q == senden(p, "CMD_LED_AMP_GLB_AUS")
           r == [q EXCEPT !.zustand = "Betriebszustand"]
           k == Neubeginn(g)
<1>1. k = AufWSWarten_entry(r)
  BY DEF Neubeginn
<1>2. /\ p \in Maschine /\ p.exit = g.exit /\ p.d.festo = g.d.festo /\ p.d.anzahlWS = 0
      /\ p.d.rutsche_voll = g.d.rutsche_voll
  BY LoeschenTyp
<1> HIDE DEF p
<1>3. q \in Maschine /\ q.d = p.d /\ q.exit = p.exit /\ ~Gelb(v, q.aus)
  BY <1>2, LampeSenden
<1> HIDE DEF q
<1>4. r \in Maschine /\ r.d = p.d /\ r.exit = p.exit /\ r.aus = q.aus
  BY <1>3 DEF Maschine
<1> HIDE DEF r, k
<1>5. Bleibt(r, k) /\ Stimmig(v, k)
  BY <1>1, <1>3, <1>4, AufWSWartenEntry
<1> QED
  BY <1>2, <1>4, <1>5 DEF Bleibt, k

-----------------------------------------------------------------------------
(***************************************************************************)
(* The handlers of Sortierung.                                             *)
(***************************************************************************)
\* k is what a handler leaves when its regions have gone on from x.
Gesammelt(x, k) == \E h : k = RegionenFertig(h) /\ Region(x, h)

LEMMA LSAHandler ==
  ASSUME NEW g \in Maschine
  PROVE  Gesammelt(g, s_lsa1_ub(g)) /\ Gesammelt(g, s_lsa2_ub(g)) /\ Gesammelt(g, t_lse1_lsa2(g))
         /\ Gesammelt(g, t_toleranzzeit_lsa(g))
<1>1. Folgt(g, g)
  BY FolgtSelbst
<1>2. /\ Region(g, FehlerExit(g, "neuWS", "LSA1")) /\ Region(g, FehlerExit(g, "neuWS", "LSA"))
      /\ Region(g, FehlerExit(g, "verlorenWS", "LSA2"))
  BY <1>1, FehlerExitGeht DEF Fehlerart, FehlerOrt
<1>3. /\ Region(g, WartenAufLSA_s_lsa1_ub(g)) /\ Region(g, NaechsteWSErlaubt_s_lsa1_ub(g))
      /\ Region(g, WartenAufWSBeiLSA_s_lsa2_ub(g))
      /\ Region(g, BeginnSortierprozessF2_t_lse1_lsa2(g)) /\ Region(g, g)
  BY <1>1, LSAGeht, LSA2Geht DEF Region
<1>4. Gesammelt(g, s_lsa1_ub(g))
  BY <1>2, <1>3 DEF Gesammelt, s_lsa1_ub, BeginnSortierprozessF1_s_lsa1_ub
<1>5. Gesammelt(g, s_lsa2_ub(g))
  BY <1>2, <1>3
     DEF Gesammelt, s_lsa2_ub, WartenAufLSA_s_lsa2_ub, BeginnSortierprozessF2_s_lsa2_ub
<1>6. Gesammelt(g, t_lse1_lsa2(g)) /\ Gesammelt(g, t_toleranzzeit_lsa(g))
  BY <1>2, <1>3
     DEF Gesammelt, t_lse1_lsa2, t_toleranzzeit_lsa, WartenAufWSBeiLSA_t_toleranzzeit_lsa
<1> QED
  BY <1>4, <1>5, <1>6

LEMMA LSHHandler ==
  ASSUME NEW g \in Maschine
  PROVE  Gesammelt(g, s_lsh_ub(g)) /\ Gesammelt(g, s_lsh_nub(g)) /\ Gesammelt(g, t_lsa_lsh(g))
         /\ Gesammelt(g, t_toleranzzeit_lsh(g))
<1>1. Folgt(g, g) /\ Folgt(g, MotorLangsam(g))
  BY FolgtSelbst, LSAEntriesGehen
<1>2. /\ Region(g, FehlerExit(g, "neuWS", "LSH"))
      /\ Region(g, FehlerExit(MotorLangsam(g), "neuWS", "LSH"))
      /\ Region(g, FehlerExit(g, "verlorenWS", "LSH"))
  BY <1>1, FehlerExitGeht DEF Fehlerart, FehlerOrt
<1>3. /\ Region(g, WartenAufWSBeiLSH_s_lsh_ub(g)) /\ Region(g, HoeheMessen_s_lsh_nub(g))
      /\ Region(g, g)
  BY <1>1, LSHGeht DEF Region
<1>4. Region(g, WartenAufLSH_s_lsh_ub(g)) /\ Region(g, WartenAufWSBeiLSH_t_toleranzzeit_lsh(g))
  BY <1>2 DEF WartenAufLSH_s_lsh_ub, WartenAufWSBeiLSH_t_toleranzzeit_lsh
<1>5. Gesammelt(g, s_lsh_ub(g))
  BY <1>3, <1>4 DEF Gesammelt, s_lsh_ub
<1>6. Gesammelt(g, s_lsh_nub(g)) /\ Gesammelt(g, t_toleranzzeit_lsh(g))
  BY <1>3, <1>4 DEF Gesammelt, s_lsh_nub, t_toleranzzeit_lsh
<1>7. Gesammelt(g, t_lsa_lsh(g))
  <2> DEFINE h == IF g.lsa = "BeginnSortierprozessF1" THEN NaechsteWSErlaubt_entry(g) ELSE g
  <2>1. Folgt(g, h)
    BY <1>1, LSAEntriesGehen
  <2>2. t_lsa_lsh(g) =
          RegionenFertig(IF h.lsh = "WartenAufLSH" THEN WartenAufWSBeiLSH_entry(h) ELSE h)
    BY DEF t_lsa_lsh
  <2> HIDE DEF h
  <2>3. Folgt(g, WartenAufWSBeiLSH_entry(h))
    BY <2>1, LSHGeht
  <2> QED
    BY <2>1, <2>2, <2>3 DEF Gesammelt, Region
<1> QED
  BY <1>5, <1>6, <1>7

LEMMA LSWHandler ==
  ASSUME NEW g \in Maschine
  PROVE  Gesammelt(g, s_lsw_ub(g)) /\ Gesammelt(g, s_lsr_ub(g)) /\ Gesammelt(g, t_lsh_lsw(g))
         /\ Gesammelt(g, t_lsw_lsr(g)) /\ Gesammelt(g, t_toleranzzeit_lsw(g))
<1>1. Folgt(g, g)
  BY FolgtSelbst
<1>2. /\ Region(g, FehlerExit(g, "neuWS", "LSH_BIS_LSW"))
      /\ Region(g, FehlerExit(g, "verlorenWS", "LSW"))
      /\ Region(g, FehlerExit(g, "verlorenWS", "LSR"))
  BY <1>1, FehlerExitGeht DEF Fehlerart, FehlerOrt
<1>3. Region(g, g) /\ Region(g, WartenAufWSBeiLSW_entry(g))
  BY <1>1, LSWEntriesGehen DEF Region
<1>4. Region(g, WartenAufWSBeiLSW_s_lsw_ub(g)) /\ Region(g, WSAussortieren_s_lsr_ub(g))
  BY <1>1, LSWGeht
<1>5. Gesammelt(g, s_lsw_ub(g))
  BY <1>2, <1>3, <1>4 DEF Gesammelt, s_lsw_ub, WartenAufLSW_s_lsw_ub
<1>6. Gesammelt(g, s_lsr_ub(g)) /\ Gesammelt(g, t_lsh_lsw(g))
  BY <1>3, <1>4 DEF Gesammelt, s_lsr_ub, t_lsh_lsw
<1>7. Gesammelt(g, t_lsw_lsr(g)) /\ Gesammelt(g, t_toleranzzeit_lsw(g))
  BY <1>2, <1>3
     DEF Gesammelt, t_lsw_lsr, t_toleranzzeit_lsw, WSAussortieren_t_lsw_lsr,
         WartenAufWSBeiLSW_t_toleranzzeit_lsw
<1> QED
  BY <1>5, <1>6, <1>7

LEMMA LSEHandler ==
  ASSUME NEW g \in Maschine
  PROVE  /\ Gesammelt(g, s_lse1_ub(g)) /\ Gesammelt(g, s_lse2_ub(g)) /\ Gesammelt(g, s_lse2_nub(g))
         /\ Gesammelt(g, s_festo2_bereit(g)) /\ Gesammelt(g, s_festo2_nbereit(g))
         /\ Gesammelt(g, s_uebergabe_ws(g))
         /\ Gesammelt(g, t_lsw_lse(g)) /\ Gesammelt(g, t_toleranzzeit_lse(g))
<1>1. Folgt(g, g)
  BY FolgtSelbst
<1>2. Region(g, FehlerExit(g, "verlorenWS", "LSE1"))
  BY <1>1, FehlerExitGeht DEF Fehlerart, FehlerOrt
<1>3. /\ Region(g, g) /\ Region(g, WartenAufWSBeiLSE_entry(g))
      /\ Region(g, WartenAufErlaubnisVonF2_s_festo2_bereit(g))
      /\ Region(g, WartenBisWSEntfernt_s_lse2_nub(g))
  BY <1>1, LSEEntriesGehen, UebergabeGeht DEF Region
<1>4. Gesammelt(g, s_lse1_ub(g))
  <2> DEFINE h == IF g.lsa = "WartenAufLSA" THEN WartenAufLSA_s_lse1_ub(g) ELSE g
             k == CASE h.lse = "WartenAufLSE"       -> WartenAufLSE_s_lse1_ub(h)
                    [] h.lse = "WartenAufWSBeiLSE"  -> WartenAufWSBeiLSE_s_lse1_ub(h)
                    [] OTHER                        -> h
  <2>1. Folgt(g, h)
    BY <1>1, LSAGeht
  <2>2. s_lse1_ub(g) = RegionenFertig(k)
    BY DEF s_lse1_ub
  <2> HIDE DEF h
  <2>3. Region(g, WartenAufLSE_s_lse1_ub(h)) /\ Region(g, WartenAufWSBeiLSE_s_lse1_ub(h))
    BY <2>1, LSEGeht
  <2>4. Region(g, k)
    BY <2>1, <2>3 DEF Region
  <2> QED
    BY <2>2, <2>4 DEF Gesammelt
<1>5. Gesammelt(g, s_lse2_ub(g))
  <2>1. Region(g, WartenAufLSE_s_lse2_ub(g)) /\ Region(g, WartenAufWSBeiLSE_s_lse2_ub(g))
    BY <1>1, LSEGeht
  <2> QED
    BY <1>3, <2>1 DEF Gesammelt, s_lse2_ub
<1>6. Gesammelt(g, s_lse2_nub(g)) /\ Gesammelt(g, s_festo2_bereit(g))
  BY <1>3 DEF Gesammelt, s_lse2_nub, s_festo2_bereit
<1>7. Gesammelt(g, s_festo2_nbereit(g)) /\ Gesammelt(g, s_uebergabe_ws(g))
  BY <1>3 DEF Gesammelt, s_festo2_nbereit, s_uebergabe_ws
<1>8. Gesammelt(g, t_lsw_lse(g)) /\ Gesammelt(g, t_toleranzzeit_lse(g))
  BY <1>2, <1>3
     DEF Gesammelt, t_lsw_lse, t_toleranzzeit_lse, WartenAufWSBeiLSE_t_toleranzzeit_lse
<1> QED
  BY <1>4, <1>5, <1>6, <1>7, <1>8

\* A trigger has been handled: k has asked for nothing, and the lamp is as it
\* should be.
Ende(v, x, k) ==
  /\ k \in Maschine /\ ~k.exit
  /\ k.d.rutsche_voll = x.d.rutsche_voll /\ k.d.festo = x.d.festo
  /\ x.d.anzahlWS >= 0 => k.d.anzahlWS >= 0
  /\ Stimmig(v, k)

LEMMA FolgtEnde ==
  ASSUME NEW v \in BOOLEAN, NEW x \in Maschine, ~x.exit, Stimmig(v, x), NEW k, Folgt(x, k)
  PROVE  Ende(v, x, k)
  BY DEF Folgt, Gleich, Ende, Stimmig, LampeWieWarnung, WarnungWieRutsche

LEMMA GesammeltEnde ==
  ASSUME NEW v \in BOOLEAN, NEW x \in Maschine, ~x.exit, Stimmig(v, x), NEW k, Gesammelt(x, k)
  PROVE  Ende(v, x, BetriebszustandExit(k))
<1> DEFINE y == Verlangt(x)
<1>1. PICK h : k = RegionenFertig(h) /\ Region(x, h)
  BY DEF Gesammelt
<1>2. CASE Folgt(x, h)
  <2>1. ~h.exit
    BY <1>2, DatenTyp
  <2>2. BetriebszustandExit(k) = h
    BY <1>1, <2>1 DEF RegionenFertig, BetriebszustandExit
  <2> QED
    BY <1>2, <2>2, FolgtEnde
<1>3. CASE Folgt(y, h)
  <2>1. y \in Maschine /\ y.exit = TRUE
    BY DEF Verlangt, Maschine
  <2> HIDE DEF y
  <2>2. Bleibt(y, h) /\ h.exit = TRUE
    BY <1>3, <2>1, FolgtSelbst, BleibtDanach DEF Bleibt
  <2>3. Bleibt(y, SortierungVerlassen(h)) /\ k = SortierungVerlassen(h)
    BY <1>1, <2>2, VerlassenBleibt DEF RegionenFertig
  <2>4. Bleibt(Verlangt(x), k)
    BY <2>3 DEF y
  <2> QED
    BY <2>4, BetriebszustandExitBleibt
       DEF Ende, Stimmig, LampeWieWarnung, WarnungWieRutsche
<1> QED
  BY <1>1, <1>2, <1>3 DEF Region

LEMMA TriggerGesammelt ==
  ASSUME NEW g \in Maschine, ~g.exit, NEW sig
  PROVE  /\ Gesammelt(g, g)
         /\ Gesammelt(g, SensorTrigger(g, sig)) /\ Gesammelt(g, TimerTrigger(g, sig))
<1>1. Gesammelt(g, g)
  BY FolgtSelbst DEF Gesammelt, Region, RegionenFertig
<1> QED
  BY <1>1, LSAHandler, LSHHandler, LSWHandler, LSEHandler DEF SensorTrigger, TimerTrigger

LEMMA AufWSWartenBetretenEnde ==
  ASSUME NEW v \in BOOLEAN, NEW g \in Maschine, ~g.exit, Stimmig(v, g),
         g.zustand = "Betriebszustand", g.bz = "Sortierung"
  PROVE  Ende(v, g, BetriebszustandExit(AufWSWartenBetreten(g)))
<1> DEFINE k == AufWSWartenBetreten(g)
<1>1. Bleibt(g, k) /\ Stimmig(v, k)
  BY AufWSWartenBetretenStimmig DEF Stimmig
<1> HIDE DEF k
<1>2. BetriebszustandExit(k) = k
  BY <1>1 DEF Bleibt, BetriebszustandExit
<1>3. Ende(v, g, k)
  BY <1>1 DEF Bleibt, Ende
<1> QED
  BY <1>2, <1>3 DEF k

LEMMA UebergabeTriggerEnde ==
  ASSUME NEW v \in BOOLEAN, NEW g \in Maschine, ~g.exit, Stimmig(v, g),
         g.zustand = "Betriebszustand", g.bz = "Sortierung",
         NEW sig, sig \notin {"EC_RTSCH_VOLL", "CMD_RTSCH_NV"}
  PROVE  Ende(v, g, BetriebszustandExit(UebergabeTrigger(g, sig)))
<1>1. UebergabeTrigger(g, sig) \in
        {s_uebergabe_ws(g), s_festo2_bereit(g), s_festo2_nbereit(g), AufWSWartenBetreten(g), g}
  BY DEF UebergabeTrigger, s_festo2_frei, s_festo1_stoppen, cmd_festos_frei
<1>2. /\ Gesammelt(g, s_uebergabe_ws(g)) /\ Gesammelt(g, s_festo2_bereit(g))
      /\ Gesammelt(g, s_festo2_nbereit(g)) /\ Gesammelt(g, g)
  BY LSEHandler, TriggerGesammelt
<1> QED
  BY <1>1, <1>2, GesammeltEnde, AufWSWartenBetretenEnde

LEMMA AufWSWartenTriggerEnde ==
  ASSUME NEW v \in BOOLEAN, NEW g \in Maschine, ~g.exit, Stimmig(v, g),
         g.zustand = "Betriebszustand", g.bz = "AufWSWarten", NEW sig
  PROVE  Ende(v, g, AufWSWartenTrigger(g, sig))
<1> DEFINE h == starte(g, "lsh")
<1>1. Folgt(g, g) /\ Folgt(g, h)
  BY FolgtSelbst, StartenGeht DEF TimerNamen
<1>2. AufWSWartenTrigger(g, sig) \in {SortierungBetreten(h), SortierungBetreten(g), g}
  BY DEF AufWSWartenTrigger, AufWSWarten_s_lsa1_ub, AufWSWarten_s_ws_an_festo2
<1> HIDE DEF h
<1>3. ASSUME NEW x, Folgt(g, x) PROVE Ende(v, g, SortierungBetreten(x))
  <2> DEFINE k == SortierungBetreten(x)
  <2>1. x \in Maschine /\ x.zustand = "Betriebszustand" /\ x.bz = "AufWSWarten"
        /\ LampeWieWarnung(v, x)
    BY <1>3 DEF Folgt, Gleich, Stimmig, LampeWieWarnung
  <2>2. Bleibt(x, k) /\ Stimmig(v, k)
    BY <2>1, SortierungBetretenStimmig
  <2> HIDE DEF k
  <2>3. Ende(v, g, k)
    BY <1>3, <2>2 DEF Ende, Bleibt, Folgt, Gleich
  <2> QED
    BY <2>3 DEF k
<1> QED
  BY <1>1, <1>2, <1>3, FolgtEnde

LEMMA TriggerEnde ==
  ASSUME NEW v \in BOOLEAN, NEW g \in Maschine, ~g.exit, Stimmig(v, g),
         NEW sig, sig \notin {"EC_RTSCH_VOLL", "CMD_RTSCH_NV"}
  PROVE  Ende(v, g, trigger(g, sig))
<1>1. CASE g.zustand # "Betriebszustand"
  BY <1>1, FolgtSelbst, FolgtEnde DEF trigger
<1>2. CASE g.zustand = "Betriebszustand" /\ sig = "S_PARTNER_FEHLER"
  <2>1. trigger(g, sig) = s_partner_fehler(g)
    BY <1>2 DEF trigger
  <2> QED
    BY <2>1, PartnerFehlerBleibt
       DEF Ende, Bleibt, Stimmig, LampeWieWarnung, WarnungWieRutsche
<1>3. CASE g.zustand = "Betriebszustand" /\ sig # "S_PARTNER_FEHLER" /\ g.bz = "Sortierung"
  <2>1. trigger(g, sig) = BetriebszustandExit(SortierungTrigger(g, sig))
    BY <1>3 DEF trigger
  <2>2. /\ Ende(v, g, BetriebszustandExit(SensorTrigger(g, sig)))
        /\ Ende(v, g, BetriebszustandExit(TimerTrigger(g, sig)))
    BY TriggerGesammelt, GesammeltEnde
  <2>3. Ende(v, g, BetriebszustandExit(UebergabeTrigger(g, sig)))
    BY <1>3, UebergabeTriggerEnde
  <2>4. SortierungTrigger(g, sig) \in
          {SensorTrigger(g, sig), TimerTrigger(g, sig), UebergabeTrigger(g, sig)}
    BY DEF SortierungTrigger
  <2> QED
    BY <2>1, <2>2, <2>3, <2>4
<1>4. CASE g.zustand = "Betriebszustand" /\ sig # "S_PARTNER_FEHLER" /\ g.bz # "Sortierung"
  <2>1. g.bz = "AufWSWarten"
    BY <1>4 DEF Maschine
  <2>2. trigger(g, sig) = AufWSWartenTrigger(g, sig)
    BY <1>4 DEF trigger
  <2> QED
    BY <1>4, <2>1, <2>2, AufWSWartenTriggerEnde
<1> QED
  BY <1>1, <1>2, <1>3, <1>4

\* The flag of the slide has been set, region Warnung follows.
LEMMA RutscheTriggerEnde ==
  ASSUME NEW v \in BOOLEAN, NEW g \in Maschine, ~g.exit, LampeWieWarnung(v, g),
         NEW sig, sig = IF g.d.rutsche_voll THEN "EC_RTSCH_VOLL" ELSE "CMD_RTSCH_NV"
  PROVE  Ende(v, g, trigger(g, sig))
<1>1. sig \notin SensorSignale /\ sig \notin TimerSignale /\ sig # "S_PARTNER_FEHLER"
  BY DEF SensorSignale, TimerSignale, TimerNamen, BandTimer, ZeitPuls, ToleranzPuls
<1>2. CASE g.zustand # "Betriebszustand" \/ g.bz # "Sortierung"
  <2>1. trigger(g, sig) = g
    BY <1>1, <1>2 DEF trigger, AufWSWartenTrigger
  <2> QED
    BY <1>2, <2>1 DEF Ende, Stimmig, WarnungWieRutsche
<1>3. CASE g.zustand = "Betriebszustand" /\ g.bz = "Sortierung"
  <2> DEFINE p == WarnsignalAktivieren_entry(g)
             q == senden(g, "CMD_LED_AMP_GLB_AUS")
             r == WartenAufWarnung_entry(q)
             h == IF g.d.rutsche_voll
                  THEN IF g.warn = "WartenAufWarnung" THEN p ELSE g
                  ELSE IF g.warn = "WarnsignalAktivieren" THEN r ELSE g
  <2>1. UebergabeTrigger(g, sig) = RegionenFertig(h)
    BY <1>1 DEF UebergabeTrigger, ec_rtsch_voll, cmd_rtsch_nv, WartenAufWarnung_ec_rtsch_voll,
                WarnsignalAktivieren_cmd_rtsch_nv, WarnsignalAktivieren_exit
  <2>2. trigger(g, sig) = BetriebszustandExit(RegionenFertig(h))
    BY <1>1, <1>3, <2>1 DEF trigger, SortierungTrigger
  <2>3. Ende(v, g, p)
    BY <1>3, WarnungEntry, GewarntStimmig DEF Ende
  <2>4. Ende(v, g, r)
    <3>1. /\ q \in Maschine /\ q.d = g.d /\ q.zustand = g.zustand /\ q.bz = g.bz
          /\ q.exit = g.exit /\ ~Gelb(v, q.aus)
      BY LampeSenden
    <3> HIDE DEF q
    <3> QED
      BY <1>3, <3>1, WarnungEntry, GewarntStimmig DEF Ende
  <2>5. g.warn \in {"WartenAufWarnung", "WarnsignalAktivieren"}
    BY DEF Maschine, WarnZustand
  <2>6. (g.warn = "WarnsignalAktivieren" <=> g.d.rutsche_voll) => Ende(v, g, g)
    BY DEF Ende, Stimmig, WarnungWieRutsche
  <2> HIDE DEF p, r
  <2>7. Ende(v, g, h)
    BY <2>3, <2>4, <2>5, <2>6
  <2> HIDE DEF h
  <2>8. trigger(g, sig) = h
    BY <2>2, <2>7 DEF Ende, RegionenFertig, BetriebszustandExit
  <2> QED
    BY <2>7, <2>8
<1> QED
  BY <1>2, <1>3

-----------------------------------------------------------------------------
(***************************************************************************)
(* Context::handleEvent.                                                   *)
(***************************************************************************)
LEMMA EndeWeiter ==
  ASSUME NEW v \in BOOLEAN, NEW x, NEW g, Ende(v, x, g)
  PROVE  /\ \A h : Folgt(g, h) => Ende(v, x, h)
         /\ \A sig : sig \notin {"EC_RTSCH_VOLL", "CMD_RTSCH_NV"} => Ende(v, x, trigger(g, sig))
<1>1. g \in Maschine /\ ~g.exit /\ Stimmig(v, g)
  BY DEF Ende
<1>2. \A h : Folgt(g, h) => Ende(v, g, h)
  BY <1>1, FolgtEnde
<1>3. \A sig : sig \notin {"EC_RTSCH_VOLL", "CMD_RTSCH_NV"} => Ende(v, g, trigger(g, sig))
  BY <1>1, TriggerEnde
<1>4. \A h : Ende(v, g, h) => Ende(v, x, h)
  BY DEF Ende
<1> QED
  BY <1>2, <1>3, <1>4

LEMMA SensorEnde ==
  ASSUME NEW v \in BOOLEAN, NEW g \in Maschine, ~g.exit, Stimmig(v, g),
         NEW m, m.sig \in SensorSignale \cup {"S_METAL_AN"}
  PROVE  Ende(v, g, handleSensor(g, m))
<1>1. Folgt(g, g) /\ Ende(v, g, g)
  BY FolgtSelbst, FolgtEnde
<1>2. Ende(v, g, registerId1(g)) /\ Ende(v, g, registerId3(g))
  BY <1>1, RegisterId1Geht, RegisterId3Geht, FolgtEnde
<1>3. m.sig \notin {"EC_RTSCH_VOLL", "CMD_RTSCH_NV"}
  BY DEF SensorSignale
<1>4. Ende(v, g, trigger(g, m.sig)) /\ Ende(v, g, trigger(registerId1(g), m.sig))
  BY <1>1, <1>2, <1>3, EndeWeiter
<1>5. handleSensor(g, m) \in {trigger(registerId1(g), m.sig), registerId3(g), trigger(g, m.sig)}
  BY DEF handleSensor
<1> QED
  BY <1>2, <1>4, <1>5

LEMMA UebergabeEnde ==
  ASSUME NEW v \in BOOLEAN, NEW g \in Maschine, ~g.exit, Stimmig(v, g),
         NEW m \in Puls, m.sig \in UebergabeSignale
  PROVE  Ende(v, g, handleUebergabe(g, m))
<1> DEFINE sig == m.sig
           typ == IF gFesto2(g) THEN empfangeTypVonF1(g, m.wert) ELSE g
           f1 == [g EXCEPT !.d.festo1Frei = (sig = "S_FESTO1_FREI")]
           f2 == [g EXCEPT !.d.festo2Frei = (sig = "S_FESTO2_FREI")]
           nvoll == [g EXCEPT !.d.f2_voll = FALSE]
           voll == [g EXCEPT !.d.f2_voll = TRUE]
           bereit == [trigger(nvoll, sig) EXCEPT !.d.f2_bereit = TRUE]
           nbereit == [trigger(voll, sig) EXCEPT !.d.f2_bereit = FALSE]
<1>1. Folgt(g, g) /\ Ende(v, g, g)
  BY FolgtSelbst, FolgtEnde
<1>2. sig \notin {"EC_RTSCH_VOLL", "CMD_RTSCH_NV"}
  BY DEF UebergabeSignale
<1>3. \A h : Folgt(g, h) => Ende(v, g, h) /\ Ende(v, g, trigger(h, sig))
  BY <1>1, <1>2, EndeWeiter
<1>4. Folgt(g, f1) /\ Folgt(g, f2) /\ Folgt(g, nvoll) /\ Folgt(g, voll)
  <2>1. (sig = "S_FESTO1_FREI") \in BOOLEAN /\ (sig = "S_FESTO2_FREI") \in BOOLEAN
    OBVIOUS
  <2> QED
    BY <1>1, <2>1, MerkerGehen
<1>5. sig = "S_UEBERGABE_WS" => Folgt(g, typ)
  <2>1. sig = "S_UEBERGABE_WS" => m.wert \in WerkstueckTyp
    BY DEF Puls
  <2> QED
    BY <1>1, <2>1, EmpfangeGeht
<1>6. Ende(v, g, bereit) /\ Ende(v, g, nbereit)
  <2> DEFINE p == trigger(nvoll, sig)
             q == trigger(voll, sig)
  <2>1. Ende(v, g, p) /\ Ende(v, g, q)
    BY <1>3, <1>4
  <2> HIDE DEF p, q
  <2>2. p \in Maschine /\ q \in Maschine
    BY <2>1 DEF Ende
  <2>3. Folgt(p, [p EXCEPT !.d.f2_bereit = TRUE]) /\ Folgt(q, [q EXCEPT !.d.f2_bereit = FALSE])
    BY <2>2, FolgtSelbst, MerkerGehen
  <2>4. Ende(v, g, [p EXCEPT !.d.f2_bereit = TRUE]) /\ Ende(v, g, [q EXCEPT !.d.f2_bereit = FALSE])
    BY <2>1, <2>3, EndeWeiter
  <2> QED
    BY <2>4 DEF p, q
<1>7. \/ sig = "S_UEBERGABE_WS" /\ handleUebergabe(g, m) = trigger(typ, sig)
      \/ handleUebergabe(g, m) \in {bereit, nbereit, trigger(f1, sig), trigger(f2, sig),
                                    trigger(g, sig)}
  BY DEF handleUebergabe
<1> HIDE DEF typ, f1, f2, bereit, nbereit
<1> QED
  BY <1>1, <1>3, <1>4, <1>5, <1>6, <1>7

\* Machine g of plant a has become k with the pulse m.
Behandelt(v, a, g, m, k) ==
  /\ k \in Maschine /\ ~k.exit /\ k.d.festo = a /\ k.d.anzahlWS >= 0 /\ Stimmig(v, k)
  /\ k.d.rutsche_voll <=> m.sig = VollPuls(a) \/ (m.sig # FreiPuls(a) /\ g.d.rutsche_voll)

LEMMA RutscheBehandelt ==
  ASSUME NEW v \in BOOLEAN, NEW a \in Anlagen, NEW g \in Maschine, ~g.exit, Stimmig(v, g),
         g.d.festo = a, g.d.anzahlWS >= 0, NEW m, Fuer(a, m), m.sig \in RutscheSignale
  PROVE  Behandelt(v, a, g, m, handleRutsche(g, m))
<1> DEFINE voll == m.sig \in {"EC_RTSCH1_VOLL", "EC_RTSCH2_VOLL"}
           zweite == m.sig \in {"EC_RTSCH2_VOLL", "CMD_RTSCH2_NV"}
           sig == IF voll THEN "EC_RTSCH_VOLL" ELSE "CMD_RTSCH_NV"
           h == IF zweite THEN [g EXCEPT !.d.rutsche2_voll = voll] ELSE g
           k == [h EXCEPT !.d.rutsche_voll = voll]
<1>1. handleRutsche(g, m) = IF zweite /\ ~gFesto2(g) THEN h ELSE trigger(k, sig)
  BY DEF handleRutsche
<1>2. Folgt(g, h)
  <2>1. voll \in BOOLEAN
    OBVIOUS
  <2> QED
    BY <2>1, FolgtSelbst, MerkerGehen
<1>3. Ende(v, g, h)
  BY <1>2, FolgtEnde
<1>4. gFesto2(g) <=> a = 2
  BY DEF gFesto2
<1>5. a \in {1, 2} /\ (a = 2 => m.sig \notin {"EC_RTSCH1_VOLL", "CMD_RTSCH1_NV"})
  BY DEF Anlagen, Fuer
<1> HIDE DEF h
<1>6. CASE zweite /\ a = 1
  <2>1. handleRutsche(g, m) = h
    BY <1>1, <1>4, <1>6
  <2> QED
    BY <1>3, <1>6, <2>1 DEF Behandelt, Ende, VollPuls, FreiPuls
<1>7. CASE ~(zweite /\ a = 1)
  <2>1. handleRutsche(g, m) = trigger(k, sig)
    BY <1>1, <1>4, <1>5, <1>7
  <2>2. voll <=> m.sig = VollPuls(a)
    BY <1>5, <1>7 DEF VollPuls, RutscheSignale
  <2>3. ~voll <=> m.sig = FreiPuls(a)
    BY <1>5, <1>7 DEF FreiPuls, RutscheSignale
  <2>4. voll \in BOOLEAN
    OBVIOUS
  <2> HIDE DEF voll
  <2>5. h \in Maschine /\ ~h.exit /\ LampeWieWarnung(v, h) /\ h.d.festo = a /\ h.d.anzahlWS >= 0
    BY <1>3 DEF Ende, Stimmig
  <2>6. /\ k \in Maschine /\ k.exit = h.exit /\ k.d.rutsche_voll = voll
        /\ k.d.festo = a /\ k.d.anzahlWS = h.d.anzahlWS
        /\ k.zustand = h.zustand /\ k.bz = h.bz /\ k.warn = h.warn /\ k.aus = h.aus
    BY <2>4, <2>5 DEF Maschine, Daten
  <2> HIDE DEF k
  <2>7. LampeWieWarnung(v, k)
    BY <2>5, <2>6 DEF LampeWieWarnung
  <2>8. Ende(v, k, trigger(k, sig))
    BY <2>5, <2>6, <2>7, RutscheTriggerEnde
  <2> DEFINE r == trigger(k, sig)
  <2> HIDE DEF r
  <2>9. /\ r \in Maschine /\ ~r.exit /\ r.d.festo = a /\ r.d.anzahlWS >= 0 /\ Stimmig(v, r)
        /\ r.d.rutsche_voll = voll
    BY <2>5, <2>6, <2>8 DEF Ende, r
  <2>10. r.d.rutsche_voll <=> m.sig = VollPuls(a) \/ (m.sig # FreiPuls(a) /\ g.d.rutsche_voll)
    <3>1. voll = TRUE => m.sig = VollPuls(a) /\ r.d.rutsche_voll
      BY <2>2, <2>9
    <3>2. voll = FALSE => m.sig = FreiPuls(a) /\ m.sig # VollPuls(a) /\ ~r.d.rutsche_voll
      BY <2>2, <2>3, <2>9
    <3> QED
      BY <2>4, <3>1, <3>2
  <2> QED
    BY <2>1, <2>9, <2>10 DEF Behandelt, r
<1> QED
  BY <1>6, <1>7

LEMMA EventBehandelt ==
  ASSUME NEW v \in BOOLEAN, NEW a \in Anlagen, NEW g \in Maschine, ~g.exit, Stimmig(v, g),
         g.d.festo = a, g.d.anzahlWS >= 0, NEW m, Fuer(a, m)
  PROVE  Behandelt(v, a, g, m, handleEvent(g, m))
<1>1. m \in Puls /\ m.sig \in Signale
  BY DEF Fuer, Puls
<1>2. ASSUME NEW k, Ende(v, g, k), m.sig \notin RutscheSignale PROVE Behandelt(v, a, g, m, k)
  <2>1. m.sig # VollPuls(a) /\ m.sig # FreiPuls(a)
    BY <1>2 DEF RutscheSignale, VollPuls, FreiPuls
  <2> QED
    BY <1>2, <2>1 DEF Behandelt, Ende
<1>3. RutscheSignale \cap (SensorSignale \cup {"S_METAL_AN"} \cup UebergabeSignale) = {}
  BY DEF RutscheSignale, SensorSignale, UebergabeSignale
<1>8. (SensorSignale \cup {"S_METAL_AN"}) \cap UebergabeSignale = {}
  BY DEF SensorSignale, UebergabeSignale
<1>4. CASE m.sig \in SensorSignale \cup {"S_METAL_AN"}
  <2>1. handleEvent(g, m) = handleSensor(g, m)
    BY <1>3, <1>8, <1>4
       DEF handleEvent, SensorSignale, UebergabeSignale, RutscheSignale, WerkstueckSignale
  <2> QED
    BY <1>2, <1>3, <1>4, <2>1, SensorEnde
<1>5. CASE m.sig \in UebergabeSignale
  <2>1. handleEvent(g, m) = handleUebergabe(g, m)
    BY <1>3, <1>8, <1>5
       DEF handleEvent, SensorSignale, UebergabeSignale, RutscheSignale, WerkstueckSignale
  <2> QED
    BY <1>1, <1>2, <1>3, <1>5, <2>1, UebergabeEnde
<1>6. CASE m.sig \in RutscheSignale
  <2>1. handleEvent(g, m) = handleRutsche(g, m)
    BY <1>3, <1>6
       DEF handleEvent, SensorSignale, UebergabeSignale, RutscheSignale, WerkstueckSignale
  <2> QED
    BY <1>6, <2>1, RutscheBehandelt
<1>7. CASE m.sig \notin SensorSignale \cup {"S_METAL_AN"} \cup UebergabeSignale \cup RutscheSignale
  <2>1. handleEvent(g, m) \in
          {registerId2(g, m.sig), WerkstueckAnders(g), trigger(g, m.sig)}
    BY <1>7 DEF handleEvent
  <2>2. Ende(v, g, registerId2(g, m.sig)) /\ Ende(v, g, WerkstueckAnders(g))
    BY FolgtSelbst, RegisterId2Geht, AdvanceGeht, FolgtEnde
  <2>3. m.sig \notin {"EC_RTSCH_VOLL", "CMD_RTSCH_NV"}
    BY <1>1 DEF Signale, BefehlSignale, SensorSignale, UebergabeSignale, RutscheSignale,
                WerkstueckSignale, TimerSignale, TimerNamen, BandTimer, ZeitPuls, ToleranzPuls
  <2>4. Ende(v, g, trigger(g, m.sig))
    BY <2>3, TriggerEnde
  <2> QED
    BY <1>2, <1>7, <2>1, <2>2, <2>4
<1> QED
  BY <1>4, <1>5, <1>6, <1>7

-----------------------------------------------------------------------------
(***************************************************************************)
(* The pulses of the slides in the channels.                               *)
(***************************************************************************)
LEMMA PrioritaetTyp == \A sig \in Signale : bestimmtPrioritaet(sig) \in Nat /\ bestimmtPrioritaet(sig) >= 5
  BY DEF bestimmtPrioritaet

LEMMA RutschePrioritaet == \A sig \in RutscheSignale : bestimmtPrioritaet(sig) = 5
  BY DEF bestimmtPrioritaet, RutscheSignale, WerkstueckSignale

\* A pulse that does not switch changes nothing, wherever it is put in.
LEMMA EinfuegenNeutral ==
  ASSUME NEW v \in BOOLEAN, NEW n \in Nat, NEW p \in 0..n, NEW k, NEW h, NEW m,
         NEW ein, NEW aus, m.sig # ein, m.sig # aus,
         \A i \in 1..p : h[i] = k[i], h[p + 1] = m, \A i \in (p + 1)..n : h[i + 1] = k[i]
  PROVE  Letztes(v, h, n + 1, ein, aus) <=> Letztes(v, k, n, ein, aus)
<1>1. ASSUME Letztes(v, k, n, ein, aus) PROVE Letztes(v, h, n + 1, ein, aus)
  <2>1. PICK i \in 0..n : /\ IF i = 0 THEN v ELSE k[i].sig = ein
                          /\ \A j \in (i + 1)..n : k[j].sig # aus
    BY <1>1 DEF Letztes
  <2>2. CASE i <= p
    <3>1. i \in 0..(n + 1) /\ (i # 0 => i \in 1..p)
      BY <2>2
    <3>2. ASSUME NEW j \in (i + 1)..(n + 1) PROVE h[j].sig # aus
      <4>1. CASE j <= p
        BY <2>1, <4>1
      <4>2. CASE j = p + 1
        BY <4>2
      <4>3. CASE j > p + 1
        <5>1. j - 1 \in (p + 1)..n /\ j - 1 \in (i + 1)..n /\ (j - 1) + 1 = j
          BY <2>2, <4>3
        <5> QED
          BY <2>1, <5>1
      <4> QED
        BY <4>1, <4>2, <4>3
    <3>3. IF i = 0 THEN v ELSE h[i].sig = ein
      BY <2>1, <3>1
    <3> QED
      BY <3>1, <3>2, <3>3 DEF Letztes
  <2>3. CASE i > p
    <3>1. i + 1 \in 0..(n + 1) /\ i + 1 # 0 /\ i # 0 /\ i \in (p + 1)..n
      BY <2>3
    <3>2. h[i + 1].sig = ein
      BY <2>1, <3>1
    <3>3. ASSUME NEW j \in ((i + 1) + 1)..(n + 1) PROVE h[j].sig # aus
      <4>1. j - 1 \in (p + 1)..n /\ j - 1 \in (i + 1)..n /\ (j - 1) + 1 = j
        BY <2>3
      <4> QED
        BY <2>1, <4>1
    <3> QED
      BY <3>1, <3>2, <3>3 DEF Letztes
  <2> QED
    BY <2>2, <2>3
<1>2. ASSUME Letztes(v, h, n + 1, ein, aus) PROVE Letztes(v, k, n, ein, aus)
  <2>1. PICK i \in 0..(n + 1) : /\ IF i = 0 THEN v ELSE h[i].sig = ein
                                /\ \A j \in (i + 1)..(n + 1) : h[j].sig # aus
    BY <1>2 DEF Letztes
  <2>2. i # p + 1
    <3>1. p + 1 # 0
      OBVIOUS
    <3> QED
      BY <2>1, <3>1
  <2>3. CASE i <= p
    <3>1. i \in 0..n /\ (i # 0 => i \in 1..p)
      BY <2>3
    <3>2. ASSUME NEW j \in (i + 1)..n PROVE k[j].sig # aus
      <4>1. CASE j <= p
        <5>1. j \in (i + 1)..(n + 1) /\ j \in 1..p
          BY <4>1, <3>1
        <5> QED
          BY <2>1, <5>1
      <4>2. CASE j > p
        <5>1. j + 1 \in (i + 1)..(n + 1) /\ j \in (p + 1)..n
          BY <4>2, <3>1
        <5> QED
          BY <2>1, <5>1
      <4> QED
        BY <4>1, <4>2
    <3>3. IF i = 0 THEN v ELSE k[i].sig = ein
      BY <2>1, <3>1
    <3> QED
      BY <3>1, <3>2, <3>3 DEF Letztes
  <2>4. CASE i > p + 1
    <3>1. i - 1 \in 0..n /\ i - 1 # 0 /\ i # 0 /\ i - 1 \in (p + 1)..n /\ (i - 1) + 1 = i
      BY <2>4
    <3>2. k[i - 1].sig = ein
      BY <2>1, <3>1
    <3>3. ASSUME NEW j \in ((i - 1) + 1)..n PROVE k[j].sig # aus
      <4>1. j + 1 \in (i + 1)..(n + 1) /\ j \in (p + 1)..n
        BY <2>4
      <4> QED
        BY <2>1, <4>1
    <3> QED
      BY <3>1, <3>2, <3>3 DEF Letztes
  <2> QED
    BY <2>2, <2>3, <2>4
<1> QED
  BY <1>1, <1>2

LEMMA EinreihenLetztes ==
  ASSUME NEW v \in BOOLEAN, NEW k \in Seq(Puls), NEW m \in Puls, NEW ein, NEW aus, ein # aus,
         \A x \in {ein, aus} : bestimmtPrioritaet(x) = 5
  PROVE  Letztes(v, Einreihen(k, m), Len(Einreihen(k, m)), ein, aus)
           <=> m.sig = ein \/ (m.sig # aus /\ Letztes(v, k, Len(k), ein, aus))
<1> DEFINE h == Einreihen(k, m)
           n == Len(k)
<1>1. PICK p \in 0..n :
        /\ Len(h) = n + 1
        /\ \A i \in 1..p : h[i] = k[i]
        /\ h[p + 1] = m
        /\ \A i \in (p + 1)..n : h[i + 1] = k[i]
        /\ (\A i \in 1..n :
              bestimmtPrioritaet(k[i].sig) >= bestimmtPrioritaet(m.sig)) => p = n
  BY EinreihenTeilt
<1>2. n \in Nat /\ \A i \in 1..n : k[i].sig \in Signale
  BY DEF Puls
<1>3. ein # aus /\ \A x \in {ein, aus} : bestimmtPrioritaet(x) = 5
  OBVIOUS
<1> HIDE DEF h, n
<1>4. CASE m.sig \in {ein, aus}
  <2>1. bestimmtPrioritaet(m.sig) = 5
    BY <1>3, <1>4
  <2>2. \A i \in 1..n : bestimmtPrioritaet(k[i].sig) >= bestimmtPrioritaet(m.sig)
    BY <1>2, <2>1, PrioritaetTyp
  <2>3. h[n + 1] = m /\ \A i \in 1..n : h[i] = k[i]
    BY <1>1, <2>2
  <2>4. Letztes(v, h, n, ein, aus) <=> Letztes(v, k, n, ein, aus)
    BY <1>2, <2>3, LetztesGleich
  <2>5. Letztes(v, h, n + 1, ein, aus)
          <=> h[n + 1].sig = ein \/ (h[n + 1].sig # aus /\ Letztes(v, h, n, ein, aus))
    BY <1>2, LetztesWeiter
  <2> QED
    BY <1>1, <2>3, <2>4, <2>5 DEF h, n
<1>5. CASE m.sig \notin {ein, aus}
  <2>1. Letztes(v, h, n + 1, ein, aus) <=> Letztes(v, k, n, ein, aus)
    BY <1>1, <1>2, <1>5, EinfuegenNeutral
  <2> QED
    BY <1>1, <1>5, <2>1 DEF h, n
<1> QED
  BY <1>4, <1>5

LEMMA EinreihenVoll ==
  ASSUME NEW v \in BOOLEAN, NEW a \in Anlagen, NEW k \in Seq(Puls), NEW m \in Puls
  PROVE  Voll(a, v, Einreihen(k, m))
           <=> m.sig = VollPuls(a) \/ (m.sig # FreiPuls(a) /\ Voll(a, v, k))
<1>1. /\ VollPuls(a) \in RutscheSignale /\ FreiPuls(a) \in RutscheSignale
      /\ VollPuls(a) # FreiPuls(a)
  BY DEF VollPuls, FreiPuls, RutscheSignale
<1>2. \A x \in {VollPuls(a), FreiPuls(a)} : bestimmtPrioritaet(x) = 5
  BY <1>1, RutschePrioritaet
<1> QED
  BY <1>1, <1>2, EinreihenLetztes DEF Voll

LEMMA EinreihenFuer ==
  ASSUME NEW a \in Anlagen, NEW k \in Seq(Puls), FuerAlle(a, k), NEW m, Fuer(a, m)
  PROVE  FuerAlle(a, Einreihen(k, m))
<1> DEFINE h == Einreihen(k, m)
           n == Len(k)
<1>1. m \in Puls
  BY DEF Fuer
<1>2. PICK p \in 0..n :
        /\ Len(h) = n + 1
        /\ \A i \in 1..p : h[i] = k[i]
        /\ h[p + 1] = m
        /\ \A i \in (p + 1)..n : h[i + 1] = k[i]
  BY <1>1, EinreihenTeilt
<1>3. n \in Nat /\ \A i \in 1..n : Fuer(a, k[i])
  BY DEF FuerAlle
<1> HIDE DEF h, n
<1>4. ASSUME NEW i \in 1..(n + 1) PROVE Fuer(a, h[i])
  <2>1. CASE i <= p
    <3>1. i \in 1..p /\ i \in 1..n
      BY <1>3, <2>1
    <3> QED
      BY <1>2, <1>3, <3>1
  <2>2. CASE i = p + 1
    BY <1>2, <2>2
  <2>3. CASE i > p + 1
    <3>1. i - 1 \in (p + 1)..n /\ i - 1 \in 1..n /\ (i - 1) + 1 = i
      BY <1>3, <2>3
    <3> QED
      BY <1>2, <1>3, <3>1
  <2> QED
    BY <1>3, <2>1, <2>2, <2>3
<1> QED
  BY <1>2, <1>4 DEF FuerAlle, h

\* The pulses plant a's dispatcher gets: of the slides, only its own reports.
VonHier(a, m) ==
  m \in Puls /\ (m.sig \in RutscheSignale => m.sig \in {VollPuls(a), FreiPuls(a)})

LEMMA EingereihtVoll ==
  ASSUME NEW v \in BOOLEAN, NEW a \in Anlagen, NEW z \in Anlagen,
         NEW k \in Seq(Puls), FuerAlle(z, k), NEW m, VonHier(a, m)
  PROVE  /\ Eingereiht(z, a, k, m) \in Seq(Puls)
         /\ FuerAlle(z, Eingereiht(z, a, k, m))
         /\ Voll(z, v, Eingereiht(z, a, k, m))
              <=> IF z = a THEN m.sig = VollPuls(a) \/ (m.sig # FreiPuls(a) /\ Voll(z, v, k))
                  ELSE Voll(z, v, k)
<1> DEFINE drin == ~FuerHAL(m) /\ z \in Ziele(a, m.sig)
<1>1. m \in Puls /\ a \in {1, 2} /\ z \in {1, 2}
  BY DEF VonHier, Anlagen
<1>2. m.sig \in RutscheSignale => m.sig \in {VollPuls(a), FreiPuls(a)} /\ ~FuerHAL(m)
  BY DEF VonHier, FuerHAL, RutscheSignale, BefehlSignale
<1>3. VollPuls(a) \in RutscheSignale /\ FreiPuls(a) \in RutscheSignale
  BY DEF VollPuls, FreiPuls, RutscheSignale
<1>4. z = a /\ m.sig \in RutscheSignale => drin
  BY <1>2 DEF Ziele, RutscheSignale
<1>5. z # a /\ m.sig \in RutscheSignale => m.sig # VollPuls(z) /\ m.sig # FreiPuls(z)
  BY <1>1, <1>2 DEF VollPuls, FreiPuls
<1>6. VollPuls(z) \in RutscheSignale /\ FreiPuls(z) \in RutscheSignale
  BY DEF VollPuls, FreiPuls, RutscheSignale
<1>7. drin => Fuer(z, m)
  <2>1. m.sig \in {"EC_RTSCH1_VOLL", "CMD_RTSCH1_NV"} => a = 1 /\ Ziele(a, m.sig) = {a}
    BY <1>1, <1>2 DEF VollPuls, FreiPuls, RutscheSignale, Ziele, istMeinSignal
  <2> QED
    BY <1>1, <2>1 DEF Fuer
<1>8. CASE drin
  <2>1. Eingereiht(z, a, k, m) = Einreihen(k, m)
    BY <1>8 DEF Eingereiht
  <2>2. Voll(z, v, Einreihen(k, m))
          <=> m.sig = VollPuls(z) \/ (m.sig # FreiPuls(z) /\ Voll(z, v, k))
    BY <1>1, EinreihenVoll
  <2>3. FuerAlle(z, Einreihen(k, m))
    BY <1>7, <1>8, EinreihenFuer
  <2>4. Einreihen(k, m) \in Seq(Puls)
    BY <1>1, EinreihenTeilt
  <2> QED
    BY <1>5, <1>6, <2>1, <2>2, <2>3, <2>4
<1>9. CASE ~drin
  <2>1. Eingereiht(z, a, k, m) = k
    BY <1>9 DEF Eingereiht
  <2> QED
    BY <1>3, <1>4, <1>9, <2>1
<1> QED
  BY <1>8, <1>9

LEMMA KanalVoll ==
  ASSUME NEW v \in BOOLEAN, NEW a \in Anlagen, NEW z \in Anlagen,
         NEW k \in Seq(Puls), FuerAlle(z, k), NEW s \in Seq(Puls),
         \A i \in 1..Len(s) : VonHier(a, s[i])
  PROVE  /\ FuerAlle(z, KanalNach(z, k, a, s))
         /\ Voll(z, v, KanalNach(z, k, a, s))
              <=> IF z = a THEN Letztes(Voll(z, v, k), s, Len(s), VollPuls(a), FreiPuls(a))
                  ELSE Voll(z, v, k)
<1> DEFINE n == Len(s)
           Danach(i) == IF z = a THEN Letztes(Voll(z, v, k), s, i, VollPuls(a), FreiPuls(a))
                        ELSE Voll(z, v, k)
<1>7. PICK h : Gang(h, z, k, a, s)
  BY KanalLauf
<1>1. /\ h \in [0..n -> Seq(Puls)]
      /\ h[0] = k
      /\ \A i \in 1..n : h[i] = Eingereiht(z, a, h[i - 1], s[i])
      /\ KanalNach(z, k, a, s) = h[n]
  BY <1>7 DEF Gang
<1>2. n \in Nat /\ \A i \in 1..n : VonHier(a, s[i])
  OBVIOUS
<1>3. Voll(z, v, k) \in BOOLEAN /\ VollPuls(a) # FreiPuls(a)
  BY DEF Voll, Letztes, VollPuls, FreiPuls
<1> HIDE DEF n
<1> DEFINE Gut(i) == FuerAlle(z, h[i]) /\ (Voll(z, v, h[i]) <=> Danach(i))
           T == {i \in Nat : i <= n => Gut(i)}
<1>4. 0 \in T
  BY <1>1, <1>3, LetztesAnfang
<1>5. ASSUME NEW i \in Nat, i \in T PROVE i + 1 \in T
  <2> SUFFICES ASSUME i + 1 <= n PROVE Gut(i + 1)
    OBVIOUS
  <2>1. i + 1 \in 1..n /\ i \in 0..n /\ i <= n /\ (i + 1) - 1 = i
    BY <1>2
  <2>2. Gut(i)
    BY <1>5, <2>1
  <2>3. h[i] \in Seq(Puls) /\ VonHier(a, s[i + 1]) /\ h[i + 1] = Eingereiht(z, a, h[i], s[i + 1])
    BY <1>1, <1>2, <2>1
  <2>4. z = a => (Danach(i + 1) <=> \/ s[i + 1].sig = VollPuls(a)
                                    \/ s[i + 1].sig # FreiPuls(a) /\ Danach(i))
    BY <1>3, LetztesWeiter
  <2>5. z # a => (Danach(i + 1) <=> Danach(i))
    OBVIOUS
  <2>6. /\ FuerAlle(z, h[i + 1])
        /\ Voll(z, v, h[i + 1])
             <=> IF z = a
                 THEN s[i + 1].sig = VollPuls(a)
                      \/ (s[i + 1].sig # FreiPuls(a) /\ Voll(z, v, h[i]))
                 ELSE Voll(z, v, h[i])
    BY <2>2, <2>3, EingereihtVoll
  <2> HIDE DEF Danach
  <2> QED
    BY <2>2, <2>4, <2>5, <2>6
<1>6. Gut(n)
  <2>1. Nat \subseteq T
    <3> HIDE DEF T
    <3> QED
      BY <1>4, <1>5, Induktion
  <2> QED
    BY <1>2, <2>1
<1> QED
  BY <1>1, <1>6 DEF n

LEMMA LetztesNeutral ==
  ASSUME NEW v \in BOOLEAN, NEW s, NEW n \in Nat, NEW ein, NEW aus,
         \A i \in 1..n : s[i].sig # ein /\ s[i].sig # aus
  PROVE  Letztes(v, s, n, ein, aus) <=> v
<1>1. \A i \in 0..n : i # 0 => i \in 1..n
  OBVIOUS
<1>2. 0 \in 0..n /\ \A j \in (0 + 1)..n : j \in 1..n
  OBVIOUS
<1> QED
  BY <1>1, <1>2 DEF Letztes

LEMMA LetztesEins ==
  ASSUME NEW v \in BOOLEAN, NEW s, NEW ein, NEW aus, ein # aus
  PROVE  Letztes(v, s, 1, ein, aus) <=> s[1].sig = ein \/ (s[1].sig # aus /\ v)
<1>1. 0 \in Nat /\ 0 + 1 = 1
  OBVIOUS
<1>2. Letztes(v, s, 0, ein, aus) <=> v
  BY LetztesAnfang
<1>3. Letztes(v, s, 0 + 1, ein, aus)
        <=> s[0 + 1].sig = ein \/ (s[0 + 1].sig # aus /\ Letztes(v, s, 0, ein, aus))
  BY LetztesWeiter
<1>4. Letztes(v, s, 1, ein, aus)
        <=> s[1].sig = ein \/ (s[1].sig # aus /\ Letztes(v, s, 0, ein, aus))
  BY <1>1, <1>3
<1> QED
  BY <1>2, <1>4

\* The machine takes the first pulse out of its channel.
LEMMA TailLetztes ==
  ASSUME NEW v \in BOOLEAN, NEW w \in BOOLEAN, NEW k \in Seq(Puls), k # <<>>,
         NEW ein, NEW aus, ein # aus,
         w <=> Head(k).sig = ein \/ (Head(k).sig # aus /\ v)
  PROVE  Letztes(w, Tail(k), Len(Tail(k)), ein, aus) <=> Letztes(v, k, Len(k), ein, aus)
<1> DEFINE t == Tail(k)
           n == Len(t)
           m == Head(k)
<1>1. /\ t \in Seq(Puls) /\ n \in Nat /\ Len(k) = n + 1 /\ k[1] = m
      /\ \A i \in 1..n : t[i] = k[i + 1]
  OBVIOUS
<1>4. w <=> m.sig = ein \/ (m.sig # aus /\ v)
  OBVIOUS
<1> HIDE DEF t, n, m
<1>5. ASSUME Letztes(v, k, n + 1, ein, aus) PROVE Letztes(w, t, n, ein, aus)
  <2>1. PICK i \in 0..(n + 1) : /\ IF i = 0 THEN v ELSE k[i].sig = ein
                                /\ \A j \in (i + 1)..(n + 1) : k[j].sig # aus
    BY <1>5 DEF Letztes
  <2>2. ASSUME NEW j \in 1..n, j >= i PROVE t[j].sig # aus
    <3>1. j + 1 \in (i + 1)..(n + 1)
      BY <1>1, <2>2
    <3> QED
      BY <1>1, <2>1, <3>1
  <2>3. CASE i = 0
    <3>1. 1 \in (i + 1)..(n + 1)
      BY <1>1, <2>3
    <3>2. w
      BY <1>1, <1>4, <2>1, <2>3, <3>1
    <3>3. 0 \in 0..n /\ \A j \in (0 + 1)..n : j \in 1..n /\ j >= i
      BY <1>1, <2>3
    <3> QED
      BY <2>2, <3>2, <3>3 DEF Letztes
  <2>4. CASE i = 1
    <3>1. w
      BY <1>1, <1>4, <2>1, <2>4
    <3>2. 0 \in 0..n /\ \A j \in (0 + 1)..n : j \in 1..n /\ j >= i
      BY <1>1, <2>4
    <3> QED
      BY <2>2, <3>1, <3>2 DEF Letztes
  <2>5. CASE i > 1
    <3>1. i - 1 \in 0..n /\ i - 1 # 0 /\ i # 0 /\ i - 1 \in 1..n /\ (i - 1) + 1 = i
      BY <1>1, <2>5
    <3>2. \A j \in ((i - 1) + 1)..n : j \in 1..n /\ j >= i
      BY <1>1, <2>5
    <3>3. t[i - 1].sig = ein
      BY <1>1, <2>1, <3>1
    <3> QED
      BY <2>2, <3>1, <3>2, <3>3 DEF Letztes
  <2>6. i = 0 \/ i = 1 \/ i > 1
    BY <1>1
  <2> QED
    BY <2>3, <2>4, <2>5, <2>6
<1>6. ASSUME Letztes(w, t, n, ein, aus) PROVE Letztes(v, k, n + 1, ein, aus)
  <2>1. PICK i \in 0..n : /\ IF i = 0 THEN w ELSE t[i].sig = ein
                          /\ \A j \in (i + 1)..n : t[j].sig # aus
    BY <1>6 DEF Letztes
  <2>2. ASSUME NEW j \in 1..(n + 1), j > i + 1 PROVE k[j].sig # aus
    <3>1. j - 1 \in (i + 1)..n /\ j - 1 \in 1..n /\ (j - 1) + 1 = j
      BY <1>1, <2>2
    <3> QED
      BY <1>1, <2>1, <3>1
  <2>3. CASE i = 0 /\ m.sig = ein
    <3>1. 1 \in 0..(n + 1) /\ 1 # 0 /\ \A j \in (1 + 1)..(n + 1) : j \in 1..(n + 1) /\ j > i + 1
      BY <1>1, <2>3
    <3> QED
      BY <1>1, <2>2, <2>3, <3>1 DEF Letztes
  <2>4. CASE i = 0 /\ m.sig # ein
    <3>1. v /\ m.sig # aus
      BY <1>4, <2>1, <2>4
    <3>2. 0 \in 0..(n + 1)
          /\ \A j \in (0 + 1)..(n + 1) : j \in 1..(n + 1) /\ (j = 1 \/ j > i + 1)
      BY <1>1, <2>4
    <3>3. \A j \in (0 + 1)..(n + 1) : k[j].sig # aus
      BY <1>1, <2>2, <3>1, <3>2
    <3> QED
      BY <3>1, <3>2, <3>3 DEF Letztes
  <2>5. CASE i # 0
    <3>1. i + 1 \in 0..(n + 1) /\ i + 1 # 0 /\ i \in 1..n
      BY <1>1, <2>5
    <3>2. \A j \in ((i + 1) + 1)..(n + 1) : j \in 1..(n + 1) /\ j > i + 1
      BY <1>1, <2>5
    <3>3. k[i + 1].sig = ein
      BY <1>1, <2>1, <2>5, <3>1
    <3> QED
      BY <2>2, <3>1, <3>2, <3>3 DEF Letztes
  <2> QED
    BY <2>3, <2>4, <2>5
<1> QED
  BY <1>1, <1>5, <1>6 DEF t, n, m

LEMMA TailVoll ==
  ASSUME NEW v \in BOOLEAN, NEW w \in BOOLEAN, NEW a \in Anlagen,
         NEW k \in Seq(Puls), k # <<>>, FuerAlle(a, k),
         w <=> Head(k).sig = VollPuls(a) \/ (Head(k).sig # FreiPuls(a) /\ v)
  PROVE  /\ Tail(k) \in Seq(Puls) /\ FuerAlle(a, Tail(k)) /\ Fuer(a, Head(k))
         /\ Voll(a, w, Tail(k)) <=> Voll(a, v, k)
<1> DEFINE t == Tail(k)
           n == Len(t)
           m == Head(k)
<1>1. /\ t \in Seq(Puls) /\ n \in Nat /\ Len(k) = n + 1 /\ k[1] = m
      /\ \A i \in 1..n : t[i] = k[i + 1]
  OBVIOUS
<1>2. VollPuls(a) # FreiPuls(a)
  BY DEF VollPuls, FreiPuls
<1>3. Voll(a, w, t) <=> Voll(a, v, k)
  <2> HIDE DEF t
  <2>1. Letztes(w, Tail(k), Len(Tail(k)), VollPuls(a), FreiPuls(a))
          <=> Letztes(v, k, Len(k), VollPuls(a), FreiPuls(a))
    BY <1>2, TailLetztes
  <2> QED
    BY <2>1 DEF Voll, t
<1> HIDE DEF t, n, m
<1>4. Fuer(a, m) /\ FuerAlle(a, t)
  <2>1. 1 \in 1..(n + 1) /\ \A i \in 1..n : i + 1 \in 1..(n + 1)
    BY <1>1
  <2> QED
    BY <1>1, <2>1 DEF FuerAlle, n
<1> QED
  BY <1>1, <1>3, <1>4 DEF t, n, m

-----------------------------------------------------------------------------
(***************************************************************************)
(* The actuators and the machine together.                                 *)
(***************************************************************************)
\* What the HAL keeps of k when it leads to h.
HALBleibt(a, k, h) ==
  h \in Aktor /\ Bereit(a, h) /\ h.rutsche = k.rutsche /\ (EndGelb(h) <=> EndGelb(k))

LEMMA WachBleibt ==
  ASSUME NEW a \in Anlagen, NEW k \in Aktor, Bereit(a, k)
  PROVE  HALBleibt(a, k, [k EXCEPT !.uhren = {u - 1 : u \in k.uhren \ {1}}])
<1> DEFINE h == [k EXCEPT !.uhren = {u - 1 : u \in k.uhren \ {1}}]
<1>1. \A u \in k.uhren \ {1} : u - 1 \in 1..OffenZeit
  BY SortieranlageAnnahme DEF Aktor
<1>2. h \in Aktor
  BY <1>1 DEF Aktor
<1>3. h.offen = k.offen /\ h.wartend = k.wartend /\ h.rutsche = k.rutsche /\ h.gelb = k.gelb
  BY DEF Aktor
<1> HIDE DEF h
<1>4. Bereit(a, h)
  BY <1>3 DEF Bereit, Blockiert
<1>5. EndGelb(h) <=> EndGelb(k)
  BY <1>3 DEF EndGelb
<1> QED
  BY <1>2, <1>3, <1>4, <1>5 DEF HALBleibt, h

\* The HAL wakes up without forgetting a command for the lamp.
LEMMA GeschlafenBleibt ==
  ASSUME NEW a \in Anlagen, NEW k \in Aktor, Bereit(a, k)
  PROVE  HALBleibt(a, k, Geschlafen(a, k))
<1> DEFINE wach == [k EXCEPT !.uhren = {u - 1 : u \in k.uhren \ {1}}]
           zu == [wach EXCEPT !.offen = FALSE]
           auf == [durchlassenAuswerfer(wach) EXCEPT !.wartend = <<>>]
<1>1. HALBleibt(a, k, wach)
  BY WachBleibt
<1>2. /\ 1 \notin k.uhren => Geschlafen(a, k) = wach
      /\ 1 \in k.uhren /\ a = 1 => Geschlafen(a, k) = zu
      /\ 1 \in k.uhren /\ a = 2 => Geschlafen(a, k) = Befehle(2, auf, k.wartend)
  BY DEF Geschlafen, Anlagen
<1>3. wach \in Aktor /\ wach.rutsche = k.rutsche /\ wach.gelb = k.gelb /\ wach.wartend = k.wartend
  BY <1>1 DEF HALBleibt, Aktor
<1> HIDE DEF wach
<1>4. CASE a = 1
  <2>1. zu \in Aktor /\ zu.rutsche = k.rutsche /\ zu.gelb = k.gelb /\ zu.wartend = k.wartend
    BY <1>3 DEF Aktor
  <2>2. k.wartend = <<>>
    BY <1>4 DEF Bereit, Blockiert
  <2> HIDE DEF zu
  <2>3. HALBleibt(a, k, zu)
    BY <2>1, <2>2 DEF HALBleibt, Bereit, EndGelb
  <2> QED
    BY <1>1, <1>2, <1>4, <2>3
<1>5. CASE a = 2
  <2>1. auf \in Aktor /\ auf.rutsche = k.rutsche /\ auf.gelb = k.gelb /\ auf.wartend = <<>>
    <3>1. <<>> \in Seq(Befehlspuls)
      OBVIOUS
    <3> QED
      BY <1>3, <3>1 DEF durchlassenAuswerfer, Aktor
  <2> HIDE DEF auf
  <2>2. Bereit(2, auf)
    BY <2>1 DEF Bereit
  <2>3. k.wartend \in Seq(Puls) /\ 2 \in Anlagen /\ k.gelb \in BOOLEAN
    BY WartendTyp DEF Anlagen
  <2>4. EndGelb(auf) <=> k.gelb
    BY <2>1, <2>3, GelbLeer DEF EndGelb
  <2>5. Befehle(2, auf, k.wartend) \in Aktor
    BY <2>1, <2>3, BefehleTyp
  <2>6. /\ Bereit(2, Befehle(2, auf, k.wartend))
        /\ Befehle(2, auf, k.wartend).rutsche = auf.rutsche
        /\ EndGelb(Befehle(2, auf, k.wartend)) <=> Gelb(EndGelb(auf), k.wartend)
    BY <2>1, <2>2, <2>3, BefehleGelb
  <2>7. EndGelb(auf) = k.gelb
    BY <2>3, <2>4 DEF EndGelb, Gelb, Letztes
  <2>8. EndGelb(Befehle(2, auf, k.wartend)) <=> EndGelb(k)
    <3>1. Gelb(EndGelb(auf), k.wartend) <=> Gelb(k.gelb, k.wartend)
      BY <2>7
    <3> QED
      BY <2>6, <3>1 DEF EndGelb
  <2>9. HALBleibt(2, k, Befehle(2, auf, k.wartend))
    BY <2>1, <2>5, <2>6, <2>8 DEF HALBleibt
  <2> QED
    BY <1>1, <1>2, <1>5, <2>9
<1> QED
  BY <1>4, <1>5 DEF Anlagen

\* The slide counts: it is reported as full when the count passes RutschenZeit.
LEMMA RutscheGezaehltBleibt ==
  ASSUME NEW a \in Anlagen, NEW k \in Aktor, Bereit(a, k)
  PROVE  LET h == RutscheGezaehlt(k)
         IN  /\ h \in Aktor /\ Bereit(a, h) /\ (EndGelb(h) <=> EndGelb(k))
             /\ h.rutsche > RutschenZeit <=> k.rutsche > RutschenZeit \/ k.rutsche = RutschenZeit
<1> DEFINE g == [k EXCEPT !.rutsche = k.rutsche + 1]
<1>1. RutschenZeit \in Nat \ {0} /\ k.rutsche \in 0..(RutschenZeit + 1)
  BY SortieranlageAnnahme DEF Aktor
<1>2. CASE k.rutsche \in 1..RutschenZeit
  <2>1. g \in Aktor /\ g.rutsche = k.rutsche + 1 /\ g.gelb = k.gelb /\ g.wartend = k.wartend
        /\ g.offen = k.offen
    BY <1>1, <1>2 DEF Aktor
  <2>2. RutscheGezaehlt(k) = g
    BY <1>2 DEF RutscheGezaehlt
  <2>3. g.rutsche > RutschenZeit <=> k.rutsche > RutschenZeit \/ k.rutsche = RutschenZeit
    BY <1>1, <1>2, <2>1
  <2> HIDE DEF g
  <2>4. Bereit(a, g) /\ (EndGelb(g) <=> EndGelb(k))
    BY <2>1 DEF Bereit, Blockiert, EndGelb
  <2> QED
    BY <2>1, <2>2, <2>3, <2>4
<1>3. CASE ~(k.rutsche \in 1..RutschenZeit)
  <2>1. RutscheGezaehlt(k) = k /\ k.rutsche # RutschenZeit
    BY <1>1, <1>3 DEF RutscheGezaehlt
  <2> QED
    BY <2>1
<1> QED
  BY <1>2, <1>3

\* Machine g has sent its pulses to the HAL, which leads from h to k.
Uebergeben(a, g, h, k) ==
  LET f == [g EXCEPT !.aus = <<>>]
  IN  /\ f \in Maschine /\ Fertig(a, f) /\ Stimmig(EndGelb(k), f)
      /\ k \in Aktor /\ Bereit(a, k) /\ k.rutsche = h.rutsche

LEMMA UebernehmenStimmt ==
  ASSUME NEW a \in Anlagen, NEW g \in Maschine, ~g.exit, g.d.festo = a, g.d.anzahlWS >= 0,
         NEW h \in Aktor, Bereit(a, h), Stimmig(EndGelb(h), g)
  PROVE  Uebergeben(a, g, h, Befehle(a, h, g.aus))
<1> DEFINE k == Befehle(a, h, g.aus)
           f == [g EXCEPT !.aus = <<>>]
<1>1. g.aus \in Seq(Puls)
  BY GesendetIstPuls DEF Maschine
<1>2. k \in Aktor
  BY <1>1, BefehleTyp
<1>3. Bereit(a, k) /\ k.rutsche = h.rutsche /\ (EndGelb(k) <=> Gelb(EndGelb(h), g.aus))
  BY <1>1, BefehleGelb
<1>4. /\ f \in Maschine /\ f.aus = <<>> /\ f.exit = g.exit /\ f.d = g.d
      /\ f.zustand = g.zustand /\ f.bz = g.bz /\ f.warn = g.warn
  <2>1. <<>> \in Seq(Gesendet)
    OBVIOUS
  <2> QED
    BY <2>1 DEF Maschine
<1> HIDE DEF k, f
<1>5. Gelb(EndGelb(k), <<>>) <=> EndGelb(k)
  <2>1. EndGelb(k) \in BOOLEAN
    BY DEF EndGelb, Gelb, Letztes
  <2> QED
    BY <2>1, GelbLeer
<1>6. LampeWieWarnung(EndGelb(k), f)
  BY <1>3, <1>4, <1>5 DEF LampeWieWarnung, Stimmig
<1>7. WarnungWieRutsche(f)
  BY <1>4 DEF WarnungWieRutsche, Stimmig
<1> QED
  BY <1>2, <1>3, <1>4, <1>6, <1>7 DEF Uebergeben, Fertig, Stimmig, k, f

-----------------------------------------------------------------------------
(***************************************************************************)
(* The dispatchers.                                                        *)
(***************************************************************************)
\* What the state machine or a sensor sends says nothing of a slide.
LEMMA NeutralVonHier ==
  ASSUME NEW a \in Anlagen, NEW s \in Seq(Gesendet)
  PROVE  /\ s \in Seq(Puls) /\ \A i \in 1..Len(s) : VonHier(a, s[i])
         /\ \A z \in Anlagen : \A i \in 1..Len(s) : s[i].sig # VollPuls(z) /\ s[i].sig # FreiPuls(z)
<1>1. s \in Seq(Puls)
  BY GesendetIstPuls
<1>2. ASSUME NEW i \in 1..Len(s)
      PROVE  s[i] \in Puls /\ s[i].sig \notin RutscheSignale
  BY <1>2 DEF Gesendet
<1>3. \A z \in Anlagen : VollPuls(z) \in RutscheSignale /\ FreiPuls(z) \in RutscheSignale
  BY DEF VollPuls, FreiPuls, RutscheSignale
<1> QED
  BY <1>1, <1>2, <1>3 DEF VonHier

\* The channels after plant a's dispatcher has passed on s: what plant z takes
\* its slide to be changes only by the last pulse of its own slide.
Verteilt(v, a, z, K, s, L) ==
  /\ L[z] \in Seq(Puls) /\ FuerAlle(z, L[z])
  /\ Voll(z, v, L[z])
       <=> IF z = a THEN Letztes(Voll(z, v, K[z]), s, Len(s), VollPuls(a), FreiPuls(a))
           ELSE Voll(z, v, K[z])

LEMMA ZustellenVoll ==
  ASSUME NEW v \in BOOLEAN, NEW a \in Anlagen, NEW z \in Anlagen,
         NEW K \in [Anlagen -> Seq(Puls)], FuerAlle(z, K[z]), NEW s \in Seq(Puls),
         \A i \in 1..Len(s) : VonHier(a, s[i])
  PROVE  Verteilt(v, a, z, K, s, Zustellen(K, a, s))
<1>1. Zustellen(K, a, s) \in [Anlagen -> Seq(Puls)]
  BY ZustellenTyp
<1>2. Zustellen(K, a, s)[z] = KanalNach(z, K[z], a, s)
  BY DEF Zustellen
<1>3. K[z] \in Seq(Puls)
  OBVIOUS
<1> QED
  BY <1>1, <1>2, <1>3, KanalVoll DEF Verteilt

\* Pulses that say nothing of a slide leave the channels as full as they were.
LEMMA ZustellenNeutral ==
  ASSUME NEW v \in BOOLEAN, NEW a \in Anlagen, NEW z \in Anlagen,
         NEW K \in [Anlagen -> Seq(Puls)], FuerAlle(z, K[z]), NEW s \in Seq(Gesendet)
  PROVE  LET L == Zustellen(K, a, s)
         IN  /\ L \in [Anlagen -> Seq(Puls)] /\ FuerAlle(z, L[z])
             /\ Voll(z, v, L[z]) <=> Voll(z, v, K[z])
<1> DEFINE L == Zustellen(K, a, s)
<1>1. /\ s \in Seq(Puls) /\ \A i \in 1..Len(s) : VonHier(a, s[i])
      /\ \A i \in 1..Len(s) : s[i].sig # VollPuls(a) /\ s[i].sig # FreiPuls(a)
  BY NeutralVonHier
<1>2. Verteilt(v, a, z, K, s, L)
  BY <1>1, ZustellenVoll
<1>3. L \in [Anlagen -> Seq(Puls)]
  BY <1>1, ZustellenTyp
<1>4. Letztes(Voll(z, v, K[z]), s, Len(s), VollPuls(a), FreiPuls(a)) <=> Voll(z, v, K[z])
  <2>1. Voll(z, v, K[z]) \in BOOLEAN /\ Len(s) \in Nat
    BY <1>1 DEF Voll, Letztes
  <2> QED
    BY <1>1, <2>1, LetztesNeutral
<1> HIDE DEF L
<1>5. Voll(z, v, L[z]) <=> Voll(z, v, K[z])
  BY <1>2, <1>4 DEF Verteilt
<1> QED
  BY <1>2, <1>3, <1>5 DEF Verteilt, L

LEMMA MeldungTyp ==
  ASSUME NEW sig \in Signale, sig # "S_UEBERGABE_WS"
  PROVE  Meldung(sig) \in Puls /\ (sig \notin RutscheSignale => Meldung(sig) \in Gesendet)
  BY DEF Meldung, Puls, Gesendet

\* What plant a reports in a tick: the slide last, when it has become full.
LEMMA TickPulse ==
  ASSUME NEW a \in Anlagen, NEW w \in BOOLEAN, NEW t \in Seq(Gesendet)
  PROVE  LET s == t \o RutscheVoll(a)
         IN  /\ s \in Seq(Puls) /\ \A i \in 1..Len(s) : VonHier(a, s[i])
             /\ Letztes(w, s, Len(s), VollPuls(a), FreiPuls(a))
                  <=> w \/ aktor[a].rutsche = RutschenZeit
<1> DEFINE s == t \o RutscheVoll(a)
           m == Meldung(VollPuls(a))
           n == Len(t)
<1>1. /\ t \in Seq(Puls) /\ n \in Nat /\ \A i \in 1..n : VonHier(a, t[i])
      /\ \A i \in 1..n : t[i].sig # VollPuls(a) /\ t[i].sig # FreiPuls(a)
  BY NeutralVonHier
<1>2. Letztes(w, t, n, VollPuls(a), FreiPuls(a)) <=> w
  BY <1>1, LetztesNeutral
<1>3. VollPuls(a) # FreiPuls(a) /\ VollPuls(a) \in RutscheSignale /\ VollPuls(a) \in Signale
      /\ VollPuls(a) # "S_UEBERGABE_WS"
  BY DEF VollPuls, FreiPuls, RutscheSignale, Signale
<1>4. CASE aktor[a].rutsche = RutschenZeit
  <2>1. RutscheVoll(a) = <<m>>
    BY <1>4 DEF RutscheVoll, VollPuls
  <2>2. m \in Puls /\ m.sig = VollPuls(a) /\ VonHier(a, m)
    BY <1>3, MeldungTyp DEF Meldung, VonHier
  <2> HIDE DEF m
  <2>3. s \in Seq(Puls) /\ Len(s) = n + 1 /\ s[n + 1] = m /\ \A i \in 1..n : s[i] = t[i]
    BY <1>1, <2>1, <2>2
  <2> HIDE DEF s, n
  <2>4. Letztes(w, s, n + 1, VollPuls(a), FreiPuls(a))
    BY <1>1, <1>3, <2>2, <2>3, LetztesWeiter
  <2>5. ASSUME NEW i \in 1..Len(s) PROVE VonHier(a, s[i])
    <3>1. i \in 1..n \/ i = n + 1
      BY <1>1, <2>3, <2>5
    <3> QED
      BY <1>1, <2>2, <2>3, <3>1
  <2> QED
    BY <1>4, <2>3, <2>4, <2>5 DEF s
<1>5. CASE aktor[a].rutsche # RutschenZeit
  <2>1. RutscheVoll(a) = <<>>
    BY <1>5 DEF RutscheVoll
  <2>2. s = t
    BY <1>1, <2>1
  <2> QED
    BY <1>1, <1>2, <1>5, <2>2
<1> QED
  BY <1>4, <1>5

LEMMA TickKanal ==
  ASSUME NEW v \in BOOLEAN, NEW z \in Anlagen, NEW K \in [Anlagen -> Seq(Puls)],
         FuerAlle(z, K[z]), NEW t \in [Anlagen -> Seq(Gesendet)]
  PROVE  LET L == Zustellen(Zustellen(K, 1, t[1] \o RutscheVoll(1)), 2, t[2] \o RutscheVoll(2))
         IN  /\ L \in [Anlagen -> Seq(Puls)] /\ FuerAlle(z, L[z])
             /\ Voll(z, v, L[z]) <=> Voll(z, v, K[z]) \/ aktor[z].rutsche = RutschenZeit
<1> DEFINE s1 == t[1] \o RutscheVoll(1)
           s2 == t[2] \o RutscheVoll(2)
           M == Zustellen(K, 1, s1)
           L == Zustellen(M, 2, s2)
           Jetzt == aktor[z].rutsche = RutschenZeit
<1>1. 1 \in Anlagen /\ 2 \in Anlagen /\ (z = 1 \/ z = 2)
  BY DEF Anlagen
<1>2. t[1] \in Seq(Gesendet) /\ t[2] \in Seq(Gesendet)
  BY <1>1
<1>3. \A w \in BOOLEAN :
        /\ s1 \in Seq(Puls) /\ \A i \in 1..Len(s1) : VonHier(1, s1[i])
        /\ Letztes(w, s1, Len(s1), VollPuls(1), FreiPuls(1))
             <=> w \/ aktor[1].rutsche = RutschenZeit
  BY <1>1, <1>2, TickPulse
<1>4. \A w \in BOOLEAN :
        /\ s2 \in Seq(Puls) /\ \A i \in 1..Len(s2) : VonHier(2, s2[i])
        /\ Letztes(w, s2, Len(s2), VollPuls(2), FreiPuls(2))
             <=> w \/ aktor[2].rutsche = RutschenZeit
  BY <1>1, <1>2, TickPulse
<1> HIDE DEF s1, s2
<1>5. M \in [Anlagen -> Seq(Puls)] /\ Verteilt(v, 1, z, K, s1, M)
  BY <1>1, <1>3, ZustellenTyp, ZustellenVoll
<1>6. L \in [Anlagen -> Seq(Puls)] /\ Verteilt(v, 2, z, M, s2, L)
  <2>1. FuerAlle(z, M[z])
    BY <1>5 DEF Verteilt
  <2> HIDE DEF M
  <2> QED
    BY <1>1, <1>4, <1>5, <2>1, ZustellenTyp, ZustellenVoll
<1> HIDE DEF M, L
<1>7. Voll(z, v, K[z]) \in BOOLEAN /\ Voll(z, v, M[z]) \in BOOLEAN
  BY DEF Voll, Letztes
<1>8. Voll(z, v, M[z]) <=> Voll(z, v, K[z]) \/ (z = 1 /\ Jetzt)
  BY <1>1, <1>3, <1>5, <1>7 DEF Verteilt
<1>9. Voll(z, v, L[z]) <=> Voll(z, v, M[z]) \/ (z = 2 /\ Jetzt)
  BY <1>1, <1>4, <1>6, <1>7 DEF Verteilt
<1>10. FuerAlle(z, L[z])
  BY <1>6 DEF Verteilt
<1> QED
  BY <1>1, <1>6, <1>8, <1>9, <1>10 DEF L, M, s1, s2

LEMMA UebergebenPasst ==
  ASSUME NEW a \in Anlagen, NEW g, g \in Maschine, NEW h, NEW k, Uebergeben(a, g, h, k),
         NEW K \in Seq(Puls), FuerAlle(a, K),
         Voll(a, g.d.rutsche_voll, K) <=> h.rutsche > RutschenZeit
  PROVE  Passt(a, [g EXCEPT !.aus = <<>>], K, k)
<1> DEFINE f == [g EXCEPT !.aus = <<>>]
<1>1. f.d = g.d
  BY DEF Maschine
<1>2. f \in Maschine /\ Fertig(a, f) /\ Stimmig(EndGelb(k), f)
      /\ k \in Aktor /\ Bereit(a, k) /\ k.rutsche = h.rutsche
  BY DEF Uebergeben
<1> HIDE DEF f
<1>3. Voll(a, f.d.rutsche_voll, K) <=> k.rutsche > RutschenZeit
  BY <1>1, <1>2
<1> QED
  BY <1>2, <1>3 DEF Passt, Stimmig, f

-----------------------------------------------------------------------------
(***************************************************************************)
(* The steps.                                                              *)
(***************************************************************************)
LEMMA NeuerAktorTyp ==
  ASSUME NEW a \in Anlagen
  PROVE  LET h == NeuerAktor(a)
         IN  h \in Aktor /\ Bereit(a, h) /\ h.rutsche = 0 /\ ~EndGelb(h)
<1> DEFINE h == NeuerAktor(a)
<1>1. 0 \in 0..(RutschenZeit + 1) /\ <<>> \in Seq(Befehlspuls)
  BY SortieranlageAnnahme
<1>2. h \in Aktor /\ h.wartend = <<>> /\ h.gelb = FALSE /\ h.rutsche = 0
  BY <1>1 DEF NeuerAktor, Aktor
<1> HIDE DEF h
<1>3. Bereit(a, h)
  BY <1>2 DEF Bereit
<1>4. ~EndGelb(h)
  <2>1. EndGelb(h) <=> Gelb(FALSE, <<>>)
    BY <1>2 DEF EndGelb
  <2> QED
    BY <2>1, GelbLeer
<1> QED
  BY <1>2, <1>3, <1>4 DEF h

LEMMA NeueAnlageTyp ==
  ASSUME NEW a \in Anlagen
  PROVE  LET g == NeueAnlage(a)
         IN  /\ g \in Maschine /\ g.aus = <<>> /\ ~g.exit
             /\ g.d.festo = a /\ g.d.anzahlWS = 0 /\ ~g.d.rutsche_voll
<1>1. NeueDaten(a) \in Daten /\ <<>> \in Seq(Gesendet)
  BY NeueDatenTyp
<1>2. NeueDaten(a).festo = a /\ NeueDaten(a).anzahlWS = 0 /\ ~NeueDaten(a).rutsche_voll
  BY DEF NeueDaten
<1> QED
  BY <1>1, <1>2 DEF NeueAnlage, Maschine, LSAZustand, LSHZustand, LSWZustand, LSEZustand,
                    WarnZustand

LEMMA LeererKanal ==
  ASSUME NEW a \in Anlagen, NEW v \in BOOLEAN
  PROVE  <<>> \in Seq(Puls) /\ FuerAlle(a, <<>>) /\ (Voll(a, v, <<>>) <=> v)
<1>1. Len(<<>>) = 0 /\ <<>> \in Seq(Puls)
  OBVIOUS
<1> QED
  BY <1>1, LetztesAnfang DEF Voll, FuerAlle

LEMMA InitPasst ==
  ASSUME NEW a \in Anlagen
  PROVE  LET k == AufWSWarten_entry(NeueAnlage(a))
         IN  Passt(a, [k EXCEPT !.aus = <<>>], <<>>, Befehle(a, NeuerAktor(a), k.aus))
<1> DEFINE g == NeueAnlage(a)
           k == AufWSWarten_entry(g)
           h == NeuerAktor(a)
           v == EndGelb(h)
<1>1. g \in Maschine /\ g.aus = <<>> /\ ~g.exit
      /\ g.d.festo = a /\ g.d.anzahlWS = 0 /\ ~g.d.rutsche_voll
  BY NeueAnlageTyp
<1>2. h \in Aktor /\ Bereit(a, h) /\ h.rutsche = 0 /\ ~EndGelb(h)
  BY NeuerAktorTyp
<1> HIDE DEF g, h
<1>3. v \in BOOLEAN /\ ~v
  BY <1>2 DEF EndGelb, Gelb, Letztes
<1> HIDE DEF v
<1>4. ~Gelb(v, g.aus)
  BY <1>1, <1>3, GelbLeer
<1>5. Bleibt(g, k) /\ Stimmig(v, k)
  BY <1>1, <1>3, <1>4, AufWSWartenEntry
<1> HIDE DEF k
<1>6. /\ k \in Maschine /\ ~k.exit /\ k.d.festo = a /\ k.d.anzahlWS >= 0
      /\ k.d.rutsche_voll = g.d.rutsche_voll
  BY <1>1, <1>5 DEF Bleibt
<1>7. Uebergeben(a, k, h, Befehle(a, h, k.aus))
  BY <1>2, <1>5, <1>6, UebernehmenStimmt DEF v
<1>8. <<>> \in Seq(Puls) /\ FuerAlle(a, <<>>) /\ (Voll(a, k.d.rutsche_voll, <<>>) <=> k.d.rutsche_voll)
  <2>1. k.d.rutsche_voll \in BOOLEAN
    BY <1>6 DEF Maschine, Daten
  <2> QED
    BY <2>1, LeererKanal
<1>9. ~(h.rutsche > RutschenZeit) /\ ~k.d.rutsche_voll
  BY <1>1, <1>2, <1>6, SortieranlageAnnahme
<1> QED
  BY <1>6, <1>7, <1>8, <1>9, UebergebenPasst DEF g, k, h

LEMMA ImLagerTyp == ImLager \in Werkstuecke
  BY DEF ImLager, Werkstuecke, WerkstueckTyp

LEMMA InitIInv == Init => IInv
<1> SUFFICES ASSUME Init PROVE IInv
  OBVIOUS
<1>1. \A a \in Anlagen : Passt(a, anlage[a], kanal[a], aktor[a])
  BY InitPasst DEF Init
<1>2. ws \in [Plaetze -> Werkstuecke] /\ zuBewegen \subseteq Plaetze /\ naechster \in 0..3
      /\ verloren \in BOOLEAN
  <2>1. /\ ws = [w \in Plaetze |-> ImLager] /\ zuBewegen = {} /\ naechster = 0
        /\ verloren = FALSE
    BY DEF Init
  <2>2. ws \in [Plaetze -> Werkstuecke]
    BY <2>1, ImLagerTyp
  <2>3. verloren \in BOOLEAN
    BY <2>1
  <2>4. zuBewegen \subseteq Plaetze /\ naechster \in 0..3
    BY <2>1
  <2> QED
    BY <2>2, <2>3, <2>4
<1>3. \A a \in Anlagen : anlage[a] \in Maschine /\ kanal[a] \in Seq(Puls) /\ aktor[a] \in Aktor
  BY <1>1 DEF Passt
<1>4. /\ anlage = [a \in Anlagen |-> anlage[a]] /\ kanal = [a \in Anlagen |-> kanal[a]]
      /\ aktor = [a \in Anlagen |-> aktor[a]]
  BY DEF Init
<1>5. anlage \in [Anlagen -> Maschine] /\ kanal \in [Anlagen -> Seq(Puls)]
      /\ aktor \in [Anlagen -> Aktor]
  BY <1>3, <1>4
<1> QED
  BY <1>1, <1>2, <1>5 DEF IInv, Typen

\* The workpieces remain workpieces.
BandTyp ==
  /\ ws \in [Plaetze -> Werkstuecke] /\ zuBewegen \subseteq Plaetze
  /\ naechster \in 0..3 /\ verloren \in BOOLEAN

\* A sensor of plant b sends s; no machine or actuator changes.
LEMMA SensorSchritt ==
  ASSUME IInv, NEW b \in Anlagen, NEW s \in Seq(Gesendet), BandTyp',
         kanal' = Zustellen(kanal, b, s), anlage' = anlage, aktor' = aktor
  PROVE  IInv'
<1>1. kanal \in [Anlagen -> Seq(Puls)]
  BY DEF IInv, Typen
<1>2. ASSUME NEW a \in Anlagen PROVE Passt(a, anlage[a], kanal'[a], aktor[a])
  <2>1. Passt(a, anlage[a], kanal[a], aktor[a])
    BY DEF IInv
  <2>2. FuerAlle(a, kanal[a]) /\ anlage[a].d.rutsche_voll \in BOOLEAN
    BY <2>1 DEF Passt, Maschine, Daten
  <2>3. /\ kanal' \in [Anlagen -> Seq(Puls)] /\ FuerAlle(a, kanal'[a])
        /\ Voll(a, anlage[a].d.rutsche_voll, kanal'[a])
             <=> Voll(a, anlage[a].d.rutsche_voll, kanal[a])
    BY <1>1, <2>2, ZustellenNeutral
  <2>4. kanal'[a] \in Seq(Puls)
    BY <2>3
  <2> QED
    BY <2>1, <2>3, <2>4 DEF Passt
<1>3. kanal' \in [Anlagen -> Seq(Puls)]
  BY <1>1, NeutralVonHier, ZustellenTyp
<1>4. anlage \in [Anlagen -> Maschine] /\ aktor \in [Anlagen -> Aktor]
  BY DEF IInv, Typen
<1> QED
  BY <1>2, <1>3, <1>4 DEF IInv, Typen, BandTyp

\* The slide of plant b is blocked, freed or passed: r is the count of its light
\* barrier, and the last pulse of the slide says whether r counts as full.
LEMMA RutscheSchritt ==
  ASSUME IInv, NEW b \in Anlagen, NEW s \in Seq(Puls), \A i \in 1..Len(s) : VonHier(b, s[i]),
         NEW r \in 0..(RutschenZeit + 1), BandTyp',
         kanal' = Zustellen(kanal, b, s), anlage' = anlage,
         aktor' = [aktor EXCEPT ![b].rutsche = r],
         \A w \in BOOLEAN : (w <=> aktor[b].rutsche > RutschenZeit) =>
           (Letztes(w, s, Len(s), VollPuls(b), FreiPuls(b)) <=> r > RutschenZeit)
  PROVE  IInv'
<1>1. /\ kanal \in [Anlagen -> Seq(Puls)] /\ anlage \in [Anlagen -> Maschine]
      /\ aktor \in [Anlagen -> Aktor]
  BY DEF IInv, Typen
<1>2. kanal' \in [Anlagen -> Seq(Puls)]
  BY <1>1, ZustellenTyp
<1>3. aktor' \in [Anlagen -> Aktor]
  BY <1>1 DEF Aktor
<1>4. ASSUME NEW a \in Anlagen PROVE Passt(a, anlage[a], kanal'[a], aktor'[a])
  <2> DEFINE v == anlage[a].d.rutsche_voll
             k == aktor[a]
             h == aktor'[a]
             x == Voll(a, v, kanal[a])
  <2>1. Passt(a, anlage[a], kanal[a], k)
    BY DEF IInv
  <2>2. FuerAlle(a, kanal[a]) /\ v \in BOOLEAN
    BY <2>1 DEF Passt, Maschine, Daten
  <2>3. Verteilt(v, b, a, kanal, s, kanal')
    BY <1>1, <2>2, ZustellenVoll
  <2>4. /\ h.rutsche = IF a = b THEN r ELSE k.rutsche
        /\ h.offen = k.offen /\ h.wartend = k.wartend /\ h.gelb = k.gelb
    BY <1>1 DEF Aktor
  <2>5. h \in Aktor /\ x \in BOOLEAN
    BY <1>3 DEF Voll, Letztes
  <2> HIDE DEF v, k, h
  <2>6. x <=> k.rutsche > RutschenZeit
    BY <2>1 DEF Passt, v
  <2> HIDE DEF x
  <2>7. Voll(a, v, kanal'[a]) <=> h.rutsche > RutschenZeit
    <3>1. CASE a = b
      <4>1. Letztes(x, s, Len(s), VollPuls(b), FreiPuls(b)) <=> r > RutschenZeit
        BY <2>5, <2>6, <3>1 DEF k
      <4> QED
        BY <2>3, <2>4, <3>1, <4>1 DEF Verteilt, x
    <3>2. CASE a # b
      BY <2>3, <2>4, <2>6, <3>2 DEF Verteilt, x
    <3> QED
      BY <3>1, <3>2
  <2>8. Bereit(a, h)
    BY <2>1, <2>4 DEF Passt, Bereit, Blockiert
  <2>9. EndGelb(h) = EndGelb(k)
    BY <2>4 DEF EndGelb
  <2>10. LampeWieWarnung(EndGelb(h), anlage[a])
    BY <2>1, <2>9 DEF Passt
  <2>11. kanal'[a] \in Seq(Puls) /\ FuerAlle(a, kanal'[a])
    BY <2>3 DEF Verteilt
  <2> QED
    BY <2>1, <2>5, <2>7, <2>8, <2>10, <2>11 DEF Passt, v, h
<1> QED
  BY <1>1, <1>2, <1>3, <1>4 DEF IInv, Typen, BandTyp

LEMMA SensorPulseTyp ==
  ASSUME NEW a \in Anlagen, NEW p, NEW art
  PROVE  SensorPulse(a, p, art) \in Seq(Gesendet)
<1>1. ASSUME NEW sig \in {"S_LSA2_UB", "S_LSH_UB", "S_LSH_NUB", "S_METAL_AN", "S_LSW_UB",
                          "S_LSE1_UB", "S_LSE2_UB", "WERKSTUECK_FLACH", "WERKSTUECK_HOCH",
                          "WERKSTUECK_MIT_BOHRUNG", "WERKSTUECK_UNBEKANNT"}
      PROVE  Meldung(sig) \in Gesendet
  <2>1. sig \in Signale /\ sig \notin RutscheSignale /\ sig # "S_UEBERGABE_WS"
    BY DEF Signale, SensorSignale, WerkstueckSignale, RutscheSignale
  <2> QED
    BY <2>1, MeldungTyp
<1>2. Messung(art) \in {"WERKSTUECK_FLACH", "WERKSTUECK_HOCH", "WERKSTUECK_MIT_BOHRUNG",
                        "WERKSTUECK_UNBEKANNT"}
  BY DEF Messung
<1>3. Meldung(Messung(art)) \in Gesendet
  BY <1>1, <1>2
<1>4. \A x, y \in Gesendet : <<>> \in Seq(Gesendet) /\ <<x>> \in Seq(Gesendet)
                             /\ <<x, y>> \in Seq(Gesendet)
  OBVIOUS
<1> QED
  BY <1>1, <1>3, <1>4 DEF SensorPulse

LEMMA BandJetzt == IInv => BandTyp
  BY DEF IInv, Typen, BandTyp

LEMMA WegGenommen ==
  ASSUME BandTyp, NEW w \in Plaetze, ws' = [ws EXCEPT ![w] = ImLager]
  PROVE  ws' \in [Plaetze -> Werkstuecke]
  BY ImLagerTyp DEF BandTyp

LEMMA BewegenSchritt ==
  ASSUME IInv, NEW w \in Plaetze, Bewegen(w)
  PROVE  IInv'
<1> DEFINE p == ws[w].pos + 1
           a == IF p <= LSE[1] THEN 1 ELSE 2
           weg == IF ws[w].pos = LSW[a] /\ ~aktor[a].offen THEN "abzweig" ELSE ws[w].weg
           marke == p \in {LSA[a], LSH[a], LSHEnde[a], LSW[a], LSE[a]}
           s == SensorPulse(a, p, ws[w].art)
           neu == [ws[w] EXCEPT !.pos = p, !.weg = weg, !.halb = ws[w].halb /\ ~marke]
<1>1. BandTyp /\ ws[w] \in Werkstuecke
  BY BandJetzt DEF BandTyp
<1>2. a \in Anlagen /\ s \in Seq(Gesendet)
  BY SensorPulseTyp DEF Anlagen
<1>3. /\ kanal' = IF weg = "abzweig" THEN kanal ELSE Zustellen(kanal, a, s)
      /\ ws' = [ws EXCEPT ![w] = neu] /\ zuBewegen' = zuBewegen \ {w}
      /\ anlage' = anlage /\ aktor' = aktor /\ naechster' = naechster /\ verloren' = verloren
  <2>1. anlage' = anlage /\ aktor' = aktor /\ naechster' = naechster /\ verloren' = verloren
        /\ zuBewegen' = zuBewegen \ {w}
    BY DEF Bewegen
  <2>2. kanal' = IF weg = "abzweig" THEN kanal ELSE Zustellen(kanal, a, s)
    BY DEF Bewegen
  <2>3. ws' = [ws EXCEPT ![w] = neu]
    BY DEF Bewegen
  <2> QED
    BY <2>1, <2>2, <2>3
<1> HIDE DEF s, a
<1>4. neu \in Werkstuecke
  <2>1. p \in Nat /\ weg \in {"lager", "band", "abzweig"} /\ (ws[w].halb /\ ~marke) \in BOOLEAN
    BY <1>1 DEF Werkstuecke
  <2> HIDE DEF p, weg, marke
  <2> QED
    BY <1>1, <2>1 DEF Werkstuecke
<1> HIDE DEF neu, weg
<1>5. BandTyp'
  BY <1>1, <1>3, <1>4 DEF BandTyp
<1>6. CASE weg = "abzweig"
  BY <1>3, <1>5, <1>6 DEF IInv, Typen, BandTyp
<1>7. CASE weg # "abzweig"
  BY <1>2, <1>3, <1>5, <1>7, SensorSchritt
<1> QED
  BY <1>6, <1>7

LEMMA AuflegenSchritt ==
  ASSUME IInv, NEW w \in Plaetze, NEW art \in Arten, Auflegen(w, art)
  PROVE  IInv'
<1> DEFINE neu == [ImLager EXCEPT !.weg = "band", !.pos = LSA[1], !.art = art]
           s == <<Meldung("S_LSA1_UB")>>
<1>1. BandTyp
  BY BandJetzt
<1>2. 1 \in Anlagen /\ s \in Seq(Gesendet)
  <2>1. "S_LSA1_UB" \in Signale /\ "S_LSA1_UB" \notin RutscheSignale
    BY DEF Signale, SensorSignale, RutscheSignale
  <2> QED
    BY <2>1, MeldungTyp DEF Anlagen
<1>3. neu \in Werkstuecke
  <2>1. LSA[1] = 0 /\ art \in WerkstueckTyp
    BY SortieranlageAnnahme DEF LSA, Anlagen
  <2>2. LSA[1] \in Nat
    BY <2>1
  <2>3. ImLager \in [weg : {"lager", "band", "abzweig"}, pos : Nat, halb : BOOLEAN,
                    art : WerkstueckTyp]
    BY ImLagerTyp DEF Werkstuecke
  <2> QED
    BY <2>1, <2>2, <2>3 DEF Werkstuecke
<1>4. /\ ws' = [ws EXCEPT ![w] = neu] /\ kanal' = Zustellen(kanal, 1, s)
      /\ anlage' = anlage /\ aktor' = aktor /\ zuBewegen' = zuBewegen
      /\ naechster' = naechster /\ verloren' = verloren
  BY DEF Auflegen
<1> HIDE DEF neu, s
<1>5. BandTyp'
  BY <1>1, <1>3, <1>4 DEF BandTyp
<1> QED
  BY <1>2, <1>4, <1>5, SensorSchritt

LEMMA EntnehmenSchritt ==
  ASSUME IInv, NEW w \in Plaetze, Entnehmen(w)
  PROVE  IInv'
<1> DEFINE s == <<Meldung("S_LSE2_NUB")>>
<1>1. BandTyp
  BY BandJetzt
<1>2. 2 \in Anlagen /\ s \in Seq(Gesendet)
  <2>1. "S_LSE2_NUB" \in Signale /\ "S_LSE2_NUB" \notin RutscheSignale
    BY DEF Signale, SensorSignale, RutscheSignale
  <2> QED
    BY <2>1, MeldungTyp DEF Anlagen
<1>3. /\ ws' = [ws EXCEPT ![w] = ImLager] /\ kanal' = Zustellen(kanal, 2, s)
      /\ anlage' = anlage /\ aktor' = aktor /\ zuBewegen' = zuBewegen \ {w}
      /\ naechster' = (naechster + 1) % 4 /\ verloren' = verloren
  BY DEF Entnehmen
<1> HIDE DEF s
<1>4. ws' \in [Plaetze -> Werkstuecke] /\ naechster' \in 0..3
  <2>1. ws' \in [Plaetze -> Werkstuecke]
    BY <1>1, <1>3, WegGenommen
  <2>2. (naechster + 1) % 4 \in 0..3
    BY <1>1 DEF BandTyp
  <2> QED
    BY <1>3, <2>1, <2>2
<1>5. BandTyp'
  BY <1>1, <1>3, <1>4 DEF BandTyp
<1> QED
  BY <1>2, <1>3, <1>5, SensorSchritt

LEMMA WegnehmenSchritt ==
  ASSUME IInv, NEW w \in Plaetze, Wegnehmen(w)
  PROVE  IInv'
<1>1. BandTyp
  BY BandJetzt
<1>2. /\ ws' = [ws EXCEPT ![w] = ImLager] /\ verloren' = TRUE
      /\ UNCHANGED <<anlage, kanal, aktor, zuBewegen, naechster>>
  BY DEF Wegnehmen
<1>3. ws' \in [Plaetze -> Werkstuecke] /\ verloren' \in BOOLEAN
  BY <1>1, <1>2, WegGenommen
<1> QED
  BY <1>2, <1>3 DEF IInv, Typen

LEMMA RutscheFreiTyp ==
  ASSUME NEW a \in Anlagen
  PROVE  /\ RutscheFrei(a) \in Puls /\ RutscheFrei(a).sig = FreiPuls(a)
         /\ VonHier(a, RutscheFrei(a)) /\ FreiPuls(a) # VollPuls(a)
<1>1. FreiPuls(a) \in Signale /\ FreiPuls(a) # "S_UEBERGABE_WS" /\ FreiPuls(a) # VollPuls(a)
  BY DEF FreiPuls, VollPuls, Signale, RutscheSignale
<1>2. RutscheFrei(a) = Meldung(FreiPuls(a)) /\ Meldung(FreiPuls(a)).sig = FreiPuls(a)
  BY DEF RutscheFrei, FreiPuls, Meldung
<1> QED
  BY <1>1, <1>2, MeldungTyp DEF VonHier

LEMMA RutscheLeerenSchritt ==
  ASSUME IInv, NEW a \in Anlagen, RutscheLeeren(a)
  PROVE  IInv'
<1> DEFINE s == <<RutscheFrei(a)>>
<1>1. BandTyp
  BY BandJetzt
<1>2. /\ RutscheFrei(a) \in Puls /\ RutscheFrei(a).sig = FreiPuls(a)
      /\ VonHier(a, RutscheFrei(a)) /\ FreiPuls(a) # VollPuls(a)
  BY RutscheFreiTyp
<1>3. s \in Seq(Puls) /\ Len(s) = 1 /\ s[1] = RutscheFrei(a)
  BY <1>2
<1>4. /\ aktor' = [aktor EXCEPT ![a].rutsche = 0] /\ kanal' = Zustellen(kanal, a, s)
      /\ anlage' = anlage /\ UNCHANGED <<ws, zuBewegen, naechster, verloren>>
  BY DEF RutscheLeeren
<1> HIDE DEF s
<1>5. \A w \in BOOLEAN : ~Letztes(w, s, Len(s), VollPuls(a), FreiPuls(a))
  BY <1>2, <1>3, LetztesEins
<1>6. 0 \in 0..(RutschenZeit + 1) /\ ~(0 > RutschenZeit)
  BY SortieranlageAnnahme
<1>7. \A i \in 1..Len(s) : VonHier(a, s[i])
  BY <1>2, <1>3
<1>8. BandTyp'
  BY <1>1, <1>4 DEF BandTyp
<1> QED
  BY <1>3, <1>4, <1>5, <1>6, <1>7, <1>8, RutscheSchritt

\* What a workpiece tells at the light barrier of slide a, bleibt: it stays there.
LEMMA RutschenPulse ==
  ASSUME NEW a \in Anlagen, NEW frei \in BOOLEAN, NEW bleibt \in BOOLEAN, NEW w \in BOOLEAN
  PROVE  LET s == (IF frei THEN <<Meldung("S_LSR_UB")>> ELSE <<>>)
                  \o (IF frei /\ ~bleibt THEN <<RutscheFrei(a)>> ELSE <<>>)
         IN  /\ s \in Seq(Puls) /\ \A i \in 1..Len(s) : VonHier(a, s[i])
             /\ Letztes(w, s, Len(s), VollPuls(a), FreiPuls(a)) <=> w /\ (frei => bleibt)
<1> DEFINE u == Meldung("S_LSR_UB")
           f == RutscheFrei(a)
           s == (IF frei THEN <<u>> ELSE <<>>) \o (IF frei /\ ~bleibt THEN <<f>> ELSE <<>>)
<1>1. f \in Puls /\ f.sig = FreiPuls(a) /\ VonHier(a, f) /\ FreiPuls(a) # VollPuls(a)
  BY RutscheFreiTyp
<1>2. u \in Puls /\ VonHier(a, u) /\ u.sig # FreiPuls(a) /\ u.sig # VollPuls(a)
  <2>1. "S_LSR_UB" \in Signale /\ "S_LSR_UB" \notin RutscheSignale
        /\ "S_LSR_UB" # FreiPuls(a) /\ "S_LSR_UB" # VollPuls(a)
    BY DEF Signale, SensorSignale, RutscheSignale, FreiPuls, VollPuls
  <2> QED
    BY <2>1, MeldungTyp DEF Meldung, VonHier
<1> HIDE DEF u, f
<1>3. CASE ~frei
  <2>1. s = <<>>
    BY <1>3
  <2>2. s \in Seq(Puls) /\ Len(s) = 0
    BY <2>1
  <2> HIDE DEF s
  <2>3. Letztes(w, s, 0, VollPuls(a), FreiPuls(a)) <=> w
    BY LetztesAnfang
  <2> QED
    BY <1>3, <2>2, <2>3 DEF s, u, f
<1>4. CASE frei /\ bleibt
  <2>1. s = <<u>>
    BY <1>4
  <2>2. s \in Seq(Puls) /\ Len(s) = 1 /\ s[1] = u
    BY <1>2, <2>1
  <2> HIDE DEF s
  <2>3. Letztes(w, s, 1, VollPuls(a), FreiPuls(a)) <=> w
    BY <1>1, <1>2, <2>2, LetztesEins
  <2>4. \A i \in 1..Len(s) : VonHier(a, s[i])
    BY <1>2, <2>2
  <2> QED
    BY <1>4, <2>2, <2>3, <2>4 DEF s, u, f
<1>5. CASE frei /\ ~bleibt
  <2>1. s = <<u>> \o <<f>>
    BY <1>5
  <2>2. s \in Seq(Puls) /\ Len(s) = 2 /\ s[1] = u /\ s[2] = f
    BY <1>1, <1>2, <2>1
  <2> HIDE DEF s
  <2>3. ~Letztes(w, s, 2, VollPuls(a), FreiPuls(a))
    <3>1. 1 \in Nat /\ 1 + 1 = 2
      OBVIOUS
    <3>2. Letztes(w, s, 1 + 1, VollPuls(a), FreiPuls(a))
            <=> \/ s[1 + 1].sig = VollPuls(a)
                \/ s[1 + 1].sig # FreiPuls(a) /\ Letztes(w, s, 1, VollPuls(a), FreiPuls(a))
      BY <1>1, <3>1, LetztesWeiter
    <3> QED
      BY <1>1, <2>2, <3>1, <3>2
  <2>4. \A i \in 1..Len(s) : VonHier(a, s[i])
    BY <1>1, <1>2, <2>2
  <2> QED
    BY <1>5, <2>2, <2>3, <2>4 DEF s, u, f
<1> QED
  BY <1>3, <1>4, <1>5

LEMMA RutschenSchritt ==
  ASSUME IInv, NEW w \in Plaetze, Rutschen(w)
  PROVE  IInv'
<1> DEFINE a == AnlageVon(w)
           frei == aktor[a].rutsche = 0
           s(bleibt) == (IF frei THEN <<Meldung("S_LSR_UB")>> ELSE <<>>)
                        \o (IF frei /\ ~bleibt THEN <<RutscheFrei(a)>> ELSE <<>>)
           r(bleibt) == IF frei /\ bleibt THEN 1 ELSE aktor[a].rutsche
<1>1. BandTyp
  BY BandJetzt
<1>2. a \in Anlagen
  BY DEF AnlageVon, Anlagen
<1>3. aktor \in [Anlagen -> Aktor] /\ aktor[a] \in Aktor /\ aktor[a].rutsche \in 0..(RutschenZeit + 1)
  BY <1>2 DEF IInv, Typen, Aktor
<1>4. PICK bleibt \in BOOLEAN :
        /\ kanal' = Zustellen(kanal, a, s(bleibt))
        /\ aktor' = IF frei /\ bleibt THEN [aktor EXCEPT ![a].rutsche = 1] ELSE aktor
  BY DEF Rutschen
<1>5. /\ ws' = [ws EXCEPT ![w] = ImLager] /\ zuBewegen' = zuBewegen \ {w}
      /\ anlage' = anlage /\ naechster' = naechster /\ verloren' = verloren
  BY DEF Rutschen
<1>6. BandTyp'
  BY <1>1, <1>5, WegGenommen DEF BandTyp
<1>7. aktor' = [aktor EXCEPT ![a].rutsche = r(bleibt)]
  <2>1. CASE frei /\ bleibt
    BY <1>4, <2>1
  <2>2. CASE ~(frei /\ bleibt)
    <3>1. [aktor[a] EXCEPT !.rutsche = aktor[a].rutsche] = aktor[a]
      BY <1>3 DEF Aktor
    <3>2. [aktor EXCEPT ![a] = aktor[a]] = aktor
      BY <1>2, <1>3
    <3> QED
      BY <1>4, <2>2, <3>1, <3>2
  <2> QED
    BY <2>1, <2>2
<1>8. \A v \in BOOLEAN :
        /\ s(bleibt) \in Seq(Puls) /\ \A i \in 1..Len(s(bleibt)) : VonHier(a, s(bleibt)[i])
        /\ Letztes(v, s(bleibt), Len(s(bleibt)), VollPuls(a), FreiPuls(a))
             <=> v /\ (frei => bleibt)
  <2>1. frei \in BOOLEAN
    OBVIOUS
  <2> HIDE DEF a
  <2> QED
    BY <1>2, <2>1, RutschenPulse, ZenonT(60)
<1>9. /\ r(bleibt) \in 0..(RutschenZeit + 1)
      /\ \A v \in BOOLEAN : (v <=> aktor[a].rutsche > RutschenZeit) =>
           (v /\ (frei => bleibt) <=> r(bleibt) > RutschenZeit)
  <2> HIDE DEF a
  <2>1. CASE frei
    BY <1>3, <2>1, SortieranlageAnnahme
  <2>2. CASE ~frei
    BY <1>3, <2>2
  <2> QED
    BY <2>1, <2>2
<1> HIDE DEF a, frei, s, r
<1> QED
  BY <1>2, <1>4, <1>5, <1>6, <1>7, <1>8, <1>9, RutscheSchritt

LEMMA VerarbeitenSchritt ==
  ASSUME IInv, NEW a \in Anlagen, Verarbeiten(a)
  PROVE  IInv'
<1> DEFINE k == kanal[a]
           g == handleEvent(anlage[a], Head(k))
           K == [kanal EXCEPT ![a] = Tail(k)]
           h == Befehle(a, aktor[a], g.aus)
           v == EndGelb(aktor[a])
<1>1. /\ anlage \in [Anlagen -> Maschine] /\ kanal \in [Anlagen -> Seq(Puls)]
      /\ aktor \in [Anlagen -> Aktor]
      /\ \A z \in Anlagen : Passt(z, anlage[z], kanal[z], aktor[z])
  BY DEF IInv, Typen
<1>2. /\ k # <<>> /\ anlage' = [anlage EXCEPT ![a] = [g EXCEPT !.aus = <<>>]]
      /\ aktor' = [aktor EXCEPT ![a] = h] /\ kanal' = Zustellen(K, a, g.aus)
      /\ UNCHANGED <<ws, zuBewegen, naechster, verloren>>
  BY DEF Verarbeiten, Uebernehmen
<1>3. /\ anlage[a] \in Maschine /\ ~anlage[a].exit /\ anlage[a].d.festo = a
      /\ anlage[a].d.anzahlWS >= 0 /\ Stimmig(v, anlage[a]) /\ FuerAlle(a, k)
      /\ aktor[a] \in Aktor /\ Bereit(a, aktor[a]) /\ k \in Seq(Puls)
      /\ Voll(a, anlage[a].d.rutsche_voll, k) <=> aktor[a].rutsche > RutschenZeit
  BY <1>1 DEF Passt, Fertig, Stimmig
<1>4. v \in BOOLEAN /\ anlage[a].d.rutsche_voll \in BOOLEAN
  BY <1>3 DEF EndGelb, Gelb, Letztes, Maschine, Daten
<1> HIDE DEF v
<1>5. Fuer(a, Head(k))
  <2>1. k[1] = Head(k) /\ 1 \in 1..Len(k)
    BY <1>2, <1>3
  <2> QED
    BY <1>3, <2>1 DEF FuerAlle
<1>6. Behandelt(v, a, anlage[a], Head(k), g)
  BY <1>3, <1>4, <1>5, EventBehandelt
<1> HIDE DEF g
<1>7. /\ g \in Maschine /\ ~g.exit /\ g.d.festo = a /\ g.d.anzahlWS >= 0 /\ Stimmig(v, g)
      /\ g.d.rutsche_voll <=> \/ Head(k).sig = VollPuls(a)
                              \/ Head(k).sig # FreiPuls(a) /\ anlage[a].d.rutsche_voll
  BY <1>6 DEF Behandelt
<1>8. g.d.rutsche_voll \in BOOLEAN /\ g.aus \in Seq(Gesendet)
  BY <1>7 DEF Maschine, Daten
<1>9. /\ Tail(k) \in Seq(Puls) /\ FuerAlle(a, Tail(k))
      /\ Voll(a, g.d.rutsche_voll, Tail(k)) <=> Voll(a, anlage[a].d.rutsche_voll, k)
  BY <1>2, <1>3, <1>4, <1>7, <1>8, TailVoll
<1>10. K \in [Anlagen -> Seq(Puls)] /\ K[a] = Tail(k) /\ \A z \in Anlagen : z # a => K[z] = kanal[z]
  BY <1>1, <1>9
<1> HIDE DEF K
<1>11. Uebergeben(a, g, aktor[a], h)
  BY <1>3, <1>7, UebernehmenStimmt DEF v
<1>12. /\ kanal' \in [Anlagen -> Seq(Puls)]
       /\ \A z \in Anlagen, x \in BOOLEAN :
            FuerAlle(z, K[z]) => /\ FuerAlle(z, kanal'[z])
                                 /\ Voll(z, x, kanal'[z]) <=> Voll(z, x, K[z])
  <2>1. kanal' \in [Anlagen -> Seq(Puls)]
    BY <1>2, <1>8, <1>10, NeutralVonHier, ZustellenTyp
  <2>2. ASSUME NEW z \in Anlagen, NEW x \in BOOLEAN, FuerAlle(z, K[z])
        PROVE  /\ FuerAlle(z, kanal'[z])
               /\ Voll(z, x, kanal'[z]) <=> Voll(z, x, K[z])
    BY <1>2, <1>8, <1>10, <2>2, ZustellenNeutral
  <2> QED
    BY <2>1, <2>2
<1> HIDE DEF h
<1>13. ASSUME NEW z \in Anlagen PROVE Passt(z, anlage'[z], kanal'[z], aktor'[z])
  <2>1. CASE z = a
    <3>1. FuerAlle(a, kanal'[a]) /\ kanal'[a] \in Seq(Puls)
          /\ (Voll(a, g.d.rutsche_voll, kanal'[a]) <=> Voll(a, g.d.rutsche_voll, K[a]))
      BY <1>8, <1>9, <1>10, <1>12
    <3>2. Voll(a, g.d.rutsche_voll, kanal'[a]) <=> aktor[a].rutsche > RutschenZeit
      BY <1>3, <1>9, <1>10, <3>1
    <3>3. Passt(a, [g EXCEPT !.aus = <<>>], kanal'[a], h)
      BY <1>7, <1>11, <3>1, <3>2, UebergebenPasst
    <3>4. anlage'[a] = [g EXCEPT !.aus = <<>>] /\ aktor'[a] = h
      BY <1>1, <1>2
    <3> QED
      BY <2>1, <3>3, <3>4
  <2>2. CASE z # a
    <3>1. anlage'[z] = anlage[z] /\ aktor'[z] = aktor[z] /\ K[z] = kanal[z]
      BY <1>1, <1>2, <1>10, <2>2
    <3>2. Passt(z, anlage[z], kanal[z], aktor[z])
      BY <1>1
    <3>3. FuerAlle(z, kanal[z]) /\ anlage[z].d.rutsche_voll \in BOOLEAN
      BY <3>2 DEF Passt, Maschine, Daten
    <3>4. FuerAlle(z, kanal'[z]) /\ kanal'[z] \in Seq(Puls)
          /\ (Voll(z, anlage[z].d.rutsche_voll, kanal'[z])
                <=> Voll(z, anlage[z].d.rutsche_voll, kanal[z]))
      BY <1>12, <3>1, <3>3
    <3>5. Passt(z, anlage[z], kanal'[z], aktor[z])
      BY <3>2, <3>4 DEF Passt
    <3> QED
      BY <3>1, <3>5
  <2> QED
    BY <2>1, <2>2
<1>14. anlage' \in [Anlagen -> Maschine] /\ aktor' \in [Anlagen -> Aktor]
  BY <1>1, <1>2, <1>11 DEF Uebergeben
<1> QED
  BY <1>2, <1>12, <1>13, <1>14 DEF IInv, Typen

LEMMA TickSchritt ==
  ASSUME IInv, Tick
  PROVE  IInv'
<1> DEFINE g(a) == updateTimers(anlage[a])
           t == [a \in Anlagen |-> g(a).aus]
           h(a) == Geschlafen(a, aktor[a])
           f(a) == [g(a) EXCEPT !.aus = <<>>]
           k(a) == RutscheGezaehlt(h(a))
<1>1. /\ anlage \in [Anlagen -> Maschine] /\ kanal \in [Anlagen -> Seq(Puls)]
      /\ aktor \in [Anlagen -> Aktor]
      /\ \A z \in Anlagen : Passt(z, anlage[z], kanal[z], aktor[z])
  BY DEF IInv, Typen
<1>2. 1 \in Anlagen /\ 2 \in Anlagen
  BY DEF Anlagen
<1>3. /\ anlage' = [a \in Anlagen |-> f(a)] /\ aktor' = [a \in Anlagen |-> k(a)]
      /\ kanal' = Zustellen(Zustellen(kanal, 1, t[1] \o RutscheVoll(1)), 2, t[2] \o RutscheVoll(2))
  <2>1. t[1] = g(1).aus /\ t[2] = g(2).aus
    BY <1>2
  <2> QED
    BY <1>2, <2>1 DEF Tick
<1>4. BandTyp'
  <2>1. /\ ws' = [w \in Plaetze |->
             IF Auf(w) /\ Laeuft(w) /\ ~Schnell(w) THEN [ws[w] EXCEPT !.halb = ~ws[w].halb]
             ELSE ws[w]]
        /\ zuBewegen' = zuBewegen \cup {w \in Plaetze : Rueckt(w)}
        /\ naechster' = naechster /\ verloren' = verloren
    BY DEF Tick
  <2>2. BandTyp
    BY BandJetzt
  <2>3. \A w \in Plaetze : [ws[w] EXCEPT !.halb = ~ws[w].halb] \in Werkstuecke
    BY <2>2 DEF BandTyp, Werkstuecke
  <2>4. ws' \in [Plaetze -> Werkstuecke]
    BY <2>1, <2>2, <2>3 DEF BandTyp
  <2> QED
    BY <2>1, <2>2, <2>4 DEF BandTyp
<1>5. ASSUME NEW a \in Anlagen
      PROVE  /\ Folgt(anlage[a], g(a)) /\ anlage[a] \in Maschine /\ Fertig(a, anlage[a])
             /\ Stimmig(EndGelb(aktor[a]), anlage[a])
  <2>1. Passt(a, anlage[a], kanal[a], aktor[a])
    BY <1>1
  <2>2. anlage[a] \in Maschine
    BY <1>1
  <2>3. Folgt(anlage[a], g(a))
    BY <2>2, FolgtSelbst, UpdateTimersGeht
  <2> QED
    BY <2>1, <2>3 DEF Passt, Stimmig
<1> HIDE DEF g
<1>6. t \in [Anlagen -> Seq(Gesendet)]
  BY <1>5 DEF Folgt, Maschine
<1> HIDE DEF t
<1>7. ASSUME NEW a \in Anlagen PROVE Passt(a, f(a), kanal'[a], k(a)) /\ kanal' \in [Anlagen -> Seq(Puls)]
  <2> DEFINE v == EndGelb(aktor[a])
             x == anlage[a].d.rutsche_voll
  <2>1. Passt(a, anlage[a], kanal[a], aktor[a])
    BY <1>1
  <2>2. /\ FuerAlle(a, kanal[a]) /\ x \in BOOLEAN /\ aktor[a] \in Aktor /\ Bereit(a, aktor[a])
        /\ Voll(a, x, kanal[a]) <=> aktor[a].rutsche > RutschenZeit
    BY <1>1, <2>1 DEF Passt, Maschine, Daten
  <2>3. v \in BOOLEAN
    BY DEF EndGelb, Gelb, Letztes
  <2>4. /\ kanal' \in [Anlagen -> Seq(Puls)] /\ FuerAlle(a, kanal'[a])
        /\ Voll(a, x, kanal'[a]) <=> Voll(a, x, kanal[a]) \/ aktor[a].rutsche = RutschenZeit
    BY <1>1, <1>3, <1>6, <2>2, TickKanal
  <2>5. HALBleibt(a, aktor[a], h(a))
    BY <2>2, GeschlafenBleibt
  <2> HIDE DEF h
  <2>6. /\ h(a) \in Aktor /\ Bereit(a, h(a)) /\ h(a).rutsche = aktor[a].rutsche
        /\ EndGelb(h(a)) <=> v
    BY <2>5 DEF HALBleibt
  <2>7. /\ k(a) \in Aktor /\ Bereit(a, k(a)) /\ (EndGelb(k(a)) <=> v)
        /\ k(a).rutsche > RutschenZeit
             <=> aktor[a].rutsche > RutschenZeit \/ aktor[a].rutsche = RutschenZeit
    BY <2>6, RutscheGezaehltBleibt
  <2> HIDE DEF k, v
  <2>8. Stimmig(v, anlage[a])
    BY <1>5 DEF v
  <2>9. Ende(v, anlage[a], g(a))
    BY <1>5, <2>3, <2>8, FolgtEnde DEF Fertig
  <2>10. /\ g(a) \in Maschine /\ ~g(a).exit /\ g(a).d.festo = a /\ g(a).d.anzahlWS >= 0
         /\ g(a).d.rutsche_voll = x /\ Stimmig(v, g(a))
    BY <1>5, <2>9 DEF Ende, Fertig
  <2>11. \A w \in BOOLEAN : Gelb(w, g(a).aus) <=> w
    BY <1>5, GelbLeer DEF Folgt, Gleich, Fertig
  <2>12. /\ f(a) \in Maschine /\ f(a).aus = <<>> /\ f(a).exit = g(a).exit /\ f(a).d = g(a).d
         /\ f(a).zustand = g(a).zustand /\ f(a).bz = g(a).bz /\ f(a).warn = g(a).warn
    <3>1. <<>> \in Seq(Gesendet)
      OBVIOUS
    <3> QED
      BY <2>10, <3>1 DEF Maschine
  <2> HIDE DEF f, x
  <2>13. EndGelb(k(a)) \in BOOLEAN
    BY DEF EndGelb, Gelb, Letztes
  <2>14. Gelb(EndGelb(k(a)), <<>>) <=> Gelb(v, g(a).aus)
    BY <2>3, <2>7, <2>11, <2>13, GelbLeer
  <2>15. LampeWieWarnung(EndGelb(k(a)), f(a))
    BY <2>10, <2>12, <2>14 DEF Stimmig, LampeWieWarnung
  <2>16. WarnungWieRutsche(f(a))
    BY <2>10, <2>12 DEF Stimmig, WarnungWieRutsche
  <2>17. Fertig(a, f(a)) /\ kanal'[a] \in Seq(Puls)
    BY <2>4, <2>10, <2>12 DEF Fertig
  <2>18. Voll(a, f(a).d.rutsche_voll, kanal'[a]) <=> k(a).rutsche > RutschenZeit
    BY <2>2, <2>4, <2>7, <2>10, <2>12
  <2>19. f(a) \in Maschine /\ k(a) \in Aktor /\ Bereit(a, k(a)) /\ FuerAlle(a, kanal'[a])
    BY <2>4, <2>7, <2>12
  <2>20. Passt(a, f(a), kanal'[a], k(a))
    BY <2>15, <2>16, <2>17, <2>18, <2>19 DEF Passt
  <2> QED
    BY <2>4, <2>20
<1>8. \A a \in Anlagen : f(a) \in Maschine /\ k(a) \in Aktor
  BY <1>7 DEF Passt
<1> HIDE DEF f, k
<1>9. /\ anlage' \in [Anlagen -> Maschine] /\ aktor' \in [Anlagen -> Aktor]
      /\ kanal' \in [Anlagen -> Seq(Puls)]
      /\ \A a \in Anlagen : anlage'[a] = f(a) /\ aktor'[a] = k(a)
  BY <1>2, <1>3, <1>7, <1>8
<1> QED
  BY <1>4, <1>7, <1>9 DEF IInv, Typen, BandTyp

\* Both machines become g at once, while no pulse waits: the slides remain as
\* full as they were.
LEMMA BeideSchritt ==
  ASSUME IInv, Ruhe, BandTyp', kanal' = kanal, NEW g,
         \A a \in Anlagen :
           /\ g[a] \in Maschine /\ ~g[a].exit /\ g[a].d.festo = a /\ g[a].d.anzahlWS >= 0
           /\ g[a].d.rutsche_voll = anlage[a].d.rutsche_voll
           /\ Stimmig(EndGelb(aktor[a]), g[a]),
         anlage' = [a \in Anlagen |-> [g[a] EXCEPT !.aus = <<>>]],
         aktor' = [a \in Anlagen |-> Befehle(a, aktor[a], g[a].aus)]
  PROVE  IInv'
<1> DEFINE f(a) == [g[a] EXCEPT !.aus = <<>>]
           h(a) == Befehle(a, aktor[a], g[a].aus)
<1>1. /\ kanal \in [Anlagen -> Seq(Puls)]
      /\ \A a \in Anlagen : Passt(a, anlage[a], kanal[a], aktor[a])
  BY DEF IInv, Typen
<1>2. ASSUME NEW a \in Anlagen PROVE Passt(a, f(a), kanal'[a], h(a))
  <2>1. /\ aktor[a] \in Aktor /\ Bereit(a, aktor[a]) /\ kanal[a] \in Seq(Puls)
        /\ FuerAlle(a, kanal[a])
        /\ Voll(a, anlage[a].d.rutsche_voll, kanal[a]) <=> aktor[a].rutsche > RutschenZeit
    BY <1>1 DEF Passt
  <2>2. Uebergeben(a, g[a], aktor[a], h(a))
    BY <2>1, UebernehmenStimmt
  <2>3. Voll(a, g[a].d.rutsche_voll, kanal[a]) <=> aktor[a].rutsche > RutschenZeit
    BY <2>1
  <2> QED
    BY <2>1, <2>2, <2>3, UebergebenPasst
<1>3. \A a \in Anlagen : f(a) \in Maschine /\ h(a) \in Aktor
  BY <1>2 DEF Passt
<1> HIDE DEF f, h
<1>4. /\ anlage' = [a \in Anlagen |-> f(a)] /\ aktor' = [a \in Anlagen |-> h(a)]
  BY DEF f, h
<1>5. /\ anlage' \in [Anlagen -> Maschine] /\ aktor' \in [Anlagen -> Aktor]
      /\ \A a \in Anlagen : anlage'[a] = f(a) /\ aktor'[a] = h(a)
  <2>1. anlage' \in [Anlagen -> Maschine] /\ \A a \in Anlagen : anlage'[a] = f(a)
    BY <1>3, <1>4
  <2>2. aktor' \in [Anlagen -> Aktor] /\ \A a \in Anlagen : aktor'[a] = h(a)
    BY <1>3, <1>4
  <2> QED
    BY <2>1, <2>2
<1> QED
  BY <1>1, <1>2, <1>5 DEF IInv, Typen, BandTyp

LEMMA NotHaltSchritt ==
  ASSUME IInv, NotHalt
  PROVE  IInv'
<1> DEFINE g == [a \in Anlagen |-> EStopBetreten(anlage[a])]
<1>1. ASSUME NEW a \in Anlagen
      PROVE  /\ g[a] \in Maschine /\ ~g[a].exit /\ g[a].d.festo = a /\ g[a].d.anzahlWS >= 0
             /\ g[a].d.rutsche_voll = anlage[a].d.rutsche_voll
             /\ Stimmig(EndGelb(aktor[a]), g[a])
  <2>1. anlage[a] \in Maschine /\ Fertig(a, anlage[a])
    BY DEF IInv, Passt
  <2>2. Bleibt(anlage[a], g[a]) /\ g[a].zustand = "EStop"
    BY <2>1, EStopBleibt
  <2> HIDE DEF g
  <2>3. Stimmig(EndGelb(aktor[a]), g[a])
    BY <2>2 DEF Stimmig, LampeWieWarnung, WarnungWieRutsche
  <2> QED
    BY <2>1, <2>2, <2>3 DEF Bleibt, Fertig
<1>2. /\ anlage' = [a \in Anlagen |-> [g[a] EXCEPT !.aus = <<>>]]
      /\ aktor' = [a \in Anlagen |-> Befehle(a, aktor[a], g[a].aus)]
      /\ UNCHANGED <<kanal, ws, zuBewegen, naechster, verloren>> /\ Ruhe
  BY DEF NotHalt, Stillstand
<1>3. BandTyp'
  BY <1>2, BandJetzt DEF BandTyp
<1> HIDE DEF g
<1> QED
  BY <1>1, <1>2, <1>3, BeideSchritt

LEMMA NeustartSchritt ==
  ASSUME IInv, Neustart
  PROVE  IInv'
<1> DEFINE g == [a \in Anlagen |-> Neubeginn(anlage[a])]
<1>1. ASSUME NEW a \in Anlagen
      PROVE  /\ g[a] \in Maschine /\ ~g[a].exit /\ g[a].d.festo = a /\ g[a].d.anzahlWS >= 0
             /\ g[a].d.rutsche_voll = anlage[a].d.rutsche_voll
             /\ Stimmig(EndGelb(aktor[a]), g[a])
  <2>1. anlage[a] \in Maschine /\ Fertig(a, anlage[a])
    BY DEF IInv, Passt
  <2>2. EndGelb(aktor[a]) \in BOOLEAN
    BY DEF EndGelb, Gelb, Letztes
  <2>3. g[a] = Neubeginn(anlage[a])
    OBVIOUS
  <2> HIDE DEF g
  <2> QED
    BY <2>1, <2>2, <2>3, NeubeginnStimmig DEF Fertig
<1>2. /\ anlage' = [a \in Anlagen |-> [g[a] EXCEPT !.aus = <<>>]]
      /\ aktor' = [a \in Anlagen |-> Befehle(a, aktor[a], g[a].aus)]
      /\ kanal' = kanal /\ Ruhe
  BY DEF Neustart, Stillstand
<1>3. BandTyp'
  <2>1. /\ ws' = [w \in Plaetze |-> ImLager] /\ zuBewegen' = {} /\ naechster' = 0
        /\ verloren' = FALSE
    BY DEF Neustart
  <2>2. ws' \in [Plaetze -> Werkstuecke]
    BY <2>1, ImLagerTyp
  <2>3. verloren' \in BOOLEAN
    BY <2>1
  <2> QED
    BY <2>1, <2>2, <2>3 DEF BandTyp
<1> HIDE DEF g
<1> QED
  BY <1>1, <1>2, <1>3, BeideSchritt

LEMMA SchrittIInv == IInv /\ [Next]_vars => IInv'
<1> SUFFICES ASSUME IInv, [Next]_vars PROVE IInv'
  OBVIOUS
<1>1. CASE Tick
  BY <1>1, TickSchritt
<1>2. CASE NotHalt
  BY <1>2, NotHaltSchritt
<1>3. CASE Neustart
  BY <1>3, NeustartSchritt
<1>4. ASSUME NEW a \in Anlagen, Verarbeiten(a) PROVE IInv'
  BY <1>4, VerarbeitenSchritt
<1>5. ASSUME NEW a \in Anlagen, RutscheLeeren(a) PROVE IInv'
  BY <1>5, RutscheLeerenSchritt
<1>6. ASSUME NEW w \in Plaetze, Bewegen(w) PROVE IInv'
  BY <1>6, BewegenSchritt
<1>7. ASSUME NEW w \in Plaetze, Rutschen(w) PROVE IInv'
  BY <1>7, RutschenSchritt
<1>8. ASSUME NEW w \in Plaetze, Entnehmen(w) PROVE IInv'
  BY <1>8, EntnehmenSchritt
<1>9. ASSUME NEW w \in Plaetze, Wegnehmen(w) PROVE IInv'
  BY <1>9, WegnehmenSchritt
<1>10. ASSUME NEW w \in Plaetze, NEW art \in Arten, Auflegen(w, art) PROVE IInv'
  BY <1>10, AuflegenSchritt
<1>11. CASE UNCHANGED vars
  BY <1>11 DEF vars, IInv, Typen
<1> QED
  BY <1>1, <1>2, <1>3, <1>4, <1>5, <1>6, <1>7, <1>8, <1>9, <1>10, <1>11 DEF Next

-----------------------------------------------------------------------------
(***************************************************************************)
(* The theorems.                                                           *)
(***************************************************************************)
LEMMA IInvImmer == Spec => []IInv
<1>1. Init => IInv
  BY InitIInv
<1>2. IInv /\ [Next]_vars => IInv'
  BY SchrittIInv
<1> QED
  BY <1>1, <1>2, PTL DEF Spec

\* Every state of the plants is well typed, whatever the machines are told and in
\* whatever order: no timer passes its time, no region ends in a state it does
\* not have, only workpieces with a known type get into the list, and the count
\* of workpieces never gets negative.
THEOREM Typkorrekt == Spec => []TypeOK
<1>1. ASSUME IInv PROVE TypeOK
  <2>1. ASSUME NEW a \in Anlagen
        PROVE  anlage[a] \in Maschine /\ Fertig(a, anlage[a])
    BY <1>1, <2>1 DEF IInv, Passt
  <2>2. TimerBereit
    <3> SUFFICES ASSUME NEW a \in Anlagen, NEW n \in TimerNamen
                 PROVE  anlage[a].d.timer[n] \in
                          [phase : {"inaktiv", "zeit", "toleranz"}, pausiert : BOOLEAN,
                           stand : 0..Ganz(n)]
      BY DEF TimerBereit
    <3> DEFINE t == anlage[a].d.timer[n]
    <3>1. t \in Timer /\ t.stand <= Ganz(n)
      BY <2>1 DEF Maschine, Daten, Zeitgeber
    <3>2. Ganz(n) \in Nat
      BY GanzTyp
    <3> HIDE DEF t
    <3>3. t.stand \in 0..Ganz(n)
      BY <3>1, <3>2 DEF Timer
    <3>4. t \in [phase : {"inaktiv", "zeit", "toleranz"}, pausiert : BOOLEAN,
                 stand : 0..Ganz(n)]
      BY <3>1, <3>3 DEF Timer
    <3> QED
      BY <3>4 DEF t
  <2>3. ASSUME NEW a \in Anlagen
        PROVE  /\ anlage[a].zustand \in {"Betriebszustand", "Fehlerbehandlung", "EStop"}
               /\ anlage[a].bz \in {"AufWSWarten", "Sortierung"}
               /\ anlage[a].lsa \in LSAZustand /\ anlage[a].lsh \in LSHZustand
               /\ anlage[a].lsw \in LSWZustand /\ anlage[a].lse \in LSEZustand
               /\ anlage[a].warn \in WarnZustand
    BY <2>1 DEF Maschine
  <2>4. ASSUME NEW a \in Anlagen
        PROVE  /\ anlage[a].d.fehler \in [art : Fehlerart, ort : FehlerOrt]
               /\ anlage[a].d.werkstueckListe \in Seq(Werkstueck)
               /\ anlage[a].d.erwarteteTypenQueue \in Seq(WerkstueckTyp)
               /\ anlage[a].d.order_index \in 0..3
               /\ anlage[a].d.anzahlWS \in Nat
    <3> DEFINE d == anlage[a].d
    <3>1. d \in Daten /\ d.anzahlWS >= 0
      BY <2>1 DEF Maschine, Fertig
    <3> HIDE DEF d
    <3>2. /\ d.fehler \in [art : Fehlerart, ort : FehlerOrt]
          /\ d.werkstueckListe \in Seq(Werkstueck)
          /\ d.erwarteteTypenQueue \in Seq(WerkstueckTyp)
          /\ d.order_index \in 0..3 /\ d.anzahlWS \in Int
      BY <3>1 DEF Daten
    <3> QED
      BY <3>1, <3>2 DEF d
  <2> QED
    BY <1>1, <2>2, <2>3, <2>4 DEF TypeOK, IInv, Typen
<1> QED
  BY <1>1, IInvImmer, PTL

\* The lamp never lies: whatever the order in which a slide fills and is
\* emptied, the plant rests, starts, fails and is restarted, and the ejector
\* keeps the commands waiting, a plant that sorts warns of its slide if and
\* only if the slide has been reported as full.
THEOREM LampeLuegtNie == Spec => []WarnlampeStimmt
<1>1. ASSUME IInv PROVE WarnlampeStimmt
  <2> SUFFICES ASSUME Ruhe, InBetrieb, NEW a \in Anlagen, anlage[a].bz = "Sortierung",
                      ~Blockiert(a, aktor[a])
               PROVE  aktor[a].gelb <=> aktor[a].rutsche > RutschenZeit
    BY DEF WarnlampeStimmt
  <2> DEFINE g == anlage[a]
             h == aktor[a]
             v == EndGelb(h)
  <2>1. Passt(a, g, kanal[a], h)
    BY <1>1 DEF IInv
  <2>2. kanal[a] = <<>> /\ g.zustand = "Betriebszustand" /\ g.bz = "Sortierung"
        /\ ~Blockiert(a, h)
    BY DEF Ruhe, InBetrieb
  <2> HIDE DEF g, h
  <2>3. g \in Maschine /\ h \in Aktor /\ g.aus = <<>> /\ g.d.rutsche_voll \in BOOLEAN
    BY <2>1 DEF Passt, Fertig, Maschine, Daten
  <2>4. v <=> h.gelb
    <3>1. h.wartend = <<>> /\ h.gelb \in BOOLEAN
      BY <2>1, <2>2, <2>3 DEF Passt, Bereit, Aktor
    <3> QED
      BY <3>1, GelbLeer DEF EndGelb
  <2>5. v \in BOOLEAN
    BY DEF EndGelb, Gelb, Letztes
  <2> HIDE DEF v
  <2>6. LampeWieWarnung(v, g) /\ WarnungWieRutsche(g)
    BY <2>1 DEF Passt, v
  <2>7. Gelb(v, g.aus) <=> v
    BY <2>3, <2>5, GelbLeer
  <2>8. v <=> g.d.rutsche_voll
    BY <2>2, <2>6, <2>7 DEF LampeWieWarnung, WarnungWieRutsche
  <2>9. Voll(a, g.d.rutsche_voll, <<>>) <=> g.d.rutsche_voll
    BY <2>3, LeererKanal
  <2>10. g.d.rutsche_voll <=> h.rutsche > RutschenZeit
    BY <2>1, <2>2, <2>9 DEF Passt
  <2> QED
    BY <2>4, <2>8, <2>10 DEF h
<1> QED
  BY <1>1, IInvImmer, PTL
=============================================================================
