--------------------------- MODULE RegionTimerBeweis ---------------------------
(***************************************************************************)
(* Proofs about Streckenzeit, for every distance and all calibrated times. *)
(***************************************************************************)
EXTENDS Streckenzeit, TLAPS

-----------------------------------------------------------------------------
(***************************************************************************)
(* Products of times.                                                      *)
(***************************************************************************)
LEMMA Kuerzen ==
  ASSUME NEW s \in Nat \ {0}, NEW a \in Nat, NEW b \in Nat, s * a < s * b
  PROVE  a < b
<1>1. SUFFICES ASSUME a >= b PROVE FALSE
  OBVIOUS
<1>2. PICK d \in Nat : a = b + d
  <2>1. a - b \in Nat /\ a = b + (a - b)
    BY <1>1
  <2> QED
    BY <2>1
<1>3. s * a = s * b + s * d
  BY <1>2
<1>4. s * d \in Nat /\ s * b \in Nat
  OBVIOUS
<1> QED
  BY <1>3, <1>4

LEMMA NochEiner ==
  ASSUME NEW s \in Nat, NEW k \in Nat
  PROVE  (k + 1) * s = k * s + s
OBVIOUS

\* What has to be known of the times of a distance.
LEMMA Zeiten ==
  ASSUME NEW n, Kalibriert(n)
  PROVE  /\ Basis[n].schnell \in Nat \ {0} /\ Basis[n].langsam \in Nat \ {0}
         /\ Basis[n].schnell <= Basis[n].langsam
         /\ 7 * Basis[n].langsam + 100 <= 40 * Basis[n].schnell
         /\ Ganz(n) = Basis[n].schnell * Basis[n].langsam
         /\ Ganz(n) \in Nat \ {0}
<1>1. n \in TimerNamen
  BY DEF Kalibriert, BandTimer
<1>2. Basis[n] \in [schnell : Nat \ {0}, langsam : Nat \ {0}]
  BY <1>1, BasisAnnahme
<1>3. Basis[n].schnell \in Nat \ {0} /\ Basis[n].langsam \in Nat \ {0}
  BY <1>2
<1>4. Basis[n].schnell * Basis[n].langsam \in Nat \ {0}
  BY <1>3
<1> QED
  BY <1>3, <1>4 DEF Kalibriert, Ganz

\* A tick at any speed covers at least what a slow one covers.
LEMMA AnteilMindestens ==
  ASSUME NEW n, Kalibriert(n), NEW b \in BOOLEAN
  PROVE  Anteil(n, b) \in Nat \ {0} /\ Anteil(n, b) >= Basis[n].schnell
<1>1. Anteil(n, b) = Basis[n].langsam \/ Anteil(n, b) = Basis[n].schnell
  BY DEF Anteil
<1> QED
  BY <1>1, Zeiten

\* While a workpiece that has covered 93 % and k slow steps is on its way, the
\* second phase of its timer does not end with tick k + 1.
LEMMA ToleranzReicht ==
  ASSUME NEW n, Kalibriert(n), NEW b \in BOOLEAN, NEW k \in Nat, NEW w \in Nat,
         100 * w >= 93 * Ganz(n) + 100 * (k * Basis[n].schnell), w < Ganz(n)
  PROVE  10 * (k + 1) < 4 * basisZeit(n, b)
<1> DEFINE s == Basis[n].schnell
           l == Basis[n].langsam
<1>1. /\ s \in Nat \ {0} /\ l \in Nat \ {0} /\ s <= l
      /\ 7 * l + 100 <= 40 * s /\ Ganz(n) = s * l /\ Ganz(n) \in Nat \ {0}
  BY Zeiten
<1>2. basisZeit(n, b) \in Nat /\ basisZeit(n, b) >= s
  <2>1. basisZeit(n, b) = s \/ basisZeit(n, b) = l
    BY DEF basisZeit
  <2> QED
    BY <1>1, <2>1
<1> HIDE DEF s, l
<1>3. k * s \in Nat /\ 100 * (k * s) < 7 * Ganz(n)
  <2>1. k * s \in Nat
    BY <1>1
  <2>2. 100 * w >= 93 * Ganz(n) + 100 * (k * s)
    BY DEF s
  <2> QED
    BY <1>1, <2>1, <2>2
<1>4. s * (100 * k) < s * (7 * l)
  <2>1. s * (100 * k) = 100 * (k * s)
    BY <1>1
  <2>2. s * (7 * l) = 7 * (s * l)
    BY <1>1
  <2> QED
    BY <1>1, <1>3, <2>1, <2>2
<1>5. 100 * k < 7 * l
  <2>1. 100 * k \in Nat /\ 7 * l \in Nat
    BY <1>1
  <2> QED
    BY <1>1, <1>4, <2>1, Kuerzen
<1> QED
  BY <1>1, <1>2, <1>5

-----------------------------------------------------------------------------
(***************************************************************************)
(* What a tick does to a running timer.                                    *)
(***************************************************************************)
LEMMA ZeitSchritt ==
  ASSUME NEW n, Kalibriert(n), NEW b \in BOOLEAN, NEW t \in Timer,
         ~t.pausiert, t.phase = "zeit"
  PROVE  aktualisiere(t, n, b) =
           IF 100 * (t.stand + Anteil(n, b)) >= 93 * Ganz(n)
           THEN [phase |-> "toleranz", pausiert |-> FALSE, stand |-> 0]
           ELSE [phase |-> "zeit", pausiert |-> FALSE, stand |-> t.stand + Anteil(n, b)]
<1>1. laeuft(t)
  BY DEF laeuft
<1>2. ~ToleranzAbgelaufen(t, n, b)
  BY DEF ToleranzAbgelaufen
<1>3. ZeitAbgelaufen(t, n, b) <=> 100 * (t.stand + Anteil(n, b)) >= 93 * Ganz(n)
  BY <1>1 DEF ZeitAbgelaufen, fortschritt
<1>4. t.pausiert = FALSE
  BY DEF Timer
<1>5. CASE ZeitAbgelaufen(t, n, b)
  <2>1. aktualisiere(t, n, b) = [t EXCEPT !.phase = "toleranz", !.stand = 0]
    BY <1>1, <1>2, <1>5 DEF aktualisiere
  <2> QED
    BY <1>3, <1>4, <1>5, <2>1 DEF Timer
<1>6. CASE ~ZeitAbgelaufen(t, n, b)
  <2>1. aktualisiere(t, n, b) = [t EXCEPT !.stand = fortschritt(t, n, b)]
    BY <1>1, <1>2, <1>6 DEF aktualisiere
  <2> QED
    BY <1>3, <1>4, <1>6, <2>1 DEF Timer, fortschritt
<1> QED
  BY <1>5, <1>6

LEMMA ToleranzSchritt ==
  ASSUME NEW n, NEW b \in BOOLEAN, NEW t \in Timer, ~t.pausiert, t.phase = "toleranz",
         10 * (t.stand + 1) < 4 * basisZeit(n, b), basisZeit(n, b) \in Nat
  PROVE  aktualisiere(t, n, b) =
           [phase |-> "toleranz", pausiert |-> FALSE, stand |-> t.stand + 1]
<1>1. laeuft(t) /\ ~ZeitAbgelaufen(t, n, b)
  BY DEF laeuft, ZeitAbgelaufen
<1>2. t.stand \in Nat
  BY DEF Timer
<1>3. ~ToleranzAbgelaufen(t, n, b)
  BY <1>2 DEF ToleranzAbgelaufen
<1>4. aktualisiere(t, n, b) = [t EXCEPT !.stand = @ + 1]
  BY <1>1, <1>3 DEF aktualisiere
<1> QED
  BY <1>4 DEF Timer

-----------------------------------------------------------------------------
(***************************************************************************)
(* The invariant.                                                          *)
(***************************************************************************)
LEMMA Anfang ==
  ASSUME NEW n, Kalibriert(n), Init
  PROVE  IInv(n)
<1>1. Gestartet \in Timer /\ Gestartet.phase = "zeit" /\ Gestartet.pausiert = FALSE
      /\ Gestartet.stand = 0
  BY DEF Gestartet, Timer
<1>2. 100 * 0 < 93 * Ganz(n)
  BY Zeiten
<1> QED
  BY <1>1, <1>2 DEF Init, IInv, TypeOK, NieVermisst, WegStimmt

\* A tick while the belt runs: in the first phase the timer stays with the
\* workpiece or passes 93 % with it, in the second it does not run out.
LEMMA TaktLaufend ==
  ASSUME NEW n, Kalibriert(n), IInv(n), Takt(n), ~steht
  PROVE  IInv(n)'
<1> DEFINE a == Anteil(n, schnell)
<1>1. /\ timer \in Timer /\ weg \in Nat /\ schnell \in BOOLEAN /\ ~timer.pausiert
      /\ steht \in BOOLEAN
      /\ timer.stand \in Nat /\ timer.phase \in {"zeit", "toleranz"}
  BY DEF IInv, TypeOK, NieVermisst, Timer
<1>2. /\ weg < Ganz(n) /\ weg' = weg + a /\ timer' = aktualisiere(timer, n, schnell)
      /\ schnell' = schnell /\ steht' = FALSE
  BY <1>1 DEF Takt
<1>3. a \in Nat \ {0} /\ a >= Basis[n].schnell
  BY <1>1, AnteilMindestens
<1>4. Basis[n].schnell \in Nat \ {0} /\ Ganz(n) \in Nat \ {0}
  BY Zeiten
<1>0. Ganz(n)' = Ganz(n)
  BY DEF Ganz
<1> HIDE DEF a
<1>5. weg' \in Nat
  BY <1>1, <1>2, <1>3
<1>6. CASE timer.phase = "zeit" /\ 100 * (timer.stand + a) >= 93 * Ganz(n)
  <2>1. timer' = [phase |-> "toleranz", pausiert |-> FALSE, stand |-> 0]
    BY <1>1, <1>2, <1>6, ZeitSchritt DEF a
  <2>2. weg' = timer.stand + a
    BY <1>2, <1>6 DEF IInv, WegStimmt
  <2>3. 100 * weg' >= 93 * Ganz(n) + 100 * (0 * Basis[n].schnell)
    BY <1>4, <1>6, <2>2
  <2>4. timer'.phase = "toleranz" /\ timer'.stand = 0
    BY <2>1
  <2>8. TypeOK' /\ NieVermisst' /\ timer'.pausiert = steht'
    <3>1. timer' \in Timer
      BY <2>1 DEF Timer
    <3>2. timer'.phase # "inaktiv" /\ timer'.pausiert = FALSE
      BY <2>1
    <3>3. schnell' \in BOOLEAN
      BY <1>1, <1>2
    <3> QED
      BY <1>2, <1>5, <3>1, <3>2, <3>3 DEF TypeOK, NieVermisst
  <2>9. WegStimmt(n)'
    BY <1>0, <2>3, <2>4 DEF WegStimmt
  <2> QED
    BY <2>8, <2>9 DEF IInv
<1>7. CASE timer.phase = "zeit" /\ ~(100 * (timer.stand + a) >= 93 * Ganz(n))
  <2>1. timer' = [phase |-> "zeit", pausiert |-> FALSE, stand |-> timer.stand + a]
    BY <1>1, <1>2, <1>7, ZeitSchritt DEF a
  <2>2. weg' = timer.stand + a
    BY <1>2, <1>7 DEF IInv, WegStimmt
  <2>3. 100 * weg' < 93 * Ganz(n) /\ timer.stand + a \in Nat
    BY <1>1, <1>3, <1>4, <1>7, <2>2
  <2>4. timer'.phase = "zeit" /\ timer'.stand = timer.stand + a
    BY <2>1
  <2>8. TypeOK' /\ NieVermisst' /\ timer'.pausiert = steht'
    <3>1. timer' \in Timer
      BY <2>1, <2>3 DEF Timer
    <3>2. timer'.phase # "inaktiv" /\ timer'.pausiert = FALSE
      BY <2>1, <2>3
    <3>3. schnell' \in BOOLEAN
      BY <1>1, <1>2
    <3> QED
      BY <1>2, <1>5, <3>1, <3>2, <3>3 DEF TypeOK, NieVermisst
  <2>9. WegStimmt(n)'
    BY <1>0, <2>2, <2>3, <2>4 DEF WegStimmt
  <2> QED
    BY <2>8, <2>9 DEF IInv
<1>8. CASE timer.phase = "toleranz"
  <2>1. 100 * weg >= 93 * Ganz(n) + 100 * (timer.stand * Basis[n].schnell)
    BY <1>8 DEF IInv, WegStimmt
  <2>2. 10 * (timer.stand + 1) < 4 * basisZeit(n, schnell)
    BY <1>1, <1>2, <2>1, ToleranzReicht
  <2>3. basisZeit(n, schnell) \in Nat
    BY Zeiten DEF basisZeit
  <2>4. timer' = [phase |-> "toleranz", pausiert |-> FALSE, stand |-> timer.stand + 1]
    BY <1>1, <1>2, <1>8, <2>2, <2>3, ToleranzSchritt
  <2>5. (timer.stand + 1) * Basis[n].schnell = timer.stand * Basis[n].schnell + Basis[n].schnell
    BY <1>1, <1>4, NochEiner
  <2>6. timer.stand * Basis[n].schnell \in Nat /\ timer.stand + 1 \in Nat
    BY <1>1, <1>4
  <2>7. 100 * weg' >= 93 * Ganz(n) + 100 * ((timer.stand + 1) * Basis[n].schnell)
    BY <1>1, <1>2, <1>3, <1>4, <2>1, <2>5, <2>6
  <2>10. timer'.phase = "toleranz" /\ timer'.stand = timer.stand + 1
    BY <2>4
  <2>8. TypeOK' /\ NieVermisst' /\ timer'.pausiert = steht'
    <3>1. timer' \in Timer
      BY <2>4, <2>6 DEF Timer
    <3>2. timer'.phase # "inaktiv" /\ timer'.pausiert = FALSE
      BY <2>4, <2>6
    <3>3. schnell' \in BOOLEAN
      BY <1>1, <1>2
    <3> QED
      BY <1>2, <1>5, <3>1, <3>2, <3>3 DEF TypeOK, NieVermisst
  <2>9. WegStimmt(n)'
    BY <1>0, <2>7, <2>10 DEF WegStimmt
  <2> QED
    BY <2>8, <2>9 DEF IInv
<1> QED
  BY <1>1, <1>6, <1>7, <1>8

\* A paused timer does not count.
LEMMA TaktStehend ==
  ASSUME NEW n, IInv(n), Takt(n), steht
  PROVE  IInv(n)'
<1>1. timer.pausiert
  BY DEF IInv
<1>2. aktualisiere(timer, n, schnell) = timer
  <2>1. ~laeuft(timer) /\ ~ZeitAbgelaufen(timer, n, schnell)
        /\ ~ToleranzAbgelaufen(timer, n, schnell)
    BY <1>1 DEF laeuft, ZeitAbgelaufen, ToleranzAbgelaufen
  <2> QED
    BY <2>1 DEF aktualisiere
<1>3. UNCHANGED vars
  BY <1>2 DEF Takt, vars
<1> QED
  BY <1>3 DEF IInv, TypeOK, NieVermisst, WegStimmt, vars

LEMMA Schritt ==
  ASSUME NEW n, Kalibriert(n), IInv(n), [Next(n)]_vars
  PROVE  IInv(n)'
<1>1. CASE Takt(n)
  <2>1. steht \in BOOLEAN
    BY DEF IInv, TypeOK
  <2> QED
    BY <1>1, <2>1, TaktLaufend, TaktStehend
<1>2. CASE Umschalten
  <2>1. schnell' \in BOOLEAN
    BY <1>2 DEF Umschalten
  <2> QED
    BY <1>2, <2>1 DEF Umschalten, IInv, TypeOK, NieVermisst, WegStimmt
<1>3. CASE Anhalten
  <2>1. timer' = [timer EXCEPT !.pausiert = TRUE] /\ steht' = TRUE
        /\ UNCHANGED <<weg, schnell>>
    BY <1>3 DEF Anhalten, Pausiert, IInv, NieVermisst
  <2> QED
    BY <2>1 DEF IInv, TypeOK, NieVermisst, WegStimmt, Timer
<1>4. CASE Weiter
  <2>1. timer' = [timer EXCEPT !.pausiert = FALSE] /\ steht' = FALSE
        /\ UNCHANGED <<weg, schnell>>
    BY <1>4 DEF Weiter, Fortgesetzt, IInv, NieVermisst
  <2> QED
    BY <2>1 DEF IInv, TypeOK, NieVermisst, WegStimmt, Timer
<1>5. CASE UNCHANGED vars
  BY <1>5 DEF IInv, TypeOK, NieVermisst, WegStimmt, vars
<1> QED
  BY <1>1, <1>2, <1>3, <1>4, <1>5 DEF Next

LEMMA Induktiv ==
  ASSUME NEW CONSTANT n, Kalibriert(n)
  PROVE  Spec(n) => []IInv(n)
<1>1. Init => IInv(n)
  BY Anfang
<1>2. IInv(n) /\ [Next(n)]_vars => IInv(n)'
  BY Schritt
<1> QED
  BY <1>1, <1>2, PTL DEF Spec

-----------------------------------------------------------------------------
\* However often the belt stops and changes its speed, the timer of a
\* workpiece on its way never runs out: t_toleranzzeit is a real loss.
THEOREM KeinFalscherVerlust ==
  ASSUME NEW CONSTANT n, Kalibriert(n)
  PROVE  Spec(n) => []NieVermisst
<1>1. IInv(n) => NieVermisst
  BY DEF IInv
<1> QED
  BY <1>1, Induktiv, PTL

\* The region expects the workpiece when it interrupts the light barrier.
THEOREM ImmerAngekuendigt ==
  ASSUME NEW CONSTANT n, Kalibriert(n)
  PROVE  Spec(n) => []Angekuendigt(n)
<1>1. IInv(n) => Angekuendigt(n)
  <2>1. SUFFICES ASSUME IInv(n), weg >= Ganz(n) PROVE timer.phase = "toleranz"
    BY DEF Angekuendigt
  <2>2. timer.phase \in {"zeit", "toleranz"} /\ weg \in Nat
    BY <2>1 DEF IInv, TypeOK, NieVermisst, Timer
  <2>3. Ganz(n) \in Nat
    BY Zeiten
  <2>4. timer.phase = "zeit" => 100 * weg < 93 * Ganz(n)
    BY <2>1 DEF IInv, WegStimmt
  <2> QED
    BY <2>1, <2>2, <2>3, <2>4
<1> QED
  BY <1>1, Induktiv, PTL

\* It expects the workpiece only when that is close to the light barrier.
THEOREM NieZuFrueh ==
  ASSUME NEW CONSTANT n, Kalibriert(n)
  PROVE  Spec(n) => []NichtZuFrueh(n)
<1>1. IInv(n) => NichtZuFrueh(n)
  <2>1. SUFFICES ASSUME IInv(n), timer.phase = "toleranz" PROVE 100 * weg >= 93 * Ganz(n)
    BY DEF NichtZuFrueh
  <2>2. /\ weg \in Nat /\ timer.stand \in Nat
        /\ 100 * weg >= 93 * Ganz(n) + 100 * (timer.stand * Basis[n].schnell)
    BY <2>1 DEF IInv, TypeOK, WegStimmt, Timer
  <2>3. Ganz(n) \in Nat /\ Basis[n].schnell \in Nat
    BY Zeiten
  <2>4. timer.stand * Basis[n].schnell \in Nat
    BY <2>2, <2>3
  <2> QED
    BY <2>2, <2>3, <2>4
<1> QED
  BY <1>1, Induktiv, PTL
=============================================================================
