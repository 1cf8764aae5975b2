------------------------- MODULE NotHaltAbbildBeweis -------------------------
(***************************************************************************)
(* Proof that both plants remember the emergency stops as they are, as     *)
(* long as the link holds and no emergency stop is pressed again before    *)
(* its last release has been handled.                                      *)
(***************************************************************************)
EXTENDS NotHaltBeweis

Druck(a)   == [sig |-> "S_E_G", anlage |-> a]
Loesung(a) == [sig |-> "S_E_NG", anlage |-> a]

TasterPuls == [sig : TasterSignale, anlage : Anlagen]

-----------------------------------------------------------------------------
(***************************************************************************)
(* Pulses that wait in a queue, and in the queue of their priority.        *)
(***************************************************************************)
Enthaelt(q, x) == \E i \in 1 .. Len(q) : q[i] = x

Hat(k, x) == Enthaelt(k[bestimmtPrioritaet(x.sig)], x)

LEMMA EnthaeltAngehaengt ==
  ASSUME NEW q \in Seq(Puls), NEW s \in Puls, NEW x
  PROVE  Enthaelt(Append(q, s), x) <=> Enthaelt(q, x) \/ x = s
<1> DEFINE r == Append(q, s)
<1>1. /\ Len(q) \in Nat /\ Len(r) = Len(q) + 1 /\ r[Len(q) + 1] = s
      /\ \A j \in 1 .. Len(q) : r[j] = q[j]
  OBVIOUS
<1> HIDE DEF r
<1>2. \A j \in 1 .. Len(r) : j \in 1 .. Len(q) \/ j = Len(q) + 1
  BY <1>1
<1>3. 1 .. Len(q) \subseteq 1 .. Len(r) /\ Len(q) + 1 \in 1 .. Len(r)
  BY <1>1
<1>4. Enthaelt(r, x) <=> Enthaelt(q, x) \/ x = s
  BY <1>1, <1>2, <1>3 DEF Enthaelt
<1> QED
  BY <1>4 DEF r

LEMMA EnthaeltVerkuerzt ==
  ASSUME NEW q \in Seq(Puls), q # <<>>, NEW x
  PROVE  Enthaelt(q, x) <=> x = Head(q) \/ Enthaelt(Tail(q), x)
<1> DEFINE r == Tail(q)
<1>1. /\ Len(q) \in Nat \ {0} /\ Len(r) = Len(q) - 1 /\ Head(q) = q[1]
      /\ \A j \in 1 .. Len(q) - 1 : r[j] = q[j + 1]
  BY TailFolge
<1> HIDE DEF r
<1>2. ASSUME Enthaelt(q, x) PROVE x = Head(q) \/ Enthaelt(r, x)
  <2>1. PICK i \in 1 .. Len(q) : q[i] = x
    BY <1>2 DEF Enthaelt
  <2>2. CASE i = 1
    BY <1>1, <2>1, <2>2
  <2>3. CASE i # 1
    <3>1. i - 1 \in 1 .. Len(r) /\ r[i - 1] = x
      BY <1>1, <2>1, <2>3
    <3> QED
      BY <3>1 DEF Enthaelt
  <2> QED
    BY <2>2, <2>3
<1>3. ASSUME Enthaelt(r, x) PROVE Enthaelt(q, x)
  <2>1. PICK i \in 1 .. Len(r) : r[i] = x
    BY <1>3 DEF Enthaelt
  <2>2. i + 1 \in 1 .. Len(q) /\ q[i + 1] = x
    BY <1>1, <2>1
  <2> QED
    BY <2>2 DEF Enthaelt
<1>4. x = Head(q) => Enthaelt(q, x)
  BY <1>1 DEF Enthaelt
<1> QED
  BY <1>2, <1>3, <1>4 DEF r

LEMMA HatEinreihen ==
  ASSUME NEW k \in Geordnet, NEW s \in Puls, NEW x \in Puls
  PROVE  Hat(Einreihen(k, s), x) <=> Hat(k, x) \/ x = s
<1> DEFINE n == bestimmtPrioritaet(x.sig)
<1>1. n \in Stufen
  BY PrioritaetIstStufe DEF Puls
<1>2. k[n] \in Seq(Puls)
  BY <1>1, Schlange
<1>3. Einreihen(k, s)[n] = IF n = bestimmtPrioritaet(s.sig) THEN Append(k[n], s) ELSE k[n]
  BY <1>1, EinreihenWirkung
<1> HIDE DEF n
<1>4. n # bestimmtPrioritaet(s.sig) => x # s
  BY DEF n
<1>5. Enthaelt(Einreihen(k, s)[n], x) <=> Enthaelt(k[n], x) \/ x = s
  BY <1>2, <1>3, <1>4, EnthaeltAngehaengt
<1> QED
  BY <1>5 DEF Hat, n

LEMMA HatEntnehmen ==
  ASSUME NEW k \in Geordnet, NEW p \in Stufen, k[p] # <<>>, NEW x \in Puls
  PROVE  Hat(k, x) <=> Hat(Entnehmen(k, p), x) \/ x = Head(k[p])
<1> DEFINE n == bestimmtPrioritaet(x.sig)
           e == Entnehmen(k, p)
<1>1. n \in Stufen
  BY PrioritaetIstStufe DEF Puls
<1>2. k[p] \in Seq(Puls)
  BY Schlange
<1>3. /\ e[p] = Tail(k[p]) /\ \A q \in Stufen \ {p} : e[q] = k[q]
      /\ bestimmtPrioritaet(Head(k[p]).sig) = p
  BY EntnehmenTyp
<1>4. n # p => x # Head(k[p])
  BY <1>3
<1> HIDE DEF n, e
<1>5. Enthaelt(k[n], x) <=> Enthaelt(e[n], x) \/ x = Head(k[p])
  BY <1>1, <1>2, <1>3, <1>4, EnthaeltVerkuerzt
<1> QED
  BY <1>5 DEF Hat, n, e

LEMMA StufeDerTaster ==
  /\ \A a \in Anlagen : Druck(a) \in TasterPuls /\ Loesung(a) \in TasterPuls
  /\ TasterPuls \subseteq Puls
  /\ EXTREM_HOCH \in Stufen /\ MITTEL \in Stufen /\ EXTREM_HOCH > MITTEL
  /\ \A x \in TasterPuls : bestimmtPrioritaet(x.sig) =
                             IF x.sig = "S_E_G" THEN EXTREM_HOCH ELSE MITTEL
  /\ \A x \in Puls \ TasterPuls : bestimmtPrioritaet(x.sig) \notin {EXTREM_HOCH, MITTEL}
<1>1. \A a \in Anlagen : Druck(a) \in TasterPuls /\ Loesung(a) \in TasterPuls
  BY DEF Druck, Loesung, TasterPuls, TasterSignale
<1>2. TasterPuls \subseteq Puls
  BY DEF TasterPuls, Puls, Signal
<1>3. EXTREM_HOCH \in Stufen /\ MITTEL \in Stufen /\ EXTREM_HOCH > MITTEL
  BY DEF EXTREM_HOCH, MITTEL, Stufen
<1>4. \A x \in TasterPuls : bestimmtPrioritaet(x.sig) =
                              IF x.sig = "S_E_G" THEN EXTREM_HOCH ELSE MITTEL
  BY DEF bestimmtPrioritaet, TasterPuls, TasterSignale, PartnerSignale
<1>5. ASSUME NEW x \in Puls \ TasterPuls
      PROVE  bestimmtPrioritaet(x.sig) \notin {EXTREM_HOCH, MITTEL}
  <2>1. x.sig \in Signal \ TasterSignale
    BY DEF Puls, TasterPuls
  <2> QED
    BY <2>1 DEF Signal, TasterSignale, bestimmtPrioritaet, EXTREM_HOCH, HOCH, MITTELHOCH,
       MITTEL, NORMAL
<1> QED
  BY <1>1, <1>2, <1>3, <1>4, <1>5

\* An emergency stop that is pressed down is served before one that is released.
LEMMA DruckZuerst ==
  ASSUME NEW k \in Geordnet, NEW p, Dringendste(k, p), NEW a \in Anlagen, NEW b \in Anlagen,
         Head(k[p]) = Loesung(a)
  PROVE  ~Hat(k, Druck(b))
<1>1. /\ p \in Stufen /\ k[p] # <<>>
      /\ \A q \in Stufen : q > p => k[q] = <<>>
  BY DEF Dringendste
<1>2. p = bestimmtPrioritaet(Loesung(a).sig)
  BY <1>1, EntnehmenTyp
<1>3. Loesung(a).sig # "S_E_G" /\ Druck(b).sig = "S_E_G"
  BY DEF Loesung, Druck
<1>4. p = MITTEL /\ bestimmtPrioritaet(Druck(b).sig) = EXTREM_HOCH
  BY <1>2, <1>3, StufeDerTaster
<1>5. k[EXTREM_HOCH] = <<>>
  BY <1>1, <1>4, StufeDerTaster
<1> QED
  BY <1>4, <1>5 DEF Hat, Enthaelt

-----------------------------------------------------------------------------
(***************************************************************************)
(* The triggers.  What a plant remembers of the emergency stops depends on *)
(* the state of estopfsm only, and on the pulses of the panels only.       *)
(***************************************************************************)

\* The state of estopfsm, "Ende" outside EStop.
Lage(f) == IF f.zustand = "EStop" THEN f.estop ELSE "Ende"

\* A machine in EStop has not reached the end of estopfsm.
Sauber(f) == f.zustand = "EStop" => f.estop # "Ende"

\* The state of estopfsm after the pulse x.
Danach(z, x) ==
  CASE x.sig = "S_E_G" -> IF z = "Ende" THEN EStopAktiv(x.anlage)
                          ELSE EStop_s_e_g([estop |-> z], x.anlage)
    [] x.sig = "S_E_NG" -> EStop_s_e_ng([estop |-> z], x.anlage)
    [] x.sig = "S_RT_G" -> EStop_s_rt_g([estop |-> z], x.anlage)
    [] OTHER -> z

\* Nothing was sent that waits together with the pulses of the panels.
Still(k, l) == l[EXTREM_HOCH] = k[EXTREM_HOCH] /\ l[MITTEL] = k[MITTEL]

LEMMA StillHat ==
  ASSUME NEW k, NEW l, Still(k, l), NEW x \in TasterPuls
  PROVE  Hat(l, x) <=> Hat(k, x)
  BY StufeDerTaster DEF Still, Hat

LEMMA EinreihenStill ==
  ASSUME NEW k \in Geordnet, NEW s \in Puls \ TasterPuls
  PROVE  Still(k, Einreihen(k, s))
  BY StufeDerTaster, EinreihenWirkung DEF Still

LEMMA SendenStill ==
  ASSUME NEW g \in Maschine, NEW a \in Anlagen, NEW sig \in MotorBefehle \cup PartnerSignale
  PROVE  Still(g.dis, Senden(g, a, sig).dis)
<1> DEFINE s == [sig |-> sig, anlage |-> a]
<1>1. sig \in Signal /\ sig \notin TasterSignale
  BY DEF Signal, MotorBefehle, PartnerSignale, TasterSignale
<1>2. s \in Puls \ TasterPuls
  BY <1>1 DEF Puls, TasterPuls
<1>3. Senden(g, a, sig).dis = Einreihen(g.dis, s)
  BY <1>1, SendenTyp
<1>4. g.dis \in Geordnet
  BY DEF Maschine
<1> QED
  BY <1>2, <1>3, <1>4, EinreihenStill

LEMMA SendenEinenStill ==
  ASSUME NEW g \in Maschine, NEW a \in Anlagen, NEW M \in SUBSET MotorBefehle,
         NEW h \in SendenEinen(g, a, M)
  PROVE  Still(g.dis, h.dis)
<1>1. h = g \/ \E sig \in M : h = Senden(g, a, sig)
  BY DEF SendenEinen
<1>2. Still(g.dis, g.dis)
  BY DEF Still
<1>3. ASSUME NEW sig \in M, h = Senden(g, a, sig)
      PROVE  Still(g.dis, h.dis)
  BY <1>3, SendenStill
<1> QED
  BY <1>1, <1>2, <1>3

LEMMA EStopBetretenLage ==
  ASSUME NEW g \in Maschine, NEW a \in Anlagen, NEW p \in Anlagen
  PROVE  /\ Still(g.dis, EStopBetreten(g, a, p).dis)
         /\ EStopBetreten(g, a, p).f.zustand = "EStop"
         /\ EStopBetreten(g, a, p).f.estop = EStopAktiv(p)
<1> DEFINE h == Senden(g, a, "CMD_MTR_STOP")
<1>1. h \in Maschine /\ Still(g.dis, h.dis)
  BY SendenTyp, SendenStill DEF Signal, MotorBefehle
<1>2. EStopBetreten(g, a, p) = [h EXCEPT !.f.zustand = "EStop", !.f.estop = EStopAktiv(p)]
  BY DEF EStopBetreten
<1> HIDE DEF h
<1>3. /\ EStopBetreten(g, a, p).dis = h.dis
      /\ EStopBetreten(g, a, p).f = [h.f EXCEPT !.zustand = "EStop", !.estop = EStopAktiv(p)]
  BY <1>1, <1>2 DEF Maschine
<1>4. h.f \in FSM
  BY <1>1 DEF Maschine
<1>5. /\ EStopBetreten(g, a, p).f.zustand = "EStop"
      /\ EStopBetreten(g, a, p).f.estop = EStopAktiv(p)
  BY <1>3, <1>4 DEF FSM
<1> QED
  BY <1>1, <1>3, <1>5

LEMMA AufWSWartenBetretenStill ==
  ASSUME NEW g \in Maschine, NEW a \in Anlagen
  PROVE  Still(g.dis, AufWSWartenBetreten(g, a).dis)
<1> DEFINE h == Senden(g, a, "CMD_MTR_STOP")
<1>1. h \in Maschine /\ Still(g.dis, h.dis)
  BY SendenTyp, SendenStill DEF Signal, MotorBefehle
<1>2. AufWSWartenBetreten(g, a) = [h EXCEPT !.f.bz = "AufWSWarten"]
  BY DEF AufWSWartenBetreten
<1> HIDE DEF h
<1> QED
  BY <1>1, <1>2 DEF Maschine

LEMMA BetriebBetretenStill ==
  ASSUME NEW g \in Maschine, NEW a \in Anlagen
  PROVE  Still(g.dis, BetriebBetreten(g, a).dis)
<1> DEFINE h == AufWSWartenBetreten(g, a)
<1>1. h \in Maschine /\ Still(g.dis, h.dis)
  BY AufWSWartenBetretenTyp, AufWSWartenBetretenStill
<1>2. BetriebBetreten(g, a) = [h EXCEPT !.f.zustand = "Betriebszustand"]
  BY DEF BetriebBetreten
<1> HIDE DEF h
<1> QED
  BY <1>1, <1>2 DEF Maschine

LEMMA BetriebFortsetzenStill ==
  ASSUME NEW g \in Maschine, NEW a \in Anlagen, NEW h \in BetriebFortsetzen(g, a)
  PROVE  Still(g.dis, h.dis)
<1>1. CASE g.f.bz = "Sortierung"
  <2>1. PICK k \in SendenEinen(g, a, MotorBefehle) :
          h = [k EXCEPT !.f.zustand = "Betriebszustand"]
    BY <1>1 DEF BetriebFortsetzen
  <2>2. k \in Maschine /\ Still(g.dis, k.dis)
    BY SendenEinenTyp, SendenEinenStill DEF Signal
  <2> QED
    BY <2>1, <2>2 DEF Maschine
<1>2. CASE g.f.bz # "Sortierung"
  BY <1>2, BetriebBetretenStill DEF BetriebFortsetzen
<1> QED
  BY <1>1, <1>2

LEMMA BetriebVerlassenStill ==
  ASSUME NEW g \in Maschine, NEW a \in Anlagen, NEW h \in BetriebVerlassen(g, a)
  PROVE  Still(g.dis, h.dis) /\ h.f.zustand = g.f.zustand
<1> DEFINE M == {"CMD_MTR_RECHTS_S", "CMD_MTR_RECHTS_L"}
           r == [g EXCEPT !.f.reset_abgeschlossen = FALSE]
<1>1. PICK k \in IF g.f.bz = "AufWSWarten" THEN {r} ELSE SendenEinen(g, a, M) :
        h = Senden(k, a, "CMD_MTR_STOP")
  BY DEF BetriebVerlassen
<1>2. r \in Maschine /\ r.dis = g.dis /\ r.f.zustand = g.f.zustand
  BY DEF Maschine, FSM
<1>3. k \in Maschine /\ Still(g.dis, k.dis) /\ k.f.zustand = g.f.zustand
  <2>1. CASE k = r
    BY <1>2, <2>1 DEF Still
  <2>2. CASE k \in SendenEinen(g, a, M)
    BY <2>2, SendenEinenTyp, SendenEinenStill DEF Signal, MotorBefehle
  <2> QED
    BY <1>1, <2>1, <2>2
<1>4. Still(k.dis, h.dis) /\ h.f = k.f
  BY <1>1, <1>3, SendenTyp, SendenStill DEF Signal, MotorBefehle
<1> QED
  BY <1>3, <1>4 DEF Still

LEMMA FehlerbehandlungBetretenStill ==
  ASSUME NEW g \in Maschine, NEW a \in Anlagen
  PROVE  /\ Still(g.dis, FehlerbehandlungBetreten(g, a).dis)
         /\ FehlerbehandlungBetreten(g, a).f.zustand = "Fehlerbehandlung"
<1> DEFINE h == Senden(g, a, "CMD_MTR_STOP")
<1>1. h \in Maschine /\ Still(g.dis, h.dis)
  BY SendenTyp, SendenStill DEF Signal, MotorBefehle
<1>2. FehlerbehandlungBetreten(g, a) =
        [h EXCEPT !.f.zustand = "Fehlerbehandlung", !.f.fb = "AnstehendUnquittiert",
                  !.f.fehlerOffen = TRUE]
  BY DEF FehlerbehandlungBetreten
<1> HIDE DEF h
<1>3. /\ FehlerbehandlungBetreten(g, a).dis = h.dis
      /\ FehlerbehandlungBetreten(g, a).f =
           [h.f EXCEPT !.zustand = "Fehlerbehandlung", !.fb = "AnstehendUnquittiert",
                       !.fehlerOffen = TRUE]
  BY <1>1, <1>2 DEF Maschine
<1>4. h.f \in FSM
  BY <1>1 DEF Maschine
<1>5. FehlerbehandlungBetreten(g, a).f.zustand = "Fehlerbehandlung"
  BY <1>3, <1>4 DEF FSM
<1> QED
  BY <1>1, <1>3, <1>5

-----------------------------------------------------------------------------
(***************************************************************************)
(* What the state of a machine says of the buttons in the set t that have  *)
(* been pressed since an emergency stop was last pressed or released.      *)
(***************************************************************************)
Reset(p) == [sig |-> "S_RT_G", anlage |-> p]
Start(p) == [sig |-> "S_ST_G", anlage |-> p]

Verdient(f, t) ==
  /\ f.zustand = "EStop" =>
       \A p \in Anlagen : f.estop = WartenReset(p) => Reset(Nachbar(p)) \in t
  /\ f.zustand = "Ruhezustand" =>
       /\ \A p \in Anlagen : Reset(p) \in t
       /\ \A p \in Anlagen : f.rz = StartTasterWarten(p) => Start(Nachbar(p)) \in t
  /\ f.zustand \in {"Betriebszustand", "Fehlerbehandlung"} => AlleTaster \subseteq t

\* What holds before a machine handles the pulse x.
Davor(x, f, t) ==
  /\ x.sig = "S_E_NG" => x.anlage \in Gemerkt(f)
  /\ x.sig \in {"S_RT_G", "S_ST_G"} => x \in t
  /\ x.sig \notin {"S_E_G", "S_E_NG"} => Verdient(f, t)

\* What a trigger does, in these terms.
Folgt(g, h, s) ==
  /\ Still(g.dis, h.dis)
  /\ Sauber(h.f)
  /\ Lage(h.f) = Danach(Lage(g.f), s)
  /\ \A t : Davor(s, g.f, t) => Verdient(h.f, t)

\* The emergency stops that are remembered depend on the state of estopfsm only.
LEMMA GemerktNachLage ==
  ASSUME NEW f
  PROVE  /\ f.zustand # "EStop" => Gemerkt(f) = {}
         /\ 1 \in Gemerkt(f) <=> Lage(f) \in {"EStop1Aktiv", "EStopsAktiv"}
         /\ 2 \in Gemerkt(f) <=> Lage(f) \in {"EStop2Aktiv", "EStopsAktiv"}
         /\ Gemerkt(f) \subseteq Anlagen
  BY DEF Gemerkt, Lage, EStopAktiv, Anlagen

\* Outside EStop only an emergency stop that is pressed down leads into it.
LEMMA Draussen ==
  ASSUME NEW g \in Maschine, NEW h \in Maschine, NEW s \in Puls,
         g.f.zustand # "EStop", h.f.zustand # "EStop", s.sig # "S_E_G"
  PROVE  Sauber(h.f) /\ Lage(h.f) = Danach(Lage(g.f), s)
<1>1. Lage(g.f) = "Ende" /\ Lage(h.f) = "Ende" /\ Sauber(h.f)
  BY DEF Lage, Sauber
<1>2. s.anlage \in {1, 2}
  BY DEF Puls, Anlagen
<1>3. /\ EStop_s_e_ng([estop |-> "Ende"], s.anlage) = "Ende"
      /\ EStop_s_rt_g([estop |-> "Ende"], s.anlage) = "Ende"
  BY <1>2 DEF EStop_s_e_ng, EStop_s_rt_g, EStopAktiv, WartenReset
<1>4. Danach("Ende", s) = "Ende"
  BY <1>3 DEF Danach
<1> QED
  BY <1>1, <1>4

LEMMA Hinein ==
  ASSUME NEW g \in Maschine, NEW a \in Anlagen, NEW s \in Puls, g.f.zustand # "EStop",
         s.sig = "S_E_G", NEW k \in Maschine, Still(g.dis, k.dis),
         NEW h, h = EStopBetreten(k, a, s.anlage)
  PROVE  Folgt(g, h, s)
<1>1. s.anlage \in Anlagen
  BY DEF Puls
<1>2. /\ Still(k.dis, h.dis)
      /\ h.f.zustand = "EStop" /\ h.f.estop = EStopAktiv(s.anlage)
  BY <1>1, EStopBetretenLage
<1>3. Still(g.dis, h.dis)
  BY <1>2 DEF Still
<1>4. EStopAktiv(s.anlage) \notin {"Ende", WartenReset(1), WartenReset(2)}
  BY DEF EStopAktiv, WartenReset
<1>5. Lage(g.f) = "Ende" /\ Lage(h.f) = EStopAktiv(s.anlage) /\ Sauber(h.f)
  BY <1>2, <1>4 DEF Lage, Sauber
<1>6. Danach("Ende", s) = EStopAktiv(s.anlage)
  BY DEF Danach
<1>7. ASSUME NEW t PROVE Verdient(h.f, t)
  BY <1>2, <1>4 DEF Verdient, Anlagen
<1> QED
  BY <1>3, <1>5, <1>6, <1>7 DEF Folgt

LEMMA InEStopLage ==
  ASSUME NEW g \in Maschine, NEW s \in Puls, g.f.zustand = "EStop", Sauber(g.f),
         NEW h \in InEStop(g, s)
  PROVE  Folgt(g, h, s)
<1>1. /\ s.anlage \in {1, 2} /\ Nachbar(1) = 2 /\ Nachbar(2) = 1
      /\ g.f.estop \in EStopZustand \ {"Ende"}
      /\ Lage(g.f) = g.f.estop
  BY DEF Puls, Anlagen, Nachbar, Maschine, FSM, Sauber, Lage
<1>2. ASSUME NEW sub \in EStopZustand, h = EStop_handleDefaultExit(g, sub)
      PROVE  /\ h.dis = g.dis
             /\ sub = "Ende" => h.f.zustand = "Ruhezustand" /\ h.f.rz = "Wartezustand"
             /\ sub # "Ende" => h.f.zustand = "EStop" /\ h.f.estop = sub
  <2> DEFINE k == [g EXCEPT !.f.estop = sub]
  <2>1. k \in Maschine /\ k.dis = g.dis /\ k.f.zustand = "EStop" /\ k.f.estop = sub
    BY DEF Maschine, FSM
  <2>2. CASE sub = "Ende"
    <3> DEFINE d == datenprozessLoeschen(k)
    <3>1. h = RuhezustandBetreten(d)
      BY <1>2, <2>2 DEF EStop_handleDefaultExit
    <3>2. d \in Maschine /\ d.dis = g.dis
      BY <2>1, datenprozessLoeschenTyp
    <3> HIDE DEF d
    <3>3. h.dis = g.dis /\ h.f = [d.f EXCEPT !.zustand = "Ruhezustand", !.rz = "Wartezustand"]
      BY <3>1, <3>2 DEF RuhezustandBetreten, Maschine
    <3>4. d.f \in FSM
      BY <3>2 DEF Maschine
    <3> QED
      BY <2>2, <3>3, <3>4 DEF FSM
  <2>3. CASE sub # "Ende"
    <3>1. h = k
      BY <1>2, <2>3 DEF EStop_handleDefaultExit
    <3> QED
      BY <2>1, <2>3, <3>1
  <2> QED
    BY <2>2, <2>3
<1>3. ASSUME NEW sub \in EStopZustand, h = EStop_handleDefaultExit(g, sub),
             sub = Danach(g.f.estop, s),
             \A t : Davor(s, g.f, t) =>
               /\ \A p \in Anlagen : sub = WartenReset(p) => Reset(Nachbar(p)) \in t
               /\ sub = "Ende" => \A p \in Anlagen : Reset(p) \in t
      PROVE  Folgt(g, h, s)
  <2>1. Still(g.dis, h.dis)
    BY <1>2, <1>3 DEF Still
  <2>2. Sauber(h.f) /\ Lage(h.f) = sub
    BY <1>2, <1>3 DEF Sauber, Lage
  <2>3. ASSUME NEW t, Davor(s, g.f, t) PROVE Verdient(h.f, t)
    <3>1. CASE sub = "Ende"
      <4>1. \A p \in Anlagen : StartTasterWarten(p) # "Wartezustand"
        BY DEF StartTasterWarten
      <4> QED
        BY <1>2, <1>3, <2>3, <3>1, <4>1 DEF Verdient
    <3>2. CASE sub # "Ende"
      BY <1>2, <1>3, <2>3, <3>2 DEF Verdient
    <3> QED
      BY <3>1, <3>2
  <2> QED
    BY <1>1, <1>3, <2>1, <2>2, <2>3 DEF Folgt
<1>4. CASE s.sig = "S_E_G"
  <2> DEFINE sub == EStop_s_e_g(g.f, s.anlage)
  <2>1. h = EStop_handleDefaultExit(g, sub)
    BY <1>4 DEF InEStop
  <2>2. /\ sub \in EStopZustand \ {"Ende", "WartenReset1", "WartenReset2"}
        /\ sub = EStop_s_e_g([estop |-> g.f.estop], s.anlage)
    BY <1>1 DEF EStop_s_e_g, EStopZustand, EStopAktiv
  <2>3. sub = Danach(g.f.estop, s)
    BY <1>1, <1>4, <2>2 DEF Danach
  <2>4. \A p \in Anlagen : sub # WartenReset(p)
    BY <2>2 DEF WartenReset
  <2> HIDE DEF sub
  <2> QED
    BY <1>3, <2>1, <2>2, <2>3, <2>4
<1>5. CASE s.sig = "S_E_NG"
  <2> DEFINE sub == EStop_s_e_ng(g.f, s.anlage)
  <2>1. h = EStop_handleDefaultExit(g, sub)
    BY <1>5 DEF InEStop
  <2>2. /\ sub \in EStopZustand \ {"Ende"}
        /\ sub = EStop_s_e_ng([estop |-> g.f.estop], s.anlage)
    BY <1>1 DEF EStop_s_e_ng, EStopZustand, EStopAktiv
  <2>3. sub = Danach(g.f.estop, s)
    BY <1>1, <1>5, <2>2 DEF Danach
  <2>4. ASSUME NEW t, Davor(s, g.f, t) PROVE \A p \in Anlagen : sub # WartenReset(p)
    <3>1. s.anlage \in Gemerkt(g.f)
      BY <1>5, <2>4 DEF Davor
    <3>2. g.f.estop \in {"EStop1Aktiv", "EStop2Aktiv", "EStopsAktiv"}
      BY <1>1, <3>1 DEF Gemerkt, EStopAktiv
    <3>3. sub \in {"EStop1Aktiv", "EStop2Aktiv", "ResetErlaubt"} \cup {g.f.estop}
      BY <1>1 DEF EStop_s_e_ng, EStopAktiv
    <3> HIDE DEF sub
    <3> QED
      BY <3>2, <3>3 DEF WartenReset
  <2> HIDE DEF sub
  <2> QED
    BY <1>3, <2>1, <2>2, <2>3, <2>4
<1>6. CASE s.sig = "S_RT_G"
  <2> DEFINE sub == EStop_s_rt_g(g.f, s.anlage)
  <2>1. h = EStop_handleDefaultExit(g, sub)
    BY <1>6 DEF InEStop
  <2>2. /\ sub \in EStopZustand
        /\ sub = EStop_s_rt_g([estop |-> g.f.estop], s.anlage)
    BY <1>1 DEF EStop_s_rt_g, EStopZustand, WartenReset
  <2>3. sub = Danach(g.f.estop, s)
    BY <1>1, <1>6, <2>2 DEF Danach
  <2>4. /\ s = Reset(s.anlage)
        /\ \A p \in {1, 2} : Nachbar(p) \in {1, 2} /\ Nachbar(Nachbar(p)) = p
        /\ WartenReset(1) # WartenReset(2)
    BY <1>1, <1>6 DEF Puls, Reset, WartenReset
  <2>5. \/ g.f.estop = "ResetErlaubt" /\ sub = WartenReset(Nachbar(s.anlage))
        \/ g.f.estop = WartenReset(s.anlage) /\ sub = "Ende"
        \/ sub = g.f.estop
    BY DEF EStop_s_rt_g
  <2>6. ASSUME NEW t, Davor(s, g.f, t)
        PROVE  /\ \A p \in Anlagen : sub = WartenReset(p) => Reset(Nachbar(p)) \in t
               /\ sub = "Ende" => \A p \in Anlagen : Reset(p) \in t
    <3>1. /\ Reset(s.anlage) \in t
          /\ \A p \in Anlagen : g.f.estop = WartenReset(p) => Reset(Nachbar(p)) \in t
      BY <1>6, <2>4, <2>6 DEF Davor, Verdient
    <3> HIDE DEF sub
    <3>2. CASE g.f.estop = "ResetErlaubt" /\ sub = WartenReset(Nachbar(s.anlage))
      <4>1. sub # "Ende" /\ \A p \in Anlagen : sub = WartenReset(p) => p = Nachbar(s.anlage)
        BY <1>1, <2>4, <3>2 DEF WartenReset, Anlagen
      <4> QED
        BY <1>1, <2>4, <3>1, <4>1
    <3>3. CASE g.f.estop = WartenReset(s.anlage) /\ sub = "Ende"
      <4>1. \A p \in Anlagen : sub # WartenReset(p)
        BY <3>3 DEF WartenReset
      <4>2. Reset(Nachbar(s.anlage)) \in t
        BY <1>1, <3>1, <3>3 DEF Anlagen
      <4> QED
        BY <1>1, <3>1, <4>1, <4>2 DEF Anlagen
    <3>4. CASE sub = g.f.estop
      BY <1>1, <3>1, <3>4
    <3> QED
      BY <2>5, <3>2, <3>3, <3>4 DEF sub
  <2> HIDE DEF sub
  <2> QED
    BY <1>3, <2>1, <2>2, <2>3, <2>6
<1>7. CASE s.sig \notin {"S_E_G", "S_E_NG", "S_RT_G"}
  <2>1. h = g
    BY <1>7 DEF InEStop
  <2>2. Danach(Lage(g.f), s) = Lage(g.f)
    BY <1>7 DEF Danach
  <2>3. \A t : Davor(s, g.f, t) => Verdient(g.f, t)
    BY <1>7 DEF Davor
  <2> QED
    BY <2>1, <2>2, <2>3 DEF Folgt, Still
<1> QED
  BY <1>4, <1>5, <1>6, <1>7

LEMMA InRuhezustandLage ==
  ASSUME NEW g \in Maschine, NEW a \in Anlagen, NEW s \in Puls,
         g.f.zustand = "Ruhezustand", NEW h \in InRuhezustand(g, a, s)
  PROVE  Folgt(g, h, s)
<1>1. /\ s.anlage \in {1, 2} /\ Nachbar(1) = 2 /\ Nachbar(2) = 1
      /\ s.sig = "S_RT_G" => s = Reset(s.anlage)
      /\ s.sig = "S_ST_G" => s = Start(s.anlage)
      /\ \A p, q \in {1, 2} : StartTasterWarten(p) = StartTasterWarten(q) => p = q
  BY DEF Puls, Anlagen, Nachbar, Reset, Start, StartTasterWarten
<1>2. h \in Maschine
  BY InRuhezustandTyp
<1>3. CASE s.sig = "S_E_G"
  <2>1. h = EStopBetreten(g, a, s.anlage) /\ Still(g.dis, g.dis)
    BY <1>3 DEF InRuhezustand, Still
  <2> QED
    BY <1>3, <2>1, Hinein
<1>4. ASSUME s.sig # "S_E_G", Still(g.dis, h.dis), h.f.zustand # "EStop",
             \A t : Davor(s, g.f, t) => Verdient(h.f, t)
      PROVE  Folgt(g, h, s)
  BY <1>2, <1>4, Draussen DEF Folgt
<1>5. ASSUME s.sig \notin {"S_E_G", "S_E_NG"}, Still(g.dis, h.dis), h.f = g.f
      PROVE  Folgt(g, h, s)
  BY <1>4, <1>5 DEF Davor
<1>6. CASE s.sig = "S_ST_G"
  <2>1. h \in Ruhe_s_st_g(g, a, s.anlage)
    BY <1>6 DEF InRuhezustand
  <2>2. CASE h = [g EXCEPT !.f.rz = StartTasterWarten(Nachbar(s.anlage))]
    <3>1. /\ h.dis = g.dis /\ h.f.zustand = "Ruhezustand"
          /\ h.f.rz = StartTasterWarten(Nachbar(s.anlage))
      BY <2>2 DEF Maschine, FSM
    <3>2. ASSUME NEW t, Davor(s, g.f, t) PROVE Verdient(h.f, t)
      <4>1. Start(s.anlage) \in t /\ \A p \in Anlagen : Reset(p) \in t
        BY <1>1, <1>6, <3>2 DEF Davor, Verdient
      <4>2. ASSUME NEW p \in Anlagen, h.f.rz = StartTasterWarten(p)
            PROVE  Start(Nachbar(p)) \in t
        BY <1>1, <3>1, <4>1, <4>2 DEF Anlagen
      <4> QED
        BY <3>1, <4>1, <4>2 DEF Verdient
    <3> QED
      BY <1>4, <1>6, <3>1, <3>2 DEF Still
  <2>3. CASE /\ g.f.rz = StartTasterWarten(s.anlage)
             /\ h = BetriebBetreten(g, a) \/ h \in BetriebFortsetzen(g, a)
    <3>1. Still(g.dis, h.dis) /\ h.f.zustand = "Betriebszustand"
      BY <2>3, BetriebBetretenTyp, BetriebBetretenStill, BetriebFortsetzenTyp,
         BetriebFortsetzenStill
    <3>2. ASSUME NEW t, Davor(s, g.f, t) PROVE Verdient(h.f, t)
      <4>1. /\ Start(s.anlage) \in t /\ Start(Nachbar(s.anlage)) \in t
            /\ \A p \in Anlagen : Reset(p) \in t
        BY <1>1, <1>6, <2>3, <3>2 DEF Davor, Verdient, Anlagen
      <4>2. \A p \in Anlagen : Start(p) \in t
        BY <1>1, <4>1 DEF Anlagen
      <4>3. AlleTaster \subseteq t
        BY <4>1, <4>2 DEF AlleTaster, Reset, Start
      <4> QED
        BY <3>1, <4>3 DEF Verdient
    <3> QED
      BY <1>4, <1>6, <3>1, <3>2
  <2>4. CASE h = g
    BY <1>5, <1>6, <2>4 DEF Still
  <2> QED
    BY <2>1, <2>2, <2>3, <2>4 DEF Ruhe_s_st_g
<1>7. CASE s.sig = "S_RT_G"
  <2>1. h \in Ruhe_s_rt_g(g, s.anlage)
    BY <1>7 DEF InRuhezustand
  <2>2. ASSUME NEW rz \in {"ResetTasterWarten1", "ResetTasterWarten2", "Betriebsbereit"},
               NEW k \in Maschine, k.dis = g.dis, k.f.zustand = "Ruhezustand",
               h = [k EXCEPT !.f.rz = rz]
        PROVE  Folgt(g, h, s)
    <3>1. h.dis = g.dis /\ h.f.zustand = "Ruhezustand" /\ h.f.rz = rz
      BY <2>2 DEF Maschine, FSM
    <3>2. \A p \in Anlagen : rz # StartTasterWarten(p)
      BY DEF StartTasterWarten
    <3>3. ASSUME NEW t, Davor(s, g.f, t) PROVE Verdient(h.f, t)
      BY <1>7, <3>1, <3>2, <3>3 DEF Davor, Verdient
    <3> QED
      BY <1>4, <1>7, <3>1, <3>3 DEF Still
  <2>3. CASE h = [g EXCEPT !.f.rz = ResetTasterWarten(Nachbar(s.anlage))]
    BY <2>2, <2>3 DEF ResetTasterWarten
  <2>4. CASE h = [datenprozessLoeschen(g) EXCEPT !.f.rz = "Betriebsbereit"]
    <3>1. datenprozessLoeschen(g) \in Maschine /\ datenprozessLoeschen(g).dis = g.dis
          /\ datenprozessLoeschen(g).f.zustand = "Ruhezustand"
      BY datenprozessLoeschenTyp
    <3> QED
      BY <2>2, <2>4, <3>1
  <2>5. CASE h = g
    BY <1>5, <1>7, <2>5 DEF Still
  <2> QED
    BY <2>1, <2>3, <2>4, <2>5 DEF Ruhe_s_rt_g
<1>8. CASE s.sig = "S_STP_G"
  <2>1. h = Senden(g, a, "CMD_MTR_RECHTS_S")
    BY <1>8 DEF InRuhezustand
  <2>2. Still(g.dis, h.dis) /\ h.f = g.f
    BY <2>1, SendenTyp, SendenStill DEF Signal, MotorBefehle
  <2> QED
    BY <1>5, <1>8, <2>2
<1>9. CASE s.sig \notin {"S_E_G", "S_ST_G", "S_RT_G", "S_STP_G"}
  <2>1. h = g
    BY <1>9 DEF InRuhezustand
  <2>2. CASE s.sig = "S_E_NG"
    <3>1. \A t : ~Davor(s, g.f, t)
      BY <2>2, GemerktNachLage DEF Davor
    <3> QED
      BY <1>4, <2>1, <2>2, <3>1 DEF Still
  <2> QED
    BY <1>5, <1>9, <2>1, <2>2 DEF Still
<1> QED
  BY <1>3, <1>6, <1>7, <1>8, <1>9

\* From Betriebszustand and Fehlerbehandlung a plant gets to Ruhezustand, or stays
\* with one of the two, when no emergency stop is pressed.
LEMMA InBetriebFolgt ==
  ASSUME NEW g \in Maschine, NEW h \in Maschine, NEW s \in Puls, s.sig # "S_E_G",
         g.f.zustand \in {"Betriebszustand", "Fehlerbehandlung"},
         h.f.zustand \in {"Betriebszustand", "Fehlerbehandlung", "Ruhezustand"},
         Still(g.dis, h.dis)
  PROVE  Folgt(g, h, s)
<1>1. Sauber(h.f) /\ Lage(h.f) = Danach(Lage(g.f), s)
  BY Draussen
<1>2. ASSUME NEW t, Davor(s, g.f, t) PROVE Verdient(h.f, t)
  <2>1. s.sig # "S_E_NG"
    BY <1>2, GemerktNachLage DEF Davor
  <2>2. AlleTaster \subseteq t
    BY <1>2, <2>1 DEF Davor, Verdient
  <2>3. \A p \in Anlagen : Reset(p) \in t /\ Start(Nachbar(p)) \in t
    BY <2>2, NachbarIst DEF AlleTaster, Reset, Start
  <2> QED
    BY <2>2, <2>3 DEF Verdient
<1> QED
  BY <1>1, <1>2 DEF Folgt

LEMMA InBetriebszustandLage ==
  ASSUME NEW g \in Maschine, NEW a \in Anlagen, NEW s \in Puls,
         g.f.zustand = "Betriebszustand", NEW h \in InBetriebszustand(g, a, s)
  PROVE  Folgt(g, h, s)
<1>1. h \in Maschine
  BY InBetriebszustandTyp
<1>2. CASE s.sig = "S_E_G"
  <2>1. PICK k \in BetriebVerlassen(g, a) : h = EStopBetreten(k, a, s.anlage)
    BY <1>2 DEF InBetriebszustand
  <2> QED
    BY <1>2, <2>1, BetriebVerlassenTyp, BetriebVerlassenStill, Hinein
<1>3. CASE s.sig = "S_STP_G"
  <2>1. PICK k \in BetriebVerlassen(g, a) : h = RuhezustandBetreten(k)
    BY <1>3 DEF InBetriebszustand
  <2>2. k \in Maschine /\ Still(g.dis, k.dis)
    BY BetriebVerlassenTyp, BetriebVerlassenStill
  <2>3. h.dis = k.dis /\ h.f.zustand = "Ruhezustand"
    <3>1. h.dis = k.dis
      BY <2>1, <2>2 DEF RuhezustandBetreten, Maschine
    <3> QED
      BY <2>1, <2>2, <3>1, RuhezustandBetretenTyp
  <2>4. Still(g.dis, h.dis)
    BY <2>2, <2>3
  <2> QED
    BY <1>1, <1>3, <2>3, <2>4, InBetriebFolgt
<1>4. CASE s.sig = "S_PARTNER_FEHLER"
  <2> DEFINE v == Senden(g, a, "S_PARTNER_FEHLER")
  <2>1. PICK k \in BetriebVerlassen(v, a) : h = FehlerbehandlungBetreten(k, a)
    BY <1>4 DEF InBetriebszustand, Betrieb_s_partner_fehler
  <2>2. v \in Maschine /\ Still(g.dis, v.dis)
    BY SendenTyp, SendenStill DEF Signal, PartnerSignale
  <2> HIDE DEF v
  <2>3. k \in Maschine /\ Still(v.dis, k.dis)
    BY <2>2, BetriebVerlassenTyp, BetriebVerlassenStill
  <2>4. Still(k.dis, h.dis) /\ h.f.zustand = "Fehlerbehandlung"
    BY <2>1, <2>3, FehlerbehandlungBetretenStill
  <2>5. Still(g.dis, h.dis)
    BY <2>2, <2>3, <2>4 DEF Still
  <2> QED
    BY <1>1, <1>4, <2>4, <2>5, InBetriebFolgt
<1>5. CASE s.sig \notin {"S_E_G", "S_STP_G", "S_PARTNER_FEHLER"}
  <2>1. h = g
    BY <1>5 DEF InBetriebszustand
  <2> QED
    BY <1>5, <2>1, InBetriebFolgt DEF Still
<1> QED
  BY <1>2, <1>3, <1>4, <1>5

LEMMA InFehlerbehandlungLage ==
  ASSUME NEW g \in Maschine, NEW a \in Anlagen, NEW s \in Puls,
         g.f.zustand = "Fehlerbehandlung", NEW h \in InFehlerbehandlung(g, a, s)
  PROVE  Folgt(g, h, s)
<1>1. h \in Maschine
  BY InFehlerbehandlungTyp
<1>2. CASE s.sig = "S_E_G"
  BY <1>2, Hinein DEF InFehlerbehandlung, Still
<1>3. ASSUME s.sig # "S_E_G", NEW k \in Maschine, k.dis = g.dis,
             h \in BetriebFortsetzen(Senden(k, a, "S_PARTNER_OK"), a)
      PROVE  Folgt(g, h, s)
  <2> DEFINE v == Senden(k, a, "S_PARTNER_OK")
  <2>1. v \in Maschine /\ Still(k.dis, v.dis)
    BY SendenTyp, SendenStill DEF Signal, PartnerSignale
  <2>2. h \in BetriebFortsetzen(v, a)
    BY <1>3
  <2> HIDE DEF v
  <2>3. Still(v.dis, h.dis) /\ h.f.zustand = "Betriebszustand"
    BY <2>1, <2>2, BetriebFortsetzenTyp, BetriebFortsetzenStill
  <2>4. Still(g.dis, h.dis)
    BY <1>3, <2>1, <2>3 DEF Still
  <2> QED
    BY <1>1, <1>3, <2>3, <2>4, InBetriebFolgt
<1>4. ASSUME s.sig # "S_E_G", h.dis = g.dis, h.f.zustand = "Fehlerbehandlung"
      PROVE  Folgt(g, h, s)
  BY <1>1, <1>4, InBetriebFolgt DEF Still
<1>5. CASE s.sig = "S_RT_G"
  <2> DEFINE q == [g EXCEPT !.f.fehler = "keinFehler", !.f.fehlerOffen = FALSE,
                            !.f.fb = "Ende"]
             r == [g EXCEPT !.f.fb = "AnstehendQuittiert", !.f.fehler = "keinFehler",
                            !.f.fehlerOffen = FALSE]
  <2>1. q \in Maschine /\ q.dis = g.dis /\ r.dis = g.dis /\ r.f.zustand = g.f.zustand
    BY DEF Maschine, FSM, FBZustand, Fehler
  <2>2. h \in Fehler_s_rt_g(g, a, s.anlage)
    BY <1>5 DEF InFehlerbehandlung
  <2>3. h = r \/ h = g \/ h \in BetriebFortsetzen(Senden(q, a, "S_PARTNER_OK"), a)
    BY <2>2 DEF Fehler_s_rt_g
  <2> HIDE DEF q, r
  <2> QED
    BY <1>3, <1>4, <1>5, <2>1, <2>3
<1>6. CASE s.sig = "S_ST_G"
  <2> DEFINE q == [g EXCEPT !.f.fb = "Ende"]
  <2>1. q \in Maschine /\ q.dis = g.dis
    BY DEF Maschine, FSM, FBZustand
  <2>2. h \in Fehler_s_st_g(g, a, s.anlage)
    BY <1>6 DEF InFehlerbehandlung
  <2>3. h = g \/ h \in BetriebFortsetzen(Senden(q, a, "S_PARTNER_OK"), a)
    BY <2>2 DEF Fehler_s_st_g
  <2> HIDE DEF q
  <2> QED
    BY <1>3, <1>4, <1>6, <2>1, <2>3
<1>7. CASE s.sig = "S_PARTNER_OK"
  <2>1. h \in BetriebFortsetzen(g, a)
    BY <1>7 DEF InFehlerbehandlung
  <2> QED
    BY <1>1, <1>7, <2>1, BetriebFortsetzenTyp, BetriebFortsetzenStill, InBetriebFolgt
<1>8. CASE s.sig \notin {"S_E_G", "S_RT_G", "S_ST_G", "S_PARTNER_OK"}
  <2>1. h = g \/ h = [g EXCEPT !.f.fb = "GegangenUnquittiert"]
    BY <1>8 DEF InFehlerbehandlung, Fehler_gegangen
  <2>2. h.dis = g.dis /\ h.f.zustand = "Fehlerbehandlung"
    BY <2>1 DEF Maschine, FSM
  <2> QED
    BY <1>4, <1>8, <2>2
<1> QED
  BY <1>2, <1>5, <1>6, <1>7, <1>8

LEMMA handleEventLage ==
  ASSUME NEW g \in Maschine, NEW a \in Anlagen, NEW s \in Puls, Sauber(g.f),
         NEW h \in handleEvent(g, a, s)
  PROVE  Folgt(g, h, s)
<1>1. g.f.zustand \in {"Ruhezustand", "Betriebszustand", "Fehlerbehandlung", "EStop"}
  BY DEF Maschine, FSM
<1> QED
  BY <1>1, InEStopLage, InRuhezustandLage, InBetriebszustandLage, InFehlerbehandlungLage
  DEF handleEvent

\* A step of the sorting machine does not touch what the root machine remembers.
LEMMA SortierSchrittLage ==
  ASSUME NEW g \in Maschine, NEW a \in Anlagen, g.f.zustand = "Betriebszustand",
         NEW h \in SortierSchritt(g, a)
  PROVE  /\ Still(g.dis, h.dis)
         /\ Sauber(h.f) /\ Lage(h.f) = Lage(g.f)
         /\ \A t : Verdient(g.f, t) => Verdient(h.f, t)
<1>1. Still(g.dis, h.dis) /\ h.f.zustand \in {"Betriebszustand", "Fehlerbehandlung"}
  <2>1. CASE h \in SortierenBeginnen(g, a)
    <3> DEFINE k == [g EXCEPT !.f.bz = "Sortierung", !.f.reset_abgeschlossen = FALSE]
    <3>1. k \in Maschine /\ k.dis = g.dis /\ k.f.zustand = "Betriebszustand"
      BY DEF Maschine, FSM, BZZustand
    <3>2. h \in SendenEinen(k, a, {"CMD_MTR_RECHTS_S"})
      BY <2>1 DEF SortierenBeginnen
    <3> HIDE DEF k
    <3>3. Still(k.dis, h.dis) /\ h.f = k.f
      BY <3>1, <3>2, SendenEinenTyp, SendenEinenStill DEF Signal, MotorBefehle
    <3> QED
      BY <3>1, <3>3
  <2>2. CASE h \in SendenEinen(g, a, MotorBefehle)
    BY <2>2, SendenEinenTyp, SendenEinenStill DEF Signal
  <2>3. CASE h \in SortierenBeenden(g, a)
    <3>1. PICK k \in SendenEinen(g, a, {"CMD_MTR_RECHTS_S", "CMD_MTR_RECHTS_L"}) :
            h = AufWSWartenBetreten(k, a)
      BY <2>3 DEF SortierenBeenden
    <3>2. k \in Maschine /\ k.f = g.f /\ Still(g.dis, k.dis)
      BY SendenEinenTyp, SendenEinenStill DEF Signal, MotorBefehle
    <3>3. Still(k.dis, h.dis) /\ h.f.zustand = k.f.zustand
      BY <3>1, <3>2, AufWSWartenBetretenTyp, AufWSWartenBetretenStill
    <3> QED
      BY <3>2, <3>3 DEF Still
  <2>4. CASE h \in Betrieb_fehlerExit(g, a)
    <3>1. PICK x \in Fehlerarten :
            \E k \in BetriebVerlassen(Senden([g EXCEPT !.f.fehler = x], a, "S_PARTNER_FEHLER"), a) :
              h = FehlerbehandlungBetreten(k, a)
      BY <2>4 DEF Betrieb_fehlerExit
    <3> DEFINE v == [g EXCEPT !.f.fehler = x]
               w == Senden(v, a, "S_PARTNER_FEHLER")
    <3>2. v \in Maschine /\ v.dis = g.dis
      BY FehlerAnnahme DEF Maschine, FSM
    <3> HIDE DEF v
    <3>3. w \in Maschine /\ Still(v.dis, w.dis)
      BY <3>2, SendenTyp, SendenStill DEF Signal, PartnerSignale
    <3>4. PICK k \in BetriebVerlassen(w, a) : h = FehlerbehandlungBetreten(k, a)
      BY <3>1 DEF v
    <3> HIDE DEF w
    <3>5. k \in Maschine /\ Still(w.dis, k.dis)
      BY <3>3, BetriebVerlassenTyp, BetriebVerlassenStill
    <3>6. Still(k.dis, h.dis) /\ h.f.zustand = "Fehlerbehandlung"
      BY <3>4, <3>5, FehlerbehandlungBetretenStill
    <3> QED
      BY <3>2, <3>3, <3>5, <3>6 DEF Still
  <2> QED
    BY <2>1, <2>2, <2>3, <2>4 DEF SortierSchritt
<1>2. Sauber(h.f) /\ Lage(h.f) = Lage(g.f)
  BY <1>1 DEF Sauber, Lage
<1>3. ASSUME NEW t, Verdient(g.f, t) PROVE Verdient(h.f, t)
  BY <1>1, <1>3 DEF Verdient
<1> QED
  BY <1>1, <1>2, <1>3

-----------------------------------------------------------------------------
(***************************************************************************)
(* The inductive invariant.  NotHaltAbbild looks at the moment when no     *)
(* pulse of an emergency stop is under way; before, each pulse is on the   *)
(* way from its panel to one of the two state machines, and a release has  *)
(* not overtaken the press it belongs to.                                  *)
(***************************************************************************)

\* The pulse x still has to be handled by the state machine of plant c.
AufWeg(x, c) ==
  \/ Hat(dis[x.anlage], x)
  \/ c # x.anlage /\ Hat(dis[c], x)
  \/ Hat(hfsm[c], x)

\* The release of a's emergency stop is not ahead of its press on the way to c.
NichtUeberholt(a, c) ==
  /\ Hat(hfsm[c], Loesung(a)) => ~Hat(dis[a], Druck(a)) /\ ~Hat(dis[c], Druck(a))
  /\ c # a /\ Hat(dis[c], Loesung(a)) => ~Hat(dis[a], Druck(a))

Abbild(a, c) ==
  /\ gedrueckt[a]  => /\ ~AufWeg(Loesung(a), c)
                      /\ AufWeg(Druck(a), c) \/ a \in Gemerkt(fsm[c])
  /\ ~gedrueckt[a] => (AufWeg(Druck(a), c) \/ a \in Gemerkt(fsm[c]) => AufWeg(Loesung(a), c))

WegInv ==
  /\ leitung /\ \A a \in Anlagen : verbunden[a]
  /\ \A a \in Anlagen : Sauber(fsm[a])
  /\ \A a, c \in Anlagen : NichtUeberholt(a, c) /\ Abbild(a, c)

LEMMA GemerktDanach ==
  ASSUME NEW f, NEW h, NEW s \in Puls, NEW a \in Anlagen,
         Lage(f) \in EStopZustand, Lage(h) = Danach(Lage(f), s)
  PROVE  /\ s = Druck(a) => a \in Gemerkt(h)
         /\ s = Loesung(a) => a \notin Gemerkt(h)
         /\ s \notin {Druck(a), Loesung(a)} => (a \in Gemerkt(h) <=> a \in Gemerkt(f))
<1> DEFINE z == Lage(f)
<1>1. s.anlage \in {1, 2} /\ a \in {1, 2} /\ Nachbar(1) = 2 /\ Nachbar(2) = 1
  BY DEF Puls, Anlagen, Nachbar
<1>2. CASE s.sig = "S_E_G"
  <2>1. s = Druck(a) <=> s.anlage = a
    BY <1>2 DEF Puls, Druck
  <2>2. s # Loesung(a)
    BY <1>2 DEF Loesung
  <2>3. Lage(h) = IF z = "Ende" THEN EStopAktiv(s.anlage) ELSE EStop_s_e_g([estop |-> z], s.anlage)
    BY <1>2 DEF Danach
  <2> QED
    BY <1>1, <2>1, <2>2, <2>3, GemerktNachLage DEF EStop_s_e_g, EStopAktiv, EStopZustand
<1>3. CASE s.sig = "S_E_NG"
  <2>1. s = Loesung(a) <=> s.anlage = a
    BY <1>3 DEF Puls, Loesung
  <2>2. s # Druck(a)
    BY <1>3 DEF Druck
  <2>3. Lage(h) = EStop_s_e_ng([estop |-> z], s.anlage)
    BY <1>3 DEF Danach
  <2> QED
    BY <1>1, <2>1, <2>2, <2>3, GemerktNachLage DEF EStop_s_e_ng, EStopAktiv, EStopZustand
<1>4. CASE s.sig = "S_RT_G"
  <2>1. Lage(h) = EStop_s_rt_g([estop |-> z], s.anlage)
    BY <1>4 DEF Danach
  <2> QED
    BY <1>1, <1>4, <2>1, GemerktNachLage
    DEF EStop_s_rt_g, EStopZustand, WartenReset, Druck, Loesung
<1>5. CASE s.sig \notin {"S_E_G", "S_E_NG", "S_RT_G"}
  <2>1. Lage(h) = Lage(f)
    BY <1>5 DEF Danach
  <2> QED
    <3>1. s # Druck(a) /\ s # Loesung(a)
      BY <1>5 DEF Druck, Loesung
    <3>2. a \in Gemerkt(h) <=> a \in Gemerkt(f)
      BY <1>1, <2>1, GemerktNachLage
    <3> QED
      BY <3>1, <3>2
<1> QED
  BY <1>2, <1>3, <1>4, <1>5

\* NotHaltUnterwegs, in the terms of Hat.
LEMMA UnterwegsIst ==
  ASSUME IInv, NEW a \in Anlagen
  PROVE  NotHaltUnterwegs(a) <=> \E b \in Anlagen, x \in {Druck(a), Loesung(a)} :
                                   Hat(dis[b], x) \/ Hat(hfsm[b], x)
<1> DEFINE N == [sig : {"S_E_G", "S_E_NG"}, anlage : {a}]
<1>1. Druck(a) \in N /\ Loesung(a) \in N
  BY DEF Druck, Loesung
<1>2. ASSUME NEW y \in N PROVE y \in {Druck(a), Loesung(a)}
  <2>1. CASE y.sig = "S_E_G"
    BY <2>1 DEF Druck
  <2>2. CASE y.sig = "S_E_NG"
    BY <2>2 DEF Loesung
  <2> QED
    BY <2>1, <2>2
<1>3. ASSUME NEW k \in Geordnet, NEW x \in {Druck(a), Loesung(a)}
      PROVE  (\E p \in Stufen : \E i \in 1 .. Len(k[p]) : k[p][i] = x) <=> Hat(k, x)
  <2>1. bestimmtPrioritaet(x.sig) \in Stufen
    BY StufeDerTaster, PrioritaetIstStufe DEF Puls
  <2>2. \A p \in Stufen : \A i \in 1 .. Len(k[p]) :
          k[p][i] = x => p = bestimmtPrioritaet(x.sig)
    BY DEF Geordnet
  <2> QED
    BY <2>1, <2>2 DEF Hat, Enthaelt
<1>4. \A b \in Anlagen : dis[b] \in Geordnet /\ hfsm[b] \in Geordnet
  BY DEF IInv
<1>5. NotHaltUnterwegs(a) <=>
        \E b \in Anlagen, x \in {Druck(a), Loesung(a)} :
          \/ \E p \in Stufen : \E i \in 1 .. Len(dis[b][p])  : dis[b][p][i] = x
          \/ \E p \in Stufen : \E i \in 1 .. Len(hfsm[b][p]) : hfsm[b][p][i] = x
  <2>1. \A y : y \in N <=> y = Druck(a) \/ y = Loesung(a)
    BY <1>1, <1>2
  <2> HIDE DEF N
  <2>2. NotHaltUnterwegs(a) <=>
          \E b \in Anlagen : \E p \in Stufen :
            \/ \E i \in 1 .. Len(dis[b][p])  : dis[b][p][i] \in N
            \/ \E i \in 1 .. Len(hfsm[b][p]) : hfsm[b][p][i] \in N
    BY DEF NotHaltUnterwegs, N
  <2>3. ASSUME NotHaltUnterwegs(a)
        PROVE  \E b \in Anlagen, x \in {Druck(a), Loesung(a)} :
                 \/ \E p \in Stufen : \E i \in 1 .. Len(dis[b][p])  : dis[b][p][i] = x
                 \/ \E p \in Stufen : \E i \in 1 .. Len(hfsm[b][p]) : hfsm[b][p][i] = x
    BY <2>1, <2>2, <2>3
  <2>4. ASSUME NEW b \in Anlagen, NEW x \in {Druck(a), Loesung(a)},
               \/ \E p \in Stufen : \E i \in 1 .. Len(dis[b][p])  : dis[b][p][i] = x
               \/ \E p \in Stufen : \E i \in 1 .. Len(hfsm[b][p]) : hfsm[b][p][i] = x
        PROVE  NotHaltUnterwegs(a)
    BY <2>1, <2>2, <2>4
  <2> QED
    BY <2>3, <2>4
<1> QED
  BY <1>3, <1>4, <1>5

-----------------------------------------------------------------------------
(***************************************************************************)
(* The steps.                                                              *)
(***************************************************************************)

\* A step that neither moves a pulse of an emergency stop nor handles one.
LEMMA WegUnberuehrt ==
  ASSUME WegInv, UNCHANGED <<gedrueckt, leitung, verbunden>>,
         \A c \in Anlagen : Sauber(fsm'[c]) /\ Lage(fsm'[c]) = Lage(fsm[c]),
         \A c, a \in Anlagen : \A x \in {Druck(a), Loesung(a)} :
           /\ Hat(dis'[c], x) <=> Hat(dis[c], x)
           /\ Hat(hfsm'[c], x) <=> Hat(hfsm[c], x)
  PROVE  WegInv'
<1>1. ASSUME NEW a \in Anlagen, NEW c \in Anlagen
      PROVE  NichtUeberholt(a, c)' /\ Abbild(a, c)'
  <2>1. a \in Gemerkt(fsm'[c]) <=> a \in Gemerkt(fsm[c])
    BY GemerktNachLage DEF Anlagen
  <2>2. Druck(a).anlage = a /\ Loesung(a).anlage = a
    BY DEF Druck, Loesung
  <2>3. NichtUeberholt(a, c) /\ Abbild(a, c)
    BY DEF WegInv
  <2>4. NichtUeberholt(a, c)'
    BY <2>3 DEF NichtUeberholt
  <2>5. (AufWeg(Druck(a), c)' <=> AufWeg(Druck(a), c)) /\ (AufWeg(Loesung(a), c)' <=> AufWeg(Loesung(a), c))
    BY <2>2 DEF AufWeg
  <2>6. Abbild(a, c)'
    BY <2>1, <2>3, <2>5 DEF Abbild
  <2> QED
    BY <2>4, <2>6
<1> QED
  BY <1>1 DEF WegInv

LEMMA HfsmWeg ==
  ASSUME IInv, WegInv, NEW b \in Anlagen, Hfsm(b)
  PROVE  WegInv'
<1> DEFINE g == [f |-> fsm[b], dis |-> dis[b]]
<1>1. PICK p \in Stufen :
        /\ Dringendste(hfsm[b], p)
        /\ \E h \in handleEvent(g, b, Head(hfsm[b][p])) : Reaktion(b, h)
        /\ hfsm' = [hfsm EXCEPT ![b] = Entnehmen(@, p)]
  BY DEF Hfsm
<1> DEFINE s == Head(hfsm[b][p])
<1>2. /\ hfsm \in [Anlagen -> Geordnet] /\ hfsm[b] \in Geordnet /\ hfsm[b][p] # <<>>
      /\ dis \in [Anlagen -> Geordnet] /\ fsm \in [Anlagen -> FSM]
      /\ g \in Maschine /\ g.f = fsm[b] /\ g.dis = dis[b]
  BY <1>1 DEF IInv, TypeOK, Dringendste, Maschine
<1>3. s \in Puls
  BY <1>2, EntnehmenTyp
<1>4. UNCHANGED <<gedrueckt, verbunden, leitung>>
  BY DEF Hfsm
<1> HIDE DEF g
<1>5. PICK h \in handleEvent(g, b, s) : Reaktion(b, h)
  BY <1>1
<1>6. h \in Maschine /\ Folgt(g, h, s)
  BY <1>2, <1>3, <1>5, handleEventTyp, handleEventLage DEF WegInv
<1> HIDE DEF s
<1>7. /\ fsm' = [fsm EXCEPT ![b] = h.f] /\ dis' = [dis EXCEPT ![b] = h.dis]
  BY <1>5 DEF Reaktion
<1>8. ASSUME NEW c \in Anlagen, NEW x \in TasterPuls
      PROVE  Hat(dis'[c], x) <=> Hat(dis[c], x)
  BY <1>2, <1>6, <1>7, StillHat DEF Folgt
<1>9. ASSUME NEW c \in Anlagen, NEW x \in TasterPuls
      PROVE  IF c = b THEN Hat(hfsm[c], x) <=> Hat(hfsm'[c], x) \/ x = s
                      ELSE Hat(hfsm'[c], x) <=> Hat(hfsm[c], x)
  <2>1. CASE c = b
    <3>1. hfsm'[c] = Entnehmen(hfsm[b], p) /\ x \in Puls
      BY <1>1, <1>2, <2>1, StufeDerTaster
    <3> QED
      BY <1>2, <2>1, <3>1, HatEntnehmen DEF s
  <2>2. CASE c # b
    BY <1>1, <1>2, <2>2
  <2> QED
    BY <2>1, <2>2
<1>10. Sauber(fsm'[b]) /\ Lage(fsm'[b]) = Danach(Lage(fsm[b]), s)
  BY <1>2, <1>6, <1>7 DEF Folgt
<1>11. \A c \in Anlagen \ {b} : fsm'[c] = fsm[c]
  BY <1>2, <1>7
<1>12. Lage(fsm[b]) \in EStopZustand
  BY <1>2 DEF Lage, FSM, EStopZustand
<1>13. ASSUME NEW a \in Anlagen, NEW c \in Anlagen
       PROVE  NichtUeberholt(a, c)' /\ Abbild(a, c)'
  <2>1. /\ Druck(a).anlage = a /\ Loesung(a).anlage = a /\ Druck(a) # Loesung(a)
        /\ Druck(a) \in TasterPuls /\ Loesung(a) \in TasterPuls
    BY StufeDerTaster DEF Druck, Loesung
  <2>2. NichtUeberholt(a, c) /\ Abbild(a, c)
    BY DEF WegInv
  <2>3. NichtUeberholt(a, c)'
    BY <1>8, <1>9, <2>1, <2>2 DEF NichtUeberholt
  <2>4. CASE c # b
    <3>1. /\ AufWeg(Druck(a), c)' <=> AufWeg(Druck(a), c)
          /\ AufWeg(Loesung(a), c)' <=> AufWeg(Loesung(a), c)
      BY <1>8, <1>9, <2>1, <2>4 DEF AufWeg
    <3> QED
      BY <1>4, <1>11, <2>2, <2>3, <2>4, <3>1 DEF Abbild
  <2>5. CASE c = b
    <3>1. /\ s = Druck(a) => a \in Gemerkt(fsm'[b])
          /\ s = Loesung(a) => a \notin Gemerkt(fsm'[b])
          /\ s \notin {Druck(a), Loesung(a)} => (a \in Gemerkt(fsm'[b]) <=> a \in Gemerkt(fsm[b]))
      BY <1>3, <1>10, <1>12, GemerktDanach
    <3>2. /\ AufWeg(Druck(a), c) <=> AufWeg(Druck(a), c)' \/ s = Druck(a)
          /\ AufWeg(Loesung(a), c) <=> AufWeg(Loesung(a), c)' \/ s = Loesung(a)
      BY <1>8, <1>9, <2>1, <2>5 DEF AufWeg
    <3>3. s = Loesung(a) => ~AufWeg(Druck(a), c)
      <4>1. SUFFICES ASSUME s = Loesung(a) PROVE ~AufWeg(Druck(a), c)
        OBVIOUS
      <4>2. ~Hat(hfsm[b], Druck(a))
        BY <1>1, <1>2, <4>1, DruckZuerst DEF s
      <4>3. Hat(hfsm[c], Loesung(a))
        BY <1>9, <2>1, <2>5, <4>1
      <4> QED
        BY <2>1, <2>2, <2>5, <4>2, <4>3 DEF AufWeg, NichtUeberholt
    <3> QED
      BY <1>4, <2>1, <2>2, <2>3, <2>5, <3>1, <3>2, <3>3 DEF Abbild
  <2> QED
    BY <2>4, <2>5
<1> QED
  BY <1>4, <1>10, <1>11, <1>13 DEF WegInv

LEMMA SortierenWeg ==
  ASSUME IInv, WegInv, NEW b \in Anlagen, Sortieren(b)
  PROVE  WegInv'
<1> DEFINE g == [f |-> fsm[b], dis |-> dis[b]]
<1>1. /\ fsm[b].zustand = "Betriebszustand"
      /\ \E h \in SortierSchritt(g, b) : Reaktion(b, h)
      /\ UNCHANGED <<hfsm, gedrueckt, verbunden, leitung>>
  BY DEF Sortieren
<1>2. /\ g \in Maschine /\ g.f = fsm[b] /\ g.dis = dis[b]
      /\ dis \in [Anlagen -> Geordnet] /\ fsm \in [Anlagen -> FSM]
  BY DEF IInv, TypeOK, Maschine
<1> HIDE DEF g
<1>3. PICK h \in SortierSchritt(g, b) : Reaktion(b, h)
  BY <1>1
<1>4. Still(g.dis, h.dis) /\ Sauber(h.f) /\ Lage(h.f) = Lage(g.f)
  BY <1>1, <1>2, SortierSchrittLage
<1>5. /\ fsm' = [fsm EXCEPT ![b] = h.f] /\ dis' = [dis EXCEPT ![b] = h.dis]
  BY <1>3 DEF Reaktion
<1>6. \A c \in Anlagen : Sauber(fsm'[c]) /\ Lage(fsm'[c]) = Lage(fsm[c])
  BY <1>2, <1>4, <1>5 DEF WegInv
<1>7. \A c \in Anlagen : \A x \in TasterPuls : Hat(dis'[c], x) <=> Hat(dis[c], x)
  BY <1>2, <1>4, <1>5, StillHat
<1>8. \A c, a \in Anlagen : \A x \in {Druck(a), Loesung(a)} :
        /\ Hat(dis'[c], x) <=> Hat(dis[c], x)
        /\ Hat(hfsm'[c], x) <=> Hat(hfsm[c], x)
  BY <1>1, <1>7, StufeDerTaster
<1> QED
  BY <1>1, <1>6, <1>8, WegUnberuehrt

\* The dispatcher of plant b takes the pulse s and passes it on.
LEMMA DispatchWirkung ==
  ASSUME IInv, leitung, NEW b \in Anlagen, verbunden[b], NEW p \in Stufen,
         Dringendste(dis[b], p), NEW s, s = Head(dis[b][p]),
         DispatchHAL(b, p) \/ DispatchFSM(b, p) \/ DispatchBeide(b, p),
         NEW x \in TasterPuls, NEW n, n = Nachbar(b)
  PROVE  /\ Hat(dis[b], x)   <=> Hat(dis'[b], x) \/ x = s
         /\ Hat(hfsm'[b], x) <=> Hat(hfsm[b], x) \/ x = s
         /\ Hat(dis'[n], x)  <=> Hat(dis[n], x) \/ (x = s /\ istMeinSignal(b, x))
         /\ Hat(hfsm'[n], x) <=> Hat(hfsm[n], x)
<1>1. /\ dis \in [Anlagen -> Geordnet] /\ hfsm \in [Anlagen -> Geordnet]
      /\ dis[b] \in Geordnet /\ hfsm[b] \in Geordnet /\ dis[b][p] # <<>>
      /\ n \in Anlagen /\ n # b /\ dis[n] \in Geordnet /\ hfsm[n] \in Geordnet
  BY NachbarIst DEF IInv, Dringendste
<1>2. s \in Puls /\ Entnehmen(dis[b], p) \in Geordnet /\ x \in Puls
  BY <1>1, EntnehmenTyp, StufeDerTaster
<1>3. Hat(dis[b], x) <=> Hat(Entnehmen(dis[b], p), x) \/ x = s
  BY <1>1, <1>2, HatEntnehmen
<1>4. /\ Hat(Einreihen(hfsm[b], s), x) <=> Hat(hfsm[b], x) \/ x = s
      /\ Hat(Einreihen(dis[n], s), x) <=> Hat(dis[n], x) \/ x = s
  BY <1>1, <1>2, HatEinreihen
<1>5. CASE DispatchHAL(b, p)
  <2>1. x # s
    BY <1>5 DEF DispatchHAL, MotorBefehle, TasterPuls, TasterSignale
  <2>2. dis' = [dis EXCEPT ![b] = Entnehmen(dis[b], p)] /\ hfsm' = hfsm
    BY <1>5 DEF DispatchHAL
  <2> QED
    BY <1>1, <1>3, <2>1, <2>2
<1>6. CASE DispatchFSM(b, p)
  <2>1. ~istMeinSignal(b, s)
    BY <1>6 DEF DispatchFSM
  <2>2. /\ dis' = [dis EXCEPT ![b] = Entnehmen(dis[b], p)]
        /\ hfsm' = [hfsm EXCEPT ![b] = Einreihen(hfsm[b], s)]
    BY <1>6 DEF DispatchFSM
  <2> QED
    BY <1>1, <1>3, <1>4, <2>1, <2>2
<1>7. CASE DispatchBeide(b, p)
  <2> DEFINE ohne == [dis EXCEPT ![b] = Entnehmen(dis[b], p)]
  <2>1. istMeinSignal(b, s)
    BY <1>7 DEF DispatchBeide
  <2>2. /\ dis' = [ohne EXCEPT ![n] = Einreihen(ohne[n], s)]
        /\ hfsm' = [hfsm EXCEPT ![b] = Einreihen(hfsm[b], s)]
    BY <1>7 DEF DispatchBeide
  <2>3. /\ ohne \in [Anlagen -> Geordnet]
        /\ ohne[n] = dis[n] /\ ohne[b] = Entnehmen(dis[b], p)
    BY <1>1, <1>2
  <2> HIDE DEF ohne
  <2>4. dis'[n] = Einreihen(dis[n], s) /\ dis'[b] = Entnehmen(dis[b], p)
    BY <1>1, <2>2, <2>3
  <2> QED
    BY <1>1, <1>3, <1>4, <2>1, <2>2, <2>4
<1> QED
  BY <1>5, <1>6, <1>7

LEMMA DispatchWeg ==
  ASSUME IInv, WegInv, NEW b \in Anlagen, Dispatch(b)
  PROVE  WegInv'
<1>1. PICK p \in Stufen :
        /\ Dringendste(dis[b], p)
        /\ DispatchHAL(b, p) \/ DispatchFSM(b, p) \/ DispatchBeide(b, p)
  BY DEF Dispatch
<1>2. UNCHANGED <<fsm, gedrueckt, leitung>> /\ leitung /\ \A a \in Anlagen : verbunden[a]
  BY DEF Dispatch, WegInv
<1>3. verbunden' = verbunden
  BY <1>1, <1>2 DEF DispatchHAL, DispatchFSM, DispatchBeide
<1> DEFINE s == Head(dis[b][p])
           n == Nachbar(b)
<1>4. /\ n \in Anlagen /\ n # b /\ Anlagen = {b, n}
      /\ dis[b] \in Geordnet
  BY NachbarIst DEF IInv, Anlagen
<1>5. ASSUME NEW x \in TasterPuls
      PROVE  /\ Hat(dis[b], x)   <=> Hat(dis'[b], x) \/ x = s
             /\ Hat(hfsm'[b], x) <=> Hat(hfsm[b], x) \/ x = s
             /\ Hat(dis'[n], x)  <=> Hat(dis[n], x) \/ (x = s /\ istMeinSignal(b, x))
             /\ Hat(hfsm'[n], x) <=> Hat(hfsm[n], x)
  BY <1>1, <1>2, DispatchWirkung
<1>6. \A a \in Anlagen : s = Loesung(a) => \A c \in Anlagen : ~Hat(dis[b], Druck(c))
  BY <1>1, <1>4, DruckZuerst
<1> HIDE DEF s, n
<1>7. ASSUME NEW a \in Anlagen, NEW c \in Anlagen
      PROVE  NichtUeberholt(a, c)' /\ Abbild(a, c)'
  <2>1. /\ Druck(a).anlage = a /\ Loesung(a).anlage = a /\ Druck(a) # Loesung(a)
        /\ Druck(a) \in TasterPuls /\ Loesung(a) \in TasterPuls
    BY StufeDerTaster DEF Druck, Loesung
  <2>2. /\ istMeinSignal(b, Druck(a)) <=> a = b
        /\ istMeinSignal(b, Loesung(a)) <=> a = b
    BY DEF istMeinSignal, Druck, Loesung
  <2>3. NichtUeberholt(a, c) /\ Abbild(a, c)
    BY DEF WegInv
  <2>4. s = Loesung(a) => ~Hat(dis[b], Druck(a)) /\ ~Hat(dis'[b], Druck(a))
    BY <1>5, <1>6, <2>1
  <2>5. NichtUeberholt(a, c)'
    <3>1. CASE a = b /\ c = b
      BY <1>4, <1>5, <2>1, <2>2, <2>3, <2>4, <3>1 DEF NichtUeberholt
    <3>2. CASE a = b /\ c = n
      BY <1>4, <1>5, <2>1, <2>2, <2>3, <2>4, <3>2 DEF NichtUeberholt
    <3>3. CASE a = n /\ c = b
      BY <1>4, <1>5, <2>1, <2>2, <2>3, <2>4, <3>3 DEF NichtUeberholt
    <3>4. CASE a = n /\ c = n
      BY <1>4, <1>5, <2>1, <2>2, <2>3, <2>4, <3>4 DEF NichtUeberholt
    <3> QED
      BY <1>4, <3>1, <3>2, <3>3, <3>4
  <2>6. /\ AufWeg(Druck(a), c)' <=> AufWeg(Druck(a), c)
        /\ AufWeg(Loesung(a), c)' <=> AufWeg(Loesung(a), c)
    <3>1. ASSUME NEW x \in {Druck(a), Loesung(a)}
          PROVE  AufWeg(x, c)' <=> AufWeg(x, c)
      <4>1. x \in TasterPuls /\ x.anlage = a /\ (istMeinSignal(b, x) <=> a = b)
        BY <2>1, <2>2
      <4>2. CASE a = b /\ c = b
        BY <1>4, <1>5, <4>1, <4>2 DEF AufWeg
      <4>3. CASE a = b /\ c = n
        BY <1>4, <1>5, <4>1, <4>3 DEF AufWeg
      <4>4. CASE a = n /\ c = b
        BY <1>4, <1>5, <4>1, <4>4 DEF AufWeg
      <4>5. CASE a = n /\ c = n
        BY <1>4, <1>5, <4>1, <4>5 DEF AufWeg
      <4> QED
        BY <1>4, <4>2, <4>3, <4>4, <4>5
    <3> QED
      BY <3>1
  <2>7. Abbild(a, c)'
    BY <1>2, <2>3, <2>6 DEF Abbild
  <2> QED
    BY <2>5, <2>7
<1> QED
  BY <1>2, <1>3, <1>7 DEF WegInv

\* The pulse of a panel or of a chute.
LEMMA EingabeWirkung ==
  ASSUME IInv, NEW b \in Anlagen, NEW sig \in Signal, Eingabe(b, sig)
  PROVE  /\ UNCHANGED <<fsm, hfsm, hal, verbunden, leitung>>
         /\ \A c \in Anlagen : \A x \in Puls :
              Hat(dis'[c], x) <=> Hat(dis[c], x) \/ (c = b /\ x = [sig |-> sig, anlage |-> b])
<1> DEFINE s == [sig |-> sig, anlage |-> b]
<1>1. s \in Puls /\ dis \in [Anlagen -> Geordnet]
  BY DEF Puls, IInv
<1>2. /\ UNCHANGED <<fsm, hfsm, hal, verbunden, leitung>>
      /\ dis' = [dis EXCEPT ![b] = Einreihen(dis[b], s)]
  BY DEF Eingabe
<1> HIDE DEF s
<1>3. ASSUME NEW c \in Anlagen, NEW x \in Puls
      PROVE  Hat(dis'[c], x) <=> Hat(dis[c], x) \/ (c = b /\ x = s)
  <2>1. CASE c = b
    BY <1>1, <1>2, <2>1, HatEinreihen
  <2>2. CASE c # b
    BY <1>1, <1>2, <2>2
  <2> QED
    BY <2>1, <2>2
<1> QED
  BY <1>2, <1>3 DEF s

LEMMA RuhigFrei ==
  ASSUME IInv, Ruhig, NEW a \in Anlagen
  PROVE  ~NotHaltUnterwegs(a)
  BY DEF Ruhig, Leer, NotHaltUnterwegs

\* An emergency stop is pressed when none of its pulses is under way.
LEMMA DrueckenWeg ==
  ASSUME IInv, WegInv, Bedienung # "eilig", NEW b \in Anlagen, NotHaltDruecken(b)
  PROVE  WegInv'
<1>1. /\ ~gedrueckt[b] /\ gedrueckt' = [gedrueckt EXCEPT ![b] = TRUE]
      /\ Eingabe(b, "S_E_G") /\ gedrueckt \in [Anlagen -> BOOLEAN]
      /\ "S_E_G" \in Signal
  BY DEF NotHaltDruecken, IInv, TypeOK, Signal, TasterSignale
<1>2. ~NotHaltUnterwegs(b)
  <2>1. Bedienung \in {"langsam", "zuegig"}
    BY NotHaltAnnahme
  <2> QED
    BY <1>1, <2>1, RuhigFrei DEF NotHaltDruecken, Eingabe
<1>3. \A c \in Anlagen, x \in {Druck(b), Loesung(b)} : ~Hat(dis[c], x) /\ ~Hat(hfsm[c], x)
  BY <1>2, UnterwegsIst
<1>4. /\ UNCHANGED <<fsm, hfsm, verbunden, leitung>>
      /\ \A c \in Anlagen : \A x \in TasterPuls :
           Hat(dis'[c], x) <=> Hat(dis[c], x) \/ (c = b /\ x = Druck(b))
  BY <1>1, EingabeWirkung, StufeDerTaster DEF Druck
<1>5. ASSUME NEW a \in Anlagen, NEW c \in Anlagen
      PROVE  NichtUeberholt(a, c)' /\ Abbild(a, c)'
  <2>1. /\ Druck(a).anlage = a /\ Loesung(a).anlage = a /\ Druck(a) # Loesung(a)
        /\ Druck(a) \in TasterPuls /\ Loesung(a) \in TasterPuls
        /\ Druck(a) = Druck(b) <=> a = b /\ Loesung(a) # Druck(b)
    BY StufeDerTaster DEF Druck, Loesung
  <2>2. NichtUeberholt(a, c) /\ Abbild(a, c)
    BY DEF WegInv
  <2>3. CASE a = b
    <3>1. /\ gedrueckt'[a] = TRUE /\ Hat(dis'[a], Druck(a))
          /\ \A d \in Anlagen : ~Hat(dis'[d], Loesung(a)) /\ ~Hat(hfsm'[d], Loesung(a))
      BY <1>1, <1>3, <1>4, <2>1, <2>3
    <3> QED
      BY <2>1, <3>1 DEF NichtUeberholt, Abbild, AufWeg
  <2>4. CASE a # b
    <3>1. \A d \in Anlagen : \A x \in {Druck(a), Loesung(a)} :
            /\ Hat(dis'[d], x) <=> Hat(dis[d], x)
            /\ Hat(hfsm'[d], x) <=> Hat(hfsm[d], x)
      BY <1>4, <2>1, <2>4 DEF Druck, Loesung
    <3>2. gedrueckt'[a] = gedrueckt[a]
      BY <1>1, <2>4
    <3>3. /\ AufWeg(Druck(a), c)' <=> AufWeg(Druck(a), c)
          /\ AufWeg(Loesung(a), c)' <=> AufWeg(Loesung(a), c)
      BY <2>1, <3>1 DEF AufWeg
    <3> QED
      BY <1>4, <2>2, <3>1, <3>2, <3>3 DEF NichtUeberholt, Abbild
  <2> QED
    BY <2>3, <2>4
<1> QED
  BY <1>4, <1>5 DEF WegInv

\* An emergency stop that is pressed down has no release under way.
LEMMA LoesenWeg ==
  ASSUME IInv, WegInv, NEW b \in Anlagen, NotHaltLoesen(b)
  PROVE  WegInv'
<1>1. /\ gedrueckt[b] /\ gedrueckt' = [gedrueckt EXCEPT ![b] = FALSE]
      /\ Eingabe(b, "S_E_NG") /\ gedrueckt \in [Anlagen -> BOOLEAN]
      /\ "S_E_NG" \in Signal
  BY DEF NotHaltLoesen, IInv, TypeOK, Signal, TasterSignale
<1>2. /\ UNCHANGED <<fsm, hfsm, verbunden, leitung>>
      /\ \A c \in Anlagen : \A x \in TasterPuls :
           Hat(dis'[c], x) <=> Hat(dis[c], x) \/ (c = b /\ x = Loesung(b))
  BY <1>1, EingabeWirkung, StufeDerTaster DEF Loesung
<1>3. ASSUME NEW a \in Anlagen, NEW c \in Anlagen
      PROVE  NichtUeberholt(a, c)' /\ Abbild(a, c)'
  <2>1. /\ Druck(a).anlage = a /\ Loesung(a).anlage = a /\ Druck(a) # Loesung(a)
        /\ Druck(a) \in TasterPuls /\ Loesung(a) \in TasterPuls
        /\ Loesung(a) = Loesung(b) <=> a = b /\ Druck(a) # Loesung(b)
    BY StufeDerTaster DEF Druck, Loesung
  <2>2. NichtUeberholt(a, c) /\ Abbild(a, c)
    BY DEF WegInv
  <2>3. CASE a = b
    <3>1. ~AufWeg(Loesung(a), c)
      BY <1>1, <2>2, <2>3 DEF Abbild
    <3>2. /\ ~Hat(hfsm[c], Loesung(a))
          /\ c # a => ~Hat(dis[c], Loesung(a))
      BY <2>1, <3>1 DEF AufWeg
    <3>3. /\ ~Hat(hfsm'[c], Loesung(a))
          /\ c # a => ~Hat(dis'[c], Loesung(a))
      BY <1>2, <2>1, <2>3, <3>2
    <3>4. gedrueckt'[a] = FALSE /\ Hat(dis'[a], Loesung(a))
      BY <1>1, <1>2, <2>1, <2>3
    <3> QED
      BY <2>1, <3>3, <3>4 DEF NichtUeberholt, Abbild, AufWeg
  <2>4. CASE a # b
    <3>1. \A d \in Anlagen : \A x \in {Druck(a), Loesung(a)} :
            /\ Hat(dis'[d], x) <=> Hat(dis[d], x)
            /\ Hat(hfsm'[d], x) <=> Hat(hfsm[d], x)
      BY <1>2, <2>1, <2>4 DEF Druck, Loesung
    <3>2. gedrueckt'[a] = gedrueckt[a]
      BY <1>1, <2>4
    <3>3. /\ AufWeg(Druck(a), c)' <=> AufWeg(Druck(a), c)
          /\ AufWeg(Loesung(a), c)' <=> AufWeg(Loesung(a), c)
      BY <2>1, <3>1 DEF AufWeg
    <3> QED
      BY <1>2, <2>2, <3>1, <3>2, <3>3 DEF NichtUeberholt, Abbild
  <2> QED
    BY <2>3, <2>4
<1> QED
  BY <1>2, <1>3 DEF WegInv

\* The other buttons and the sensors of the chutes.
LEMMA TasteWeg ==
  ASSUME IInv, WegInv, NEW b \in Anlagen, TasteDruecken(b) \/ FehlerGeht(b)
  PROVE  WegInv'
<1>1. /\ gedrueckt' = gedrueckt
      /\ \E sig \in Signal \ {"S_E_G", "S_E_NG"} : Eingabe(b, sig)
  <2>1. Tasten \cup FehlerSignale \subseteq Signal \ {"S_E_G", "S_E_NG"}
    BY NotHaltAnnahme DEF Signal, TasterSignale, FehlerSignale
  <2>2. CASE TasteDruecken(b)
    BY <2>1, <2>2 DEF TasteDruecken
  <2>3. CASE FehlerGeht(b)
    BY <2>1, <2>3 DEF FehlerGeht
  <2> QED
    BY <2>2, <2>3
<1>2. PICK sig \in Signal \ {"S_E_G", "S_E_NG"} : Eingabe(b, sig)
  BY <1>1
<1>3. /\ UNCHANGED <<fsm, hfsm, verbunden, leitung>>
      /\ \A c \in Anlagen : \A x \in Puls :
           Hat(dis'[c], x) <=> Hat(dis[c], x) \/ (c = b /\ x = [sig |-> sig, anlage |-> b])
  BY <1>2, EingabeWirkung
<1>4. \A c, a \in Anlagen : \A x \in {Druck(a), Loesung(a)} :
        /\ Hat(dis'[c], x) <=> Hat(dis[c], x)
        /\ Hat(hfsm'[c], x) <=> Hat(hfsm[c], x)
  BY <1>3, StufeDerTaster, ZenonT(60) DEF Druck, Loesung
<1>5. \A c \in Anlagen : Sauber(fsm'[c]) /\ Lage(fsm'[c]) = Lage(fsm[c])
  BY <1>3 DEF WegInv
<1> QED
  BY <1>1, <1>3, <1>4, <1>5, WegUnberuehrt

LEMMA InitWeg ==
  Init => WegInv
<1> SUFFICES ASSUME Init PROVE WegInv
  OBVIOUS
<1>1. \A x \in TasterPuls : ~Hat(LeererKanal, x)
  BY StufeDerTaster DEF LeererKanal, Hat, Enthaelt
<1>2. Sauber(NeueFSM) /\ Gemerkt(NeueFSM) = {}
  BY GemerktNachLage DEF NeueFSM, Sauber
<1>3. \A a \in Anlagen : /\ fsm[a] = NeueFSM /\ verbunden[a] /\ ~gedrueckt[a]
                         /\ dis[a] = LeererKanal /\ hfsm[a] = LeererKanal
  BY DEF Init
<1>4. ASSUME NEW a \in Anlagen, NEW c \in Anlagen
      PROVE  NichtUeberholt(a, c) /\ Abbild(a, c)
  <2>1. /\ Druck(a) \in TasterPuls /\ Loesung(a) \in TasterPuls
        /\ Druck(a).anlage = a
    BY StufeDerTaster DEF Druck
  <2> QED
    BY <1>1, <1>2, <1>3, <2>1 DEF NichtUeberholt, Abbild, AufWeg
<1> QED
  BY <1>2, <1>3, <1>4 DEF Init, WegInv

LEMMA SchrittWeg ==
  ASSUME Bedienung # "eilig", ~MitAusfall
  PROVE  IInv /\ WegInv /\ [Next]_vars => WegInv'
<1> SUFFICES ASSUME IInv, WegInv, [Next]_vars PROVE WegInv'
  OBVIOUS
<1>1. CASE UNCHANGED vars
  BY <1>1, WegUnberuehrt DEF vars, WegInv
<1>2. ASSUME NEW a \in Anlagen, Hal(a)
      PROVE  WegInv'
  BY <1>2, WegUnberuehrt DEF Hal, WegInv
<1>3. ~LeitungWechsel
  BY DEF LeitungWechsel
<1>4. ASSUME NEW a \in Anlagen
      PROVE  ~Zeitablauf(a) /\ ~Verbinden(a)
  BY DEF Zeitablauf, Verbinden, WegInv
<1>5. CASE Next
  <2>1. PICK a \in Anlagen :
          \/ Dispatch(a) \/ Hfsm(a) \/ Sortieren(a) \/ Hal(a)
          \/ NotHaltDruecken(a) \/ NotHaltLoesen(a) \/ TasteDruecken(a) \/ FehlerGeht(a)
    BY <1>3, <1>4, <1>5 DEF Next
  <2> QED
    BY <1>2, <2>1, DispatchWeg, HfsmWeg, SortierenWeg, DrueckenWeg, LoesenWeg, TasteWeg
<1> QED
  BY <1>1, <1>5

LEMMA WegAbbild ==
  IInv /\ WegInv => NotHaltAbbild
<1> SUFFICES ASSUME IInv, WegInv, \A p \in Anlagen : ~NotHaltUnterwegs(p), NEW c \in Anlagen
             PROVE  Gemerkt(fsm[c]) = Gedrueckt
  BY DEF NotHaltAbbild
<1>1. ASSUME NEW a \in Anlagen
      PROVE  a \in Gemerkt(fsm[c]) <=> gedrueckt[a]
  <2>1. \A d \in Anlagen, x \in {Druck(a), Loesung(a)} : ~Hat(dis[d], x) /\ ~Hat(hfsm[d], x)
    BY UnterwegsIst
  <2>2. Druck(a).anlage = a /\ Loesung(a).anlage = a
    BY DEF Druck, Loesung
  <2>3. ~AufWeg(Druck(a), c) /\ ~AufWeg(Loesung(a), c)
    BY <2>1, <2>2 DEF AufWeg
  <2>4. Abbild(a, c) /\ gedrueckt[a] \in BOOLEAN
    BY DEF WegInv, IInv, TypeOK
  <2> QED
    BY <2>3, <2>4 DEF Abbild
<1> QED
  BY <1>1, GemerktNachLage DEF Gedrueckt

\* In EStop, a belt whose motor commands have been carried out stands.
LEMMA WegStoppt ==
  IInv /\ WegInv => NotHaltStopptBeideBaender
<1> SUFFICES ASSUME IInv, WegInv, Gedrueckt # {}, NEW c \in Anlagen,
                    \A a \in Anlagen : ~NotHaltUnterwegs(a) /\ ~MotorBefehlUnterwegs(a)
             PROVE  motor[c] = "stop"
  BY DEF NotHaltStopptBeideBaender
<1>1. Gemerkt(fsm[c]) # {}
  BY WegAbbild DEF NotHaltAbbild
<1>2. fsm[c].zustand \in Sicher
  BY <1>1, GemerktNachLage DEF Sicher
<1> QED
  BY <1>2, IInvMotorAus DEF MotorAusImNotHalt

-----------------------------------------------------------------------------
\* While the link holds and no emergency stop is pressed again before its last
\* release has been handled, both state machines remember exactly the emergency
\* stops that are pressed down, as soon as no pulse of one is under way: neither a
\* priority nor the detour over the neighbour's dispatcher makes a plant forget one
\* or wait for the release of one.
THEOREM AbbildStimmt ==
  ASSUME Bedienung # "eilig", ~MitAusfall
  PROVE  Spec => []NotHaltAbbild
  BY InitInv, SchrittInv, InitWeg, SchrittWeg, WegAbbild, PTL DEF Spec

\* Under the same conditions an emergency stop pressed on either panel has stopped
\* the belts of both plants once its pulses and the motor commands have arrived.
THEOREM BeideBaenderStehen ==
  ASSUME Bedienung # "eilig", ~MitAusfall
  PROVE  Spec => []NotHaltStopptBeideBaender
  BY InitInv, SchrittInv, InitWeg, SchrittWeg, WegStoppt, PTL DEF Spec

-----------------------------------------------------------------------------
(***************************************************************************)
(* Proof that the plants agree on EStop and start again only after all     *)
(* their buttons, when the operators wait for the plants to come to rest   *)
(* between two buttons and the link holds.                                 *)
(***************************************************************************)

(***************************************************************************)
(* The inductive invariant.  At any moment one pulse x of a panel is on    *)
(* its way, or none: both state machines were in the same state of         *)
(* estopfsm, and those that have handled x made the same transition.       *)
(***************************************************************************)
Frei(k) == k[EXTREM_HOCH] = <<>> /\ k[MITTEL] = <<>>

\* x is the only pulse of a panel that waits in k.
Traegt(k, x) ==
  /\ k[EXTREM_HOCH] = IF x.sig = "S_E_G" THEN <<x>> ELSE <<>>
  /\ k[MITTEL]      = IF x.sig = "S_E_G" THEN <<>> ELSE <<x>>

\* x has not left the dispatcher of its plant, or it has been passed to the plant's
\* state machine and to the neighbour.
Unverteilt(x) ==
  /\ Traegt(dis[x.anlage], x)
  /\ Frei(hfsm[x.anlage])
  /\ Frei(dis[Nachbar(x.anlage)]) /\ Frei(hfsm[Nachbar(x.anlage)])

Verteilt(x) ==
  /\ Frei(dis[x.anlage])
  /\ Frei(hfsm[x.anlage]) \/ Traegt(hfsm[x.anlage], x)
  /\ \/ Frei(dis[Nachbar(x.anlage)]) /\ Frei(hfsm[Nachbar(x.anlage)])
     \/ Traegt(dis[Nachbar(x.anlage)], x) /\ Frei(hfsm[Nachbar(x.anlage)])
     \/ Frei(dis[Nachbar(x.anlage)]) /\ Traegt(hfsm[Nachbar(x.anlage)], x)

\* The state machine of plant c has not handled x yet.
Offen(x, c) == Traegt(dis[x.anlage], x) \/ Traegt(dis[c], x) \/ Traegt(hfsm[c], x)

Schritthalten(x, z) ==
  /\ Unverteilt(x) \/ Verteilt(x)
  /\ \A c \in Anlagen :
       IF Offen(x, c) THEN Lage(fsm[c]) = z /\ Davor(x, fsm[c], taster)
                      ELSE Lage(fsm[c]) = Danach(z, x) /\ Verdient(fsm[c], taster)

GleichInv == \E x \in TasterPuls, z \in EStopZustand : Schritthalten(x, z)

-----------------------------------------------------------------------------
(***************************************************************************)
(* Channels with one pulse of a panel or none.                             *)
(***************************************************************************)
LEMMA StillTraegt ==
  ASSUME NEW k, NEW l, Still(k, l), NEW x
  PROVE  (Frei(l) <=> Frei(k)) /\ (Traegt(l, x) <=> Traegt(k, x))
  BY DEF Still, Frei, Traegt

LEMMA FreiOderTraegt ==
  ASSUME NEW k, NEW x
  PROVE  ~(Frei(k) /\ Traegt(k, x))
<1>1. <<x>> # <<>>
  OBVIOUS
<1> QED
  BY <1>1 DEF Frei, Traegt

LEMMA EinreihenTraegt ==
  ASSUME NEW k \in Geordnet, NEW x \in TasterPuls, Frei(k)
  PROVE  Traegt(Einreihen(k, x), x)
<1>1. x \in Puls /\ Append(<<>>, x) = <<x>>
  BY StufeDerTaster
<1>2. /\ Einreihen(k, x)[EXTREM_HOCH] =
           IF EXTREM_HOCH = bestimmtPrioritaet(x.sig) THEN Append(k[EXTREM_HOCH], x)
                                                      ELSE k[EXTREM_HOCH]
      /\ Einreihen(k, x)[MITTEL] =
           IF MITTEL = bestimmtPrioritaet(x.sig) THEN Append(k[MITTEL], x) ELSE k[MITTEL]
  BY <1>1, StufeDerTaster, EinreihenWirkung
<1>3. /\ bestimmtPrioritaet(x.sig) = IF x.sig = "S_E_G" THEN EXTREM_HOCH ELSE MITTEL
      /\ EXTREM_HOCH # MITTEL
  BY StufeDerTaster DEF EXTREM_HOCH, MITTEL
<1> QED
  BY <1>1, <1>2, <1>3 DEF Frei, Traegt

\* Taking a pulse that is not of a panel leaves the others; a pulse of a panel is
\* the one the channel holds.
LEMMA EntnehmenStill ==
  ASSUME NEW k \in Geordnet, NEW p \in Stufen, k[p] # <<>>, Head(k[p]) \notin TasterPuls
  PROVE  Still(k, Entnehmen(k, p))
<1>1. /\ \A q \in Stufen \ {p} : Entnehmen(k, p)[q] = k[q]
      /\ Head(k[p]) \in Puls /\ bestimmtPrioritaet(Head(k[p]).sig) = p
  BY EntnehmenTyp
<1>2. p \notin {EXTREM_HOCH, MITTEL}
  BY <1>1, StufeDerTaster
<1> QED
  BY <1>1, <1>2, StufeDerTaster DEF Still

LEMMA EntnehmenTraegt ==
  ASSUME NEW k \in Geordnet, NEW p \in Stufen, k[p] # <<>>, Head(k[p]) \in TasterPuls,
         NEW x \in TasterPuls, Frei(k) \/ Traegt(k, x)
  PROVE  /\ Traegt(k, x) /\ Head(k[p]) = x
         /\ Frei(Entnehmen(k, p))
<1> DEFINE s == Head(k[p])
           e == Entnehmen(k, p)
<1>1. /\ e[p] = Tail(k[p]) /\ \A q \in Stufen \ {p} : e[q] = k[q]
      /\ bestimmtPrioritaet(s.sig) = p
  BY EntnehmenTyp
<1>2. p \in {EXTREM_HOCH, MITTEL} /\ EXTREM_HOCH # MITTEL
      /\ EXTREM_HOCH \in Stufen /\ MITTEL \in Stufen
  BY <1>1, StufeDerTaster DEF EXTREM_HOCH, MITTEL
<1>3. Traegt(k, x)
  BY <1>2 DEF Frei
<1>4. k[p] = <<x>>
  BY <1>2, <1>3 DEF Traegt
<1>5. s = x /\ Tail(k[p]) = <<>>
  BY <1>4
<1> HIDE DEF e, s
<1>6. Frei(e)
  BY <1>1, <1>2, <1>3, <1>4, <1>5 DEF Frei, Traegt
<1> QED
  BY <1>3, <1>5, <1>6 DEF e, s

LEMMA RuhigOhnePuls ==
  ASSUME Ruhig, NEW a \in Anlagen
  PROVE  Frei(dis[a]) /\ Frei(hfsm[a])
  BY StufeDerTaster DEF Ruhig, Leer, Frei

LEMMA LageTyp ==
  ASSUME IInv, NEW c \in Anlagen
  PROVE  Lage(fsm[c]) \in EStopZustand
<1>1. fsm[c] \in FSM
  BY DEF IInv, TypeOK
<1> QED
  BY <1>1 DEF FSM, Lage, EStopZustand

\* Pulses of other kinds do not change the state of estopfsm.
LEMMA DanachSonst ==
  ASSUME NEW s \in Puls \ TasterPuls, NEW z
  PROVE  /\ Danach(z, s) = z
         /\ \A f, t : Verdient(f, t) => Davor(s, f, t)
<1>1. s.sig \notin TasterSignale
  BY DEF Puls, TasterPuls
<1> QED
  BY <1>1 DEF Danach, Davor, TasterSignale

-----------------------------------------------------------------------------
(***************************************************************************)
(* The steps.                                                              *)
(***************************************************************************)

\* A step in which no pulse of a panel is moved, handled or sent.
LEMMA GleichUnberuehrt ==
  ASSUME GleichInv, UNCHANGED taster,
         \A c \in Anlagen :
           /\ Still(dis[c], dis'[c]) /\ Still(hfsm[c], hfsm'[c])
           /\ Lage(fsm'[c]) = Lage(fsm[c])
           /\ Verdient(fsm[c], taster) => Verdient(fsm'[c], taster)
  PROVE  GleichInv'
<1>1. PICK x \in TasterPuls, z \in EStopZustand : Schritthalten(x, z)
  BY DEF GleichInv
<1>2. x.anlage \in Anlagen /\ Nachbar(x.anlage) \in Anlagen
  BY NachbarIst DEF TasterPuls
<1>3. ASSUME NEW c \in Anlagen
      PROVE  /\ (Frei(dis'[c]) <=> Frei(dis[c])) /\ (Frei(hfsm'[c]) <=> Frei(hfsm[c]))
             /\ (Traegt(dis'[c], x) <=> Traegt(dis[c], x))
             /\ (Traegt(hfsm'[c], x) <=> Traegt(hfsm[c], x))
  BY StillTraegt
<1>4. Unverteilt(x)' \/ Verteilt(x)'
  BY <1>1, <1>2, <1>3 DEF Schritthalten, Unverteilt, Verteilt
<1>5. ASSUME NEW c \in Anlagen
      PROVE  IF Offen(x, c)' THEN Lage(fsm'[c]) = z /\ Davor(x, fsm'[c], taster')
             ELSE Lage(fsm'[c]) = Danach(z, x) /\ Verdient(fsm'[c], taster')
  <2>1. Offen(x, c)' <=> Offen(x, c)
    BY <1>2, <1>3 DEF Offen
  <2>2. \A a \in Anlagen : a \in Gemerkt(fsm'[c]) <=> a \in Gemerkt(fsm[c])
    BY GemerktNachLage DEF Anlagen
  <2>3. Davor(x, fsm[c], taster) => Davor(x, fsm'[c], taster')
    BY <1>2, <2>2 DEF Davor
  <2> QED
    BY <1>1, <2>1, <2>3 DEF Schritthalten
<1>6. Schritthalten(x, z)'
  BY <1>4, <1>5 DEF Schritthalten
<1> QED
  BY <1>6 DEF GleichInv

LEMMA SortierenGleich ==
  ASSUME IInv, GleichInv, NEW b \in Anlagen, Sortieren(b)
  PROVE  GleichInv'
<1> DEFINE g == [f |-> fsm[b], dis |-> dis[b]]
<1>1. /\ fsm[b].zustand = "Betriebszustand"
      /\ \E h \in SortierSchritt(g, b) : Reaktion(b, h)
      /\ UNCHANGED <<hfsm, taster>>
  BY DEF Sortieren
<1>2. /\ g \in Maschine /\ g.f = fsm[b] /\ g.dis = dis[b]
      /\ dis \in [Anlagen -> Geordnet] /\ fsm \in [Anlagen -> FSM]
  BY DEF IInv, TypeOK, Maschine
<1> HIDE DEF g
<1>3. PICK h \in SortierSchritt(g, b) : Reaktion(b, h)
  BY <1>1
<1>4. /\ Still(g.dis, h.dis) /\ Lage(h.f) = Lage(g.f)
      /\ \A t : Verdient(g.f, t) => Verdient(h.f, t)
  BY <1>1, <1>2, SortierSchrittLage
<1>5. /\ fsm' = [fsm EXCEPT ![b] = h.f] /\ dis' = [dis EXCEPT ![b] = h.dis]
  BY <1>3 DEF Reaktion
<1>6. \A k : Still(k, k)
  BY DEF Still
<1>7. ASSUME NEW c \in Anlagen
      PROVE  /\ Still(dis[c], dis'[c]) /\ Still(hfsm[c], hfsm'[c])
             /\ Lage(fsm'[c]) = Lage(fsm[c])
             /\ Verdient(fsm[c], taster) => Verdient(fsm'[c], taster)
  <2>1. CASE c = b
    BY <1>1, <1>2, <1>4, <1>5, <1>6, <2>1
  <2>2. CASE c # b
    BY <1>1, <1>2, <1>5, <1>6, <2>2
  <2> QED
    BY <2>1, <2>2
<1> QED
  BY <1>1, <1>7, GleichUnberuehrt

LEMMA HfsmGleich ==
  ASSUME IInv, WegInv, GleichInv, NEW b \in Anlagen, Hfsm(b)
  PROVE  GleichInv'
<1> DEFINE g == [f |-> fsm[b], dis |-> dis[b]]
<1>1. PICK p \in Stufen :
        /\ Dringendste(hfsm[b], p)
        /\ \E h \in handleEvent(g, b, Head(hfsm[b][p])) : Reaktion(b, h)
        /\ hfsm' = [hfsm EXCEPT ![b] = Entnehmen(@, p)]
  BY DEF Hfsm
<1> DEFINE s == Head(hfsm[b][p])
           e == Entnehmen(hfsm[b], p)
<1>2. /\ hfsm \in [Anlagen -> Geordnet] /\ hfsm[b] \in Geordnet /\ hfsm[b][p] # <<>>
      /\ dis \in [Anlagen -> Geordnet] /\ fsm \in [Anlagen -> FSM]
      /\ g \in Maschine /\ g.f = fsm[b] /\ g.dis = dis[b]
  BY <1>1 DEF IInv, TypeOK, Dringendste, Maschine
<1>3. s \in Puls
  BY <1>2, EntnehmenTyp
<1>4. UNCHANGED taster
  BY DEF Hfsm
<1> HIDE DEF g
<1>5. PICK h \in handleEvent(g, b, s) : Reaktion(b, h)
  BY <1>1
<1>6. Folgt(g, h, s)
  BY <1>2, <1>3, <1>5, handleEventLage DEF WegInv
<1>7. /\ fsm' = [fsm EXCEPT ![b] = h.f] /\ dis' = [dis EXCEPT ![b] = h.dis]
      /\ hfsm' = [hfsm EXCEPT ![b] = e]
  BY <1>1, <1>5 DEF Reaktion
<1>8. \A k : Still(k, k)
  BY DEF Still
<1>9. /\ fsm'[b] = h.f /\ hfsm'[b] = e
      /\ \A c \in Anlagen : Still(dis[c], dis'[c])
      /\ \A c \in Anlagen \ {b} : fsm'[c] = fsm[c] /\ hfsm'[c] = hfsm[c]
  BY <1>2, <1>6, <1>7, <1>8 DEF Folgt
<1>10. CASE s \notin TasterPuls
  <2>1. Still(hfsm[b], e)
    BY <1>2, <1>10, EntnehmenStill
  <2>2. /\ Danach(Lage(fsm[b]), s) = Lage(fsm[b])
        /\ Verdient(fsm[b], taster) => Davor(s, fsm[b], taster)
    BY <1>3, <1>10, DanachSonst
  <2> HIDE DEF s, e
  <2>3. ASSUME NEW c \in Anlagen
        PROVE  /\ Still(dis[c], dis'[c]) /\ Still(hfsm[c], hfsm'[c])
               /\ Lage(fsm'[c]) = Lage(fsm[c])
               /\ Verdient(fsm[c], taster) => Verdient(fsm'[c], taster)
    <3>1. CASE c = b
      BY <1>2, <1>6, <1>9, <2>1, <2>2, <3>1 DEF Folgt
    <3>2. CASE c # b
      BY <1>8, <1>9, <3>2
    <3> QED
      BY <3>1, <3>2
  <2> QED
    BY <1>4, <2>3, GleichUnberuehrt
<1>11. CASE s \in TasterPuls
  <2>1. PICK x \in TasterPuls, z \in EStopZustand : Schritthalten(x, z)
    BY DEF GleichInv
  <2> DEFINE a == x.anlage
             n == Nachbar(a)
  <2>2. a \in Anlagen /\ n \in Anlagen /\ n # a /\ Anlagen = {a, n}
    BY NachbarIst DEF TasterPuls, Anlagen
  <2>3. Frei(hfsm[b]) \/ Traegt(hfsm[b], x)
    BY <2>1, <2>2 DEF Schritthalten, Unverteilt, Verteilt
  <2>4. Traegt(hfsm[b], x) /\ s = x /\ Frei(e)
    BY <1>2, <1>11, <2>3, EntnehmenTraegt
  <2> HIDE DEF s, e, a, n
  <2>5. ~Frei(hfsm[b]) /\ ~Traegt(e, x)
    BY <2>4, FreiOderTraegt
  <2>6. Verteilt(x) /\ Frei(dis[a]) /\ Frei(dis[b])
    BY <2>1, <2>2, <2>5 DEF Schritthalten, Unverteilt, Verteilt, a, n
  <2>7. \A c \in Anlagen : /\ Frei(dis'[c]) <=> Frei(dis[c])
                           /\ Traegt(dis'[c], x) <=> Traegt(dis[c], x)
    BY <1>9, StillTraegt
  <2>8. Verteilt(x)'
    <3>1. CASE b = a
      BY <1>9, <2>2, <2>4, <2>6, <2>7, <3>1 DEF Verteilt, a, n
    <3>2. CASE b = n
      BY <1>9, <2>2, <2>4, <2>6, <2>7, <3>2 DEF Verteilt, a, n
    <3> QED
      BY <2>2, <3>1, <3>2
  <2>9. Offen(x, b) /\ ~Offen(x, b)' /\ \A c \in Anlagen \ {b} : Offen(x, c)' <=> Offen(x, c)
    <3>1. ~Traegt(dis[a], x) /\ ~Traegt(dis[b], x)
      BY <2>6, FreiOderTraegt
    <3> QED
      BY <1>9, <2>2, <2>4, <2>5, <2>7, <3>1 DEF Offen, a
  <2>10. Lage(fsm[b]) = z /\ Davor(x, fsm[b], taster)
    BY <2>1, <2>9 DEF Schritthalten
  <2>11. Lage(fsm'[b]) = Danach(z, x) /\ Verdient(fsm'[b], taster)
    BY <1>2, <1>6, <1>9, <2>4, <2>10 DEF Folgt
  <2>12. ASSUME NEW c \in Anlagen
         PROVE  IF Offen(x, c)' THEN Lage(fsm'[c]) = z /\ Davor(x, fsm'[c], taster')
                ELSE Lage(fsm'[c]) = Danach(z, x) /\ Verdient(fsm'[c], taster')
    <3>1. CASE c = b
      BY <1>4, <2>9, <2>11, <3>1
    <3>2. CASE c # b
      BY <1>4, <1>9, <2>1, <2>9, <3>2 DEF Schritthalten
    <3> QED
      BY <3>1, <3>2
  <2>13. Schritthalten(x, z)'
    BY <2>8, <2>12 DEF Schritthalten
  <2> QED
    BY <2>13 DEF GleichInv
<1> QED
  BY <1>10, <1>11

\* The dispatcher passes on a pulse that is not of a panel.
LEMMA DispatchSonst ==
  ASSUME IInv, GleichInv, NEW b \in Anlagen, NEW p \in Stufen, Dringendste(dis[b], p),
         Head(dis[b][p]) \notin TasterPuls,
         DispatchHAL(b, p) \/ DispatchFSM(b, p) \/ DispatchBeide(b, p),
         UNCHANGED <<fsm, taster>>
  PROVE  GleichInv'
<1> DEFINE s == Head(dis[b][p])
           n == Nachbar(b)
           ohne == [dis EXCEPT ![b] = Entnehmen(dis[b], p)]
<1>1. /\ dis \in [Anlagen -> Geordnet] /\ hfsm \in [Anlagen -> Geordnet]
      /\ dis[b] \in Geordnet /\ hfsm[b] \in Geordnet /\ dis[b][p] # <<>>
      /\ n \in Anlagen /\ n # b /\ dis[n] \in Geordnet
  BY NachbarIst DEF IInv, Dringendste
<1>2. s \in Puls \ TasterPuls
  BY <1>1, EntnehmenTyp
<1>3. Still(dis[b], Entnehmen(dis[b], p))
  BY <1>1, EntnehmenStill
<1>4. \A k \in Geordnet : Still(k, k) /\ Still(k, Einreihen(k, s))
  BY <1>2, EinreihenStill DEF Still
<1>5. dis' \in {ohne, [ohne EXCEPT ![n] = Einreihen(ohne[n], s)]}
  BY DEF DispatchHAL, DispatchFSM, DispatchBeide
<1>6. hfsm' \in {hfsm, [hfsm EXCEPT ![b] = Einreihen(hfsm[b], s)]}
  BY DEF DispatchHAL, DispatchFSM, DispatchBeide
<1>7. /\ ohne[n] = dis[n] /\ ohne[b] = Entnehmen(dis[b], p)
      /\ [ohne EXCEPT ![n] = Einreihen(ohne[n], s)][n] = Einreihen(dis[n], s)
      /\ [ohne EXCEPT ![n] = Einreihen(ohne[n], s)][b] = Entnehmen(dis[b], p)
  BY <1>1
<1>8. \A c \in Anlagen : c = b \/ c = n
  BY <1>1 DEF Anlagen
<1> HIDE DEF s, n, ohne
<1>9. \A c \in Anlagen : Still(dis[c], dis'[c])
  BY <1>1, <1>3, <1>4, <1>5, <1>7, <1>8
<1>10. \A c \in Anlagen : Still(hfsm[c], hfsm'[c])
  BY <1>1, <1>4, <1>6
<1> QED
  BY <1>9, <1>10, GleichUnberuehrt

\* The dispatcher passes on the pulse of the panel.
LEMMA DispatchTaster ==
  ASSUME IInv, GleichInv, leitung, NEW b \in Anlagen, verbunden[b], NEW p \in Stufen,
         Dringendste(dis[b], p), Head(dis[b][p]) \in TasterPuls,
         DispatchHAL(b, p) \/ DispatchFSM(b, p) \/ DispatchBeide(b, p),
         UNCHANGED <<fsm, taster>>
  PROVE  GleichInv'
<1> DEFINE s == Head(dis[b][p])
<1>1. PICK x \in TasterPuls, z \in EStopZustand : Schritthalten(x, z)
  BY DEF GleichInv
<1> DEFINE a == x.anlage
           n == Nachbar(a)
<1>2. /\ dis \in [Anlagen -> Geordnet] /\ hfsm \in [Anlagen -> Geordnet]
      /\ dis[b] \in Geordnet /\ hfsm[b] \in Geordnet /\ dis[b][p] # <<>>
      /\ a \in Anlagen /\ n \in Anlagen /\ n # a /\ Anlagen = {a, n}
      /\ dis[a] \in Geordnet /\ dis[n] \in Geordnet
      /\ hfsm[a] \in Geordnet /\ hfsm[n] \in Geordnet
  BY NachbarIst DEF IInv, Dringendste, TasterPuls, Anlagen
<1>3. Frei(dis[b]) \/ Traegt(dis[b], x)
  BY <1>1, <1>2 DEF Schritthalten, Unverteilt, Verteilt
<1>4. Traegt(dis[b], x) /\ s = x /\ Frei(Entnehmen(dis[b], p))
  BY <1>2, <1>3, EntnehmenTraegt
<1>5. ~DispatchHAL(b, p)
  BY <1>4 DEF DispatchHAL, MotorBefehle, TasterPuls, TasterSignale
<1>6. istMeinSignal(b, x) <=> b = a /\ x.sig # "S_STP_G"
  BY DEF istMeinSignal, TasterPuls, TasterSignale, PartnerSignale
<1>7. /\ dis' = IF istMeinSignal(b, x)
                THEN [[dis EXCEPT ![b] = Entnehmen(dis[b], p)] EXCEPT ![Nachbar(b)] = Einreihen(@, x)]
                ELSE [dis EXCEPT ![b] = Entnehmen(dis[b], p)]
      /\ hfsm' = [hfsm EXCEPT ![b] = Einreihen(hfsm[b], x)]
  BY <1>4, <1>5 DEF DispatchFSM, DispatchBeide
<1>8. hfsm'[b] = Einreihen(hfsm[b], x) /\ \A c \in Anlagen \ {b} : hfsm'[c] = hfsm[c]
  BY <1>2, <1>7
<1> HIDE DEF s, a, n
<1>9. CASE b = a
  <2>1. Unverteilt(x)
    <3>1. ~Frei(dis[a])
      BY <1>4, <1>9, FreiOderTraegt
    <3> QED
      BY <1>1, <3>1 DEF Schritthalten, Verteilt, a
  <2>2. Frei(hfsm[a]) /\ Frei(dis[n]) /\ Frei(hfsm[n])
    BY <2>1 DEF Unverteilt, a, n
  <2>3. Traegt(hfsm'[a], x) /\ Frei(hfsm'[n]) /\ hfsm'[n] = hfsm[n]
    BY <1>2, <1>8, <1>9, <2>2, EinreihenTraegt
  <2>4. Frei(dis'[a]) /\ dis'[n] = IF x.sig = "S_STP_G" THEN dis[n] ELSE Einreihen(dis[n], x)
    <3>1. dis'[a] = Entnehmen(dis[a], p)
      BY <1>2, <1>7, <1>9 DEF n
    <3>2. dis'[n] = IF x.sig = "S_STP_G" THEN dis[n] ELSE Einreihen(dis[n], x)
      BY <1>2, <1>6, <1>7, <1>9 DEF n
    <3> QED
      BY <1>4, <1>9, <3>1, <3>2
  <2>5. IF x.sig = "S_STP_G" THEN Frei(dis'[n]) ELSE Traegt(dis'[n], x)
    BY <1>2, <2>2, <2>4, EinreihenTraegt
  <2>6. Verteilt(x)'
    BY <2>3, <2>4, <2>5 DEF Verteilt, a, n
  <2>7. \A c \in Anlagen : Lage(fsm[c]) = z /\ Davor(x, fsm[c], taster)
    <3>1. \A c \in Anlagen : Offen(x, c)
      BY <1>4, <1>9 DEF Offen, a
    <3> QED
      BY <1>1, <3>1 DEF Schritthalten
  <2>8. Offen(x, a)' /\ (x.sig # "S_STP_G" => Offen(x, n)')
    BY <2>3, <2>5 DEF Offen
  <2>9. x.sig = "S_STP_G" => Danach(z, x) = z /\ \A c \in Anlagen : Verdient(fsm[c], taster)
    BY <2>7 DEF Danach, Davor
  <2>10. ASSUME NEW c \in Anlagen
         PROVE  IF Offen(x, c)' THEN Lage(fsm'[c]) = z /\ Davor(x, fsm'[c], taster')
                ELSE Lage(fsm'[c]) = Danach(z, x) /\ Verdient(fsm'[c], taster')
    <3>1. CASE Offen(x, c)'
      BY <2>7, <3>1
    <3>2. CASE ~Offen(x, c)'
      BY <1>2, <2>7, <2>8, <2>9, <3>2
    <3> QED
      BY <3>1, <3>2
  <2>11. Schritthalten(x, z)'
    BY <2>6, <2>10 DEF Schritthalten
  <2> QED
    BY <2>11 DEF GleichInv
<1>10. CASE b = n
  <2>1. /\ ~Frei(dis[n]) /\ Verteilt(x)
    <3>1. ~Frei(dis[n])
      BY <1>4, <1>10, FreiOderTraegt
    <3> QED
      BY <1>1, <3>1 DEF Schritthalten, Unverteilt, a, n
  <2>2. Frei(dis[a]) /\ Frei(hfsm[n]) /\ (Frei(hfsm[a]) \/ Traegt(hfsm[a], x))
    BY <2>1 DEF Verteilt, a, n
  <2>3. dis'[n] = Entnehmen(dis[n], p) /\ dis'[a] = dis[a]
    BY <1>2, <1>6, <1>7, <1>10
  <2>4. Frei(dis'[n]) /\ Frei(dis'[a])
    BY <1>4, <1>10, <2>2, <2>3
  <2>5. Traegt(hfsm'[n], x) /\ hfsm'[a] = hfsm[a]
    BY <1>2, <1>8, <1>10, <2>2, EinreihenTraegt
  <2>6. Verteilt(x)'
    BY <2>2, <2>4, <2>5 DEF Verteilt, a, n
  <2>7. \A c \in Anlagen : Offen(x, c)' <=> Offen(x, c)
    <3>1. Offen(x, n) /\ Offen(x, n)'
      BY <1>4, <1>10, <2>5 DEF Offen
    <3>2. Offen(x, a)' <=> Offen(x, a)
      BY <2>3, <2>5 DEF Offen, a
    <3> QED
      BY <1>2, <3>1, <3>2
  <2>8. Schritthalten(x, z)'
    BY <1>1, <2>6, <2>7 DEF Schritthalten
  <2> QED
    BY <2>8 DEF GleichInv
<1> QED
  BY <1>2, <1>9, <1>10

LEMMA DispatchGleich ==
  ASSUME IInv, WegInv, GleichInv, NEW b \in Anlagen, Dispatch(b)
  PROVE  GleichInv'
<1>1. PICK p \in Stufen :
        /\ Dringendste(dis[b], p)
        /\ DispatchHAL(b, p) \/ DispatchFSM(b, p) \/ DispatchBeide(b, p)
  BY DEF Dispatch
<1>2. UNCHANGED <<fsm, taster>> /\ leitung /\ verbunden[b]
  BY DEF Dispatch, WegInv
<1> QED
  BY <1>1, <1>2, DispatchSonst, DispatchTaster

\* A button is pressed while both plants are at rest.
LEMMA EingabeGleich ==
  ASSUME IInv, GleichInv, Bedienung = "langsam", NEW b \in Anlagen, NEW x \in TasterPuls,
         x.anlage = b, Eingabe(b, x.sig),
         \A c \in Anlagen : Verdient(fsm[c], taster) => Davor(x, fsm[c], taster')
  PROVE  GleichInv'
<1>1. PICK y \in TasterPuls, v \in EStopZustand : Schritthalten(y, v)
  BY DEF GleichInv
<1>2. \A c \in Anlagen : Frei(dis[c]) /\ Frei(hfsm[c])
  BY RuhigOhnePuls DEF Eingabe
<1>3. y.anlage \in Anlagen
  BY DEF TasterPuls
<1>4. \A c \in Anlagen : ~Offen(y, c)
  BY <1>2, <1>3, FreiOderTraegt DEF Offen
<1>5. \A c \in Anlagen : Lage(fsm[c]) = Danach(v, y) /\ Verdient(fsm[c], taster)
  BY <1>1, <1>4 DEF Schritthalten
<1> DEFINE z == Danach(v, y)
<1>6. z \in EStopZustand
  BY <1>5, LageTyp
<1>7. /\ UNCHANGED <<fsm, hfsm>> /\ dis \in [Anlagen -> Geordnet]
      /\ dis' = [dis EXCEPT ![b] = Einreihen(dis[b], x)]
  BY DEF Eingabe, IInv, TasterPuls
<1>8. Traegt(dis'[b], x) /\ \A c \in Anlagen \ {b} : dis'[c] = dis[c]
  BY <1>2, <1>7, EinreihenTraegt
<1> HIDE DEF z
<1>9. Unverteilt(x)'
  BY <1>2, <1>7, <1>8, NachbarIst DEF Unverteilt
<1>10. \A c \in Anlagen : Offen(x, c)'
  BY <1>8 DEF Offen
<1>11. \A c \in Anlagen : Lage(fsm'[c]) = z /\ Davor(x, fsm'[c], taster')
  BY <1>5, <1>7 DEF z
<1>12. Schritthalten(x, z)'
  BY <1>9, <1>10, <1>11 DEF Schritthalten
<1> QED
  BY <1>6, <1>12 DEF GleichInv

LEMMA TafelGleich ==
  ASSUME IInv, WegInv, GleichInv, Bedienung = "langsam", NEW b \in Anlagen,
         NotHaltDruecken(b) \/ NotHaltLoesen(b) \/ TasteDruecken(b)
  PROVE  GleichInv'
<1>1. CASE NotHaltDruecken(b)
  <2>1. Druck(b) \in TasterPuls /\ Druck(b).anlage = b /\ Druck(b).sig = "S_E_G"
    BY StufeDerTaster DEF Druck
  <2>2. Eingabe(b, Druck(b).sig)
    BY <1>1, <2>1 DEF NotHaltDruecken
  <2>3. \A f, t : Davor(Druck(b), f, t)
    BY <2>1 DEF Davor
  <2> QED
    BY <2>1, <2>2, <2>3, EingabeGleich
<1>2. CASE NotHaltLoesen(b)
  <2>1. Loesung(b) \in TasterPuls /\ Loesung(b).anlage = b /\ Loesung(b).sig = "S_E_NG"
    BY StufeDerTaster DEF Loesung
  <2>2. Eingabe(b, Loesung(b).sig) /\ gedrueckt[b]
    BY <1>2, <2>1 DEF NotHaltLoesen
  <2>3. \A a \in Anlagen : ~NotHaltUnterwegs(a)
    BY <2>2, RuhigFrei DEF Eingabe
  <2>4. \A c \in Anlagen : b \in Gemerkt(fsm[c])
    BY <2>2, <2>3, WegAbbild DEF NotHaltAbbild, Gedrueckt
  <2>5. \A c \in Anlagen : Davor(Loesung(b), fsm[c], taster')
    BY <2>1, <2>4 DEF Davor
  <2> QED
    BY <2>1, <2>2, <2>5, EingabeGleich
<1>3. CASE TasteDruecken(b)
  <2>1. PICK sig \in Tasten :
          /\ taster' = taster \cup {[sig |-> sig, anlage |-> b]}
          /\ Eingabe(b, sig)
    BY <1>3 DEF TasteDruecken
  <2> DEFINE x == [sig |-> sig, anlage |-> b]
  <2>2. x \in TasterPuls /\ x.sig = sig /\ x.anlage = b /\ sig \notin {"S_E_G", "S_E_NG"}
    BY NotHaltAnnahme DEF TasterPuls, TasterSignale
  <2>3. taster' = taster \cup {x}
    BY <2>1
  <2> HIDE DEF x
  <2>4. ASSUME NEW c \in Anlagen, Verdient(fsm[c], taster)
        PROVE  Davor(x, fsm[c], taster')
    <3>1. Verdient(fsm[c], taster')
      BY <2>3, <2>4 DEF Verdient
    <3> QED
      BY <2>2, <2>3, <3>1 DEF Davor
  <2> QED
    BY <2>1, <2>2, <2>4, EingabeGleich
<1> QED
  BY <1>1, <1>2, <1>3

LEMMA FehlerGleich ==
  ASSUME IInv, GleichInv, NEW b \in Anlagen, FehlerGeht(b)
  PROVE  GleichInv'
<1>1. PICK sig \in FehlerSignale : UNCHANGED taster /\ Eingabe(b, sig)
  BY DEF FehlerGeht
<1> DEFINE s == [sig |-> sig, anlage |-> b]
<1>2. s \in Puls \ TasterPuls
  BY DEF Puls, Signal, FehlerSignale, TasterPuls, TasterSignale
<1>3. /\ UNCHANGED <<fsm, hfsm, taster>> /\ dis \in [Anlagen -> Geordnet]
      /\ dis' = [dis EXCEPT ![b] = Einreihen(dis[b], s)]
  BY <1>1 DEF Eingabe, IInv
<1> HIDE DEF s
<1>4. \A k \in Geordnet : Still(k, k) /\ Still(k, Einreihen(k, s))
  BY <1>2, EinreihenStill DEF Still
<1>5. \A c \in Anlagen : Still(dis[c], dis'[c])
  BY <1>3, <1>4
<1>6. \A c \in Anlagen : Still(hfsm[c], hfsm'[c])
  BY <1>3 DEF Still
<1> QED
  BY <1>3, <1>5, <1>6, GleichUnberuehrt

LEMMA InitGleich ==
  Init => GleichInv
<1> SUFFICES ASSUME Init PROVE GleichInv
  OBVIOUS
<1> DEFINE x == [sig |-> "S_STP_G", anlage |-> 1]
<1>1. x \in TasterPuls /\ x.sig = "S_STP_G" /\ x.anlage = 1
  BY DEF TasterPuls, TasterSignale, Anlagen
<1> HIDE DEF x
<1>2. Frei(LeererKanal) /\ ~Traegt(LeererKanal, x)
  BY StufeDerTaster, FreiOderTraegt DEF Frei, LeererKanal
<1>3. \A c \in Anlagen : /\ fsm[c] = NeueFSM /\ taster = AlleTaster
                         /\ dis[c] = LeererKanal /\ hfsm[c] = LeererKanal
  BY DEF Init
<1>4. 1 \in Anlagen /\ Nachbar(1) \in Anlagen
  BY NachbarIst DEF Anlagen
<1>5. Verteilt(x)
  BY <1>1, <1>2, <1>3, <1>4 DEF Verteilt
<1>6. \A c \in Anlagen : ~Offen(x, c)
  BY <1>1, <1>2, <1>3, <1>4 DEF Offen
<1>7. Danach("Ende", x) = "Ende" /\ "Ende" \in EStopZustand
  BY <1>1 DEF Danach, EStopZustand
<1>8. Lage(NeueFSM) = "Ende" /\ Verdient(NeueFSM, AlleTaster)
  <2>1. \A p \in Anlagen : Reset(p) \in AlleTaster /\ "Wartezustand" # StartTasterWarten(p)
    BY DEF Reset, AlleTaster, StartTasterWarten
  <2> QED
    BY <2>1 DEF Lage, NeueFSM, Verdient
<1>9. Schritthalten(x, "Ende")
  BY <1>3, <1>5, <1>6, <1>7, <1>8 DEF Schritthalten
<1> QED
  BY <1>1, <1>7, <1>9 DEF GleichInv

LEMMA SchrittGleich ==
  ASSUME Bedienung = "langsam", ~MitAusfall
  PROVE  IInv /\ WegInv /\ GleichInv /\ [Next]_vars => GleichInv'
<1> SUFFICES ASSUME IInv, WegInv, GleichInv, [Next]_vars PROVE GleichInv'
  OBVIOUS
<1>1. ASSUME UNCHANGED <<fsm, dis, hfsm, taster>> PROVE GleichInv'
  BY <1>1, GleichUnberuehrt DEF Still
<1>2. CASE UNCHANGED vars
  BY <1>1, <1>2 DEF vars
<1>3. ASSUME NEW a \in Anlagen, Hal(a)
      PROVE  GleichInv'
  BY <1>1, <1>3 DEF Hal
<1>4. ~LeitungWechsel
  BY DEF LeitungWechsel
<1>5. ASSUME NEW a \in Anlagen
      PROVE  ~Zeitablauf(a) /\ ~Verbinden(a)
  BY DEF Zeitablauf, Verbinden, WegInv
<1>6. CASE Next
  <2>1. PICK a \in Anlagen :
          \/ Dispatch(a) \/ Hfsm(a) \/ Sortieren(a) \/ Hal(a)
          \/ NotHaltDruecken(a) \/ NotHaltLoesen(a) \/ TasteDruecken(a) \/ FehlerGeht(a)
    BY <1>4, <1>5, <1>6 DEF Next
  <2> QED
    BY <1>3, <2>1, DispatchGleich, HfsmGleich, SortierenGleich, TafelGleich, FehlerGleich
<1> QED
  BY <1>2, <1>6

\* At rest no machine is behind the other.
LEMMA GleichEinig ==
  IInv /\ WegInv /\ GleichInv => Einig
<1> SUFFICES ASSUME IInv, WegInv, GleichInv, Ruhig
             PROVE  fsm[1].zustand = "EStop" <=> fsm[2].zustand = "EStop"
  BY DEF Einig
<1>1. PICK x \in TasterPuls, z \in EStopZustand : Schritthalten(x, z)
  BY DEF GleichInv
<1>2. x.anlage \in Anlagen /\ 1 \in Anlagen /\ 2 \in Anlagen
  BY DEF TasterPuls, Anlagen
<1>3. \A c \in Anlagen : ~Offen(x, c)
  BY <1>2, RuhigOhnePuls, FreiOderTraegt DEF Offen
<1>4. \A c \in Anlagen : Lage(fsm[c]) = Danach(z, x)
  BY <1>1, <1>3 DEF Schritthalten
<1>5. \A c \in Anlagen : fsm[c].zustand = "EStop" <=> Lage(fsm[c]) # "Ende"
  BY DEF WegInv, Sauber, Lage
<1> QED
  BY <1>2, <1>4, <1>5

\* A plant that is about to handle an emergency stop is not yet expected to know.
LEMMA GleichVerdient ==
  IInv /\ GleichInv => NeustartNurMitBeidenResets
<1> SUFFICES ASSUME IInv, GleichInv, NEW c \in Anlagen, fsm[c].zustand = "Betriebszustand",
                    \A p \in Anlagen : ~NotHaltUnterwegs(p)
             PROVE  AlleTaster \subseteq taster
  BY DEF NeustartNurMitBeidenResets
<1>1. PICK x \in TasterPuls, z \in EStopZustand : Schritthalten(x, z)
  BY DEF GleichInv
<1>2. CASE ~Offen(x, c)
  BY <1>1, <1>2 DEF Schritthalten, Verdient
<1>3. CASE Offen(x, c)
  <2>1. x.anlage \in Anlagen
    BY DEF TasterPuls
  <2>2. \E d \in Anlagen : Hat(dis[d], x) \/ Hat(hfsm[d], x)
    <3>1. \A k : Traegt(k, x) => Hat(k, x)
      BY StufeDerTaster DEF Traegt, Hat, Enthaelt
    <3> QED
      BY <1>3, <2>1, <3>1 DEF Offen
  <2>3. x.sig \notin {"S_E_G", "S_E_NG"}
    <3>1. x \in {Druck(x.anlage), Loesung(x.anlage)} => NotHaltUnterwegs(x.anlage)
      BY <2>1, <2>2, UnterwegsIst
    <3>2. x.sig \in {"S_E_G", "S_E_NG"} => x \in {Druck(x.anlage), Loesung(x.anlage)}
      BY DEF TasterPuls, Druck, Loesung
    <3> QED
      BY <2>1, <3>1, <3>2
  <2>4. Verdient(fsm[c], taster)
    BY <1>1, <1>3, <2>3 DEF Schritthalten, Davor
  <2> QED
    BY <2>4 DEF Verdient
<1> QED
  BY <1>2, <1>3

-----------------------------------------------------------------------------
\* When the operators wait for the plants to come to rest between two buttons, the
\* two plants agree on whether they are in EStop, although every pulse reaches the
\* neighbour later than the own state machine and sorting goes on in between.
THEOREM AnlagenEinig ==
  ASSUME Bedienung = "langsam", ~MitAusfall
  PROVE  Spec => []Einig
<1>1. Bedienung # "eilig"
  OBVIOUS
<1> QED
  BY <1>1, InitInv, SchrittInv, InitWeg, SchrittWeg, InitGleich, SchrittGleich, GleichEinig, PTL
  DEF Spec

\* Under the same conditions neither plant is in operation before both resets and
\* both start buttons have been pressed since the last change of an emergency stop.
THEOREM NeustartVerdient ==
  ASSUME Bedienung = "langsam", ~MitAusfall
  PROVE  Spec => []NeustartNurMitBeidenResets
<1>1. Bedienung # "eilig"
  OBVIOUS
<1> QED
  BY <1>1, InitInv, SchrittInv, InitWeg, SchrittWeg, InitGleich, SchrittGleich, GleichVerdient,
     PTL DEF Spec
=============================================================================
