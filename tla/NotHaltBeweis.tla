---------------------------- MODULE NotHaltBeweis ----------------------------
(***************************************************************************)
(* Proofs about the emergency stop, for any number of button, chute, link  *)
(* and sorting events, however fast they come.                             *)
(***************************************************************************)
EXTENDS NotHalt, TLAPS

-----------------------------------------------------------------------------
(***************************************************************************)
(* Channels.                                                               *)
(***************************************************************************)

LEMMA PrioritaetIstStufe ==
  ASSUME NEW sig \in Signal
  PROVE  bestimmtPrioritaet(sig) \in Stufen
  BY DEF bestimmtPrioritaet, Stufen

\* A channel in which every pulse waits in the queue of its own priority.
Geordnet == {k \in Kanal : \A p \in Stufen : \A i \in 1 .. Len(k[p]) :
                              bestimmtPrioritaet(k[p][i].sig) = p}

LEMMA EinreihenTyp ==
  ASSUME NEW k \in Geordnet, NEW s \in Puls
  PROVE  Einreihen(k, s) \in Geordnet
<1> DEFINE n == bestimmtPrioritaet(s.sig)
           e == Einreihen(k, s)
<1>1. n \in Stufen
  BY PrioritaetIstStufe DEF Puls
<1>2. k \in Kanal /\ k[n] \in Seq(Puls)
  BY <1>1 DEF Geordnet, Kanal
<1>3. Append(k[n], s) \in Seq(Puls)
  BY <1>2
<1>4. e = [k EXCEPT ![n] = Append(k[n], s)]
  BY DEF Einreihen
<1>5. e \in Kanal /\ e[n] = Append(k[n], s) /\ \A p \in Stufen \ {n} : e[p] = k[p]
  BY <1>1, <1>2, <1>3, <1>4 DEF Kanal
<1>6. ASSUME NEW p \in Stufen, NEW i \in 1 .. Len(e[p])
      PROVE  bestimmtPrioritaet(e[p][i].sig) = p
  <2>1. CASE p # n
    BY <1>5, <1>6, <2>1 DEF Geordnet
  <2>2. CASE p = n /\ i = Len(k[n]) + 1
    BY <1>2, <1>5, <2>2
  <2>3. CASE p = n /\ i \in 1 .. Len(k[n])
    <3>1. e[p][i] = k[n][i]
      BY <1>2, <1>5, <2>3
    <3>2. bestimmtPrioritaet(k[n][i].sig) = n
      BY <1>1, <2>3 DEF Geordnet
    <3> QED
      BY <2>3, <3>1, <3>2
  <2> QED
    BY <1>2, <1>5, <1>6, <2>1, <2>2, <2>3
<1> QED
  BY <1>5, <1>6 DEF Geordnet

\* Sending leaves the queues of the other priorities as they are.
LEMMA EinreihenWirkung ==
  ASSUME NEW k \in Geordnet, NEW s \in Puls, NEW p \in Stufen
  PROVE  Einreihen(k, s)[p] = IF p = bestimmtPrioritaet(s.sig) THEN Append(k[p], s) ELSE k[p]
  BY DEF Geordnet, Kanal, Einreihen

LEMMA EntnehmenTyp ==
  ASSUME NEW k \in Geordnet, NEW p \in Stufen, k[p] # <<>>
  PROVE  /\ Entnehmen(k, p) \in Geordnet
         /\ Entnehmen(k, p)[p] = Tail(k[p])
         /\ \A q \in Stufen \ {p} : Entnehmen(k, p)[q] = k[q]
         /\ Head(k[p]) \in Puls
         /\ bestimmtPrioritaet(Head(k[p]).sig) = p
<1> DEFINE e == Entnehmen(k, p)
<1>1. k \in Kanal /\ k[p] \in Seq(Puls)
  BY DEF Geordnet, Kanal
<1>2. /\ Tail(k[p]) \in Seq(Puls)
      /\ Head(k[p]) \in Puls /\ Head(k[p]) = k[p][1]
      /\ Len(k[p]) \in Nat \ {0} /\ Len(Tail(k[p])) = Len(k[p]) - 1
      /\ \A i \in 1 .. Len(Tail(k[p])) : Tail(k[p])[i] = k[p][i + 1]
  BY <1>1
<1>3. /\ e \in Kanal /\ e[p] = Tail(k[p])
      /\ \A q \in Stufen \ {p} : e[q] = k[q]
  BY <1>1, <1>2 DEF Entnehmen, Kanal
<1>4. ASSUME NEW q \in Stufen, NEW i \in 1 .. Len(e[q])
      PROVE  bestimmtPrioritaet(e[q][i].sig) = q
  <2>1. CASE q # p
    BY <1>3, <1>4, <2>1 DEF Geordnet
  <2>2. CASE q = p
    <3>1. e[q] = Tail(k[p]) /\ i \in 1 .. Len(Tail(k[p]))
      BY <1>3, <2>2
    <3>2. e[q][i] = k[p][i + 1]
      BY <1>2, <3>1
    <3>3. i + 1 \in 1 .. Len(k[p])
      BY <1>2, <3>1
    <3> QED
      BY <2>2, <3>2, <3>3 DEF Geordnet
  <2> QED
    BY <2>1, <2>2
<1>5. bestimmtPrioritaet(k[p][1].sig) = p
  BY <1>2 DEF Geordnet
<1> QED
  BY <1>2, <1>3, <1>4, <1>5 DEF Geordnet

-----------------------------------------------------------------------------
(***************************************************************************)
(* The machine: every handler leads from machines to machines.             *)
(***************************************************************************)
Maschine == [f : FSM, dis : Geordnet]

LEMMA SendenTyp ==
  ASSUME NEW g \in Maschine, NEW a \in Anlagen, NEW sig \in Signal
  PROVE  /\ Senden(g, a, sig) \in Maschine
         /\ Senden(g, a, sig).f = g.f
         /\ Senden(g, a, sig).dis = Einreihen(g.dis, [sig |-> sig, anlage |-> a])
<1>1. [sig |-> sig, anlage |-> a] \in Puls
  BY DEF Puls
<1>2. Einreihen(g.dis, [sig |-> sig, anlage |-> a]) \in Geordnet
  BY <1>1, EinreihenTyp DEF Maschine
<1> QED
  BY <1>2 DEF Senden, Maschine

\* A channel whose last pulse is a stop of plant a.
Gestoppt(k, a) == \E k0 \in Geordnet : k = Einreihen(k0, [sig |-> "CMD_MTR_STOP", anlage |-> a])

LEMMA SendenStop ==
  ASSUME NEW g \in Maschine, NEW a \in Anlagen
  PROVE  Gestoppt(Senden(g, a, "CMD_MTR_STOP").dis, a)
  BY SendenTyp DEF Gestoppt, Maschine, Signal, MotorBefehle

LEMMA SendenEinenTyp ==
  ASSUME NEW g \in Maschine, NEW a \in Anlagen, NEW M \in SUBSET Signal,
         NEW h \in SendenEinen(g, a, M)
  PROVE  h \in Maschine /\ h.f = g.f
<1>1. h = g \/ \E sig \in M : h = Senden(g, a, sig)
  BY DEF SendenEinen
<1>2. ASSUME NEW sig \in M, h = Senden(g, a, sig)
      PROVE  h \in Maschine /\ h.f = g.f
  <2>1. sig \in Signal
    OBVIOUS
  <2> QED
    BY <1>2, <2>1, SendenTyp
<1> QED
  BY <1>1, <1>2

LEMMA datenprozessLoeschenTyp ==
  ASSUME NEW g \in Maschine
  PROVE  /\ datenprozessLoeschen(g) \in Maschine
         /\ datenprozessLoeschen(g).dis = g.dis
         /\ datenprozessLoeschen(g).f.zustand = g.f.zustand
  BY DEF datenprozessLoeschen, Maschine, FSM, Fehler

LEMMA EStopBetretenTyp ==
  ASSUME NEW g \in Maschine, NEW a \in Anlagen, NEW p \in Anlagen
  PROVE  /\ EStopBetreten(g, a, p) \in Maschine
         /\ Gestoppt(EStopBetreten(g, a, p).dis, a)
<1> DEFINE h == Senden(g, a, "CMD_MTR_STOP")
<1>1. h \in Maschine /\ Gestoppt(h.dis, a)
  BY SendenTyp, SendenStop DEF Signal, MotorBefehle
<1>2. EStopBetreten(g, a, p) = [h EXCEPT !.f.zustand = "EStop", !.f.estop = EStopAktiv(p)]
  BY DEF EStopBetreten
<1>3. EStopAktiv(p) \in EStopZustand
  BY DEF EStopAktiv, EStopZustand
<1> HIDE DEF h
<1>4. /\ EStopBetreten(g, a, p).dis = h.dis
      /\ EStopBetreten(g, a, p).f = [h.f EXCEPT !.zustand = "EStop", !.estop = EStopAktiv(p)]
      /\ EStopBetreten(g, a, p) \in [f : {EStopBetreten(g, a, p).f}, dis : Geordnet]
  BY <1>1, <1>2 DEF Maschine
<1>5. [h.f EXCEPT !.zustand = "EStop", !.estop = EStopAktiv(p)] \in FSM
  BY <1>1, <1>3 DEF Maschine, FSM
<1> QED
  BY <1>1, <1>4, <1>5 DEF Maschine

LEMMA RuhezustandBetretenTyp ==
  ASSUME NEW g \in Maschine
  PROVE  /\ RuhezustandBetreten(g) \in Maschine
         /\ RuhezustandBetreten(g).f.zustand = "Ruhezustand"
  BY DEF RuhezustandBetreten, Maschine, FSM, RZZustand

LEMMA AufWSWartenBetretenTyp ==
  ASSUME NEW g \in Maschine, NEW a \in Anlagen
  PROVE  /\ AufWSWartenBetreten(g, a) \in Maschine
         /\ AufWSWartenBetreten(g, a).f.zustand = g.f.zustand
         /\ Gestoppt(AufWSWartenBetreten(g, a).dis, a)
<1> DEFINE h == Senden(g, a, "CMD_MTR_STOP")
<1>1. h \in Maschine /\ Gestoppt(h.dis, a) /\ h.f = g.f
  BY SendenTyp, SendenStop DEF Signal, MotorBefehle
<1>2. AufWSWartenBetreten(g, a) = [h EXCEPT !.f.bz = "AufWSWarten"]
  BY DEF AufWSWartenBetreten
<1> HIDE DEF h
<1> QED
  BY <1>1, <1>2 DEF Maschine, FSM, BZZustand

LEMMA BetriebBetretenTyp ==
  ASSUME NEW g \in Maschine, NEW a \in Anlagen
  PROVE  /\ BetriebBetreten(g, a) \in Maschine
         /\ BetriebBetreten(g, a).f.zustand = "Betriebszustand"
<1> DEFINE h == AufWSWartenBetreten(g, a)
<1>1. h \in Maschine
  BY AufWSWartenBetretenTyp
<1>2. BetriebBetreten(g, a) = [h EXCEPT !.f.zustand = "Betriebszustand"]
  BY DEF BetriebBetreten
<1> HIDE DEF h
<1> QED
  BY <1>1, <1>2 DEF Maschine, FSM

LEMMA BetriebFortsetzenTyp ==
  ASSUME NEW g \in Maschine, NEW a \in Anlagen, NEW h \in BetriebFortsetzen(g, a)
  PROVE  h \in Maschine /\ h.f.zustand = "Betriebszustand"
<1>1. CASE g.f.bz = "Sortierung"
  <2>1. PICK k \in SendenEinen(g, a, MotorBefehle) :
          h = [k EXCEPT !.f.zustand = "Betriebszustand"]
    BY <1>1 DEF BetriebFortsetzen
  <2>2. k \in Maschine
    BY SendenEinenTyp DEF Signal
  <2> QED
    BY <2>1, <2>2 DEF Maschine, FSM
<1>2. CASE g.f.bz # "Sortierung"
  BY <1>2, BetriebBetretenTyp DEF BetriebFortsetzen
<1> QED
  BY <1>1, <1>2

LEMMA BetriebVerlassenTyp ==
  ASSUME NEW g \in Maschine, NEW a \in Anlagen, NEW h \in BetriebVerlassen(g, a)
  PROVE  h \in Maschine
<1> DEFINE M == {"CMD_MTR_RECHTS_S", "CMD_MTR_RECHTS_L"}
           sub == IF g.f.bz = "AufWSWarten"
                  THEN {[g EXCEPT !.f.reset_abgeschlossen = FALSE]} ELSE SendenEinen(g, a, M)
<1>1. PICK k \in sub : h = Senden(k, a, "CMD_MTR_STOP")
  BY DEF BetriebVerlassen
<1>2. [g EXCEPT !.f.reset_abgeschlossen = FALSE] \in Maschine
  BY DEF Maschine, FSM
<1>3. k \in Maschine
  BY <1>2, SendenEinenTyp DEF Signal, MotorBefehle
<1> QED
  BY <1>1, <1>3, SendenTyp DEF Signal, MotorBefehle

LEMMA FehlerbehandlungBetretenTyp ==
  ASSUME NEW g \in Maschine, NEW a \in Anlagen
  PROVE  /\ FehlerbehandlungBetreten(g, a) \in Maschine
         /\ Gestoppt(FehlerbehandlungBetreten(g, a).dis, a)
<1> DEFINE h == Senden(g, a, "CMD_MTR_STOP")
<1>1. h \in Maschine /\ Gestoppt(h.dis, a)
  BY SendenTyp, SendenStop DEF Signal, MotorBefehle
<1>2. FehlerbehandlungBetreten(g, a) =
        [h EXCEPT !.f.zustand = "Fehlerbehandlung", !.f.fb = "AnstehendUnquittiert",
                  !.f.fehlerOffen = TRUE]
  BY DEF FehlerbehandlungBetreten
<1> HIDE DEF h
<1> DEFINE b == FehlerbehandlungBetreten(g, a)
           f1 == [h.f EXCEPT !.zustand = "Fehlerbehandlung", !.fb = "AnstehendUnquittiert",
                             !.fehlerOffen = TRUE]
<1>3. b.dis = h.dis /\ b.f = f1 /\ b \in [f : {b.f}, dis : Geordnet]
  BY <1>1, <1>2 DEF Maschine
<1>4. f1 \in FSM
  BY <1>1 DEF Maschine, FSM, FBZustand
<1> QED
  BY <1>1, <1>3, <1>4 DEF Maschine

-----------------------------------------------------------------------------
(***************************************************************************)
(* The triggers.  A machine that is in EStop or Fehlerbehandlung afterwards *)
(* has been there before and sent nothing, or a stop was the last it sent. *)
(***************************************************************************)
Bremst(g, h, a) ==
  h.f.zustand \in Sicher => \/ g.f.zustand \in Sicher /\ h.dis = g.dis
                           \/ Gestoppt(h.dis, a)

LEMMA InEStopTyp ==
  ASSUME NEW g \in Maschine, NEW a \in Anlagen, NEW s \in Puls,
         g.f.zustand = "EStop", NEW h \in InEStop(g, s)
  PROVE  h \in Maschine /\ Bremst(g, h, a)
<1>1. ASSUME NEW sub \in EStopZustand, h = EStop_handleDefaultExit(g, sub)
      PROVE  h \in Maschine /\ Bremst(g, h, a)
  <2> DEFINE k == [g EXCEPT !.f.estop = sub]
  <2>1. k \in Maschine /\ k.dis = g.dis /\ k.f.zustand = g.f.zustand
    BY DEF Maschine, FSM
  <2>2. CASE sub = "Ende"
    <3>1. h = RuhezustandBetreten(datenprozessLoeschen(k))
      BY <1>1, <2>2 DEF EStop_handleDefaultExit
    <3> QED
      BY <2>1, <3>1, datenprozessLoeschenTyp, RuhezustandBetretenTyp DEF Bremst, Sicher
  <2>3. CASE sub # "Ende"
    <3>1. h = k
      BY <1>1, <2>3 DEF EStop_handleDefaultExit
    <3> QED
      BY <2>1, <3>1 DEF Bremst, Sicher
  <2> QED
    BY <2>2, <2>3
<1>2. g.f.estop \in EStopZustand
  BY DEF Maschine, FSM
<1>3. s.anlage \in {1, 2}
  BY DEF Puls, Anlagen
<1>4. /\ EStop_s_e_g(g.f, s.anlage) \in EStopZustand
      /\ EStop_s_e_ng(g.f, s.anlage) \in EStopZustand
      /\ EStop_s_rt_g(g.f, s.anlage) \in EStopZustand
  BY <1>2, <1>3 DEF EStop_s_e_g, EStop_s_e_ng, EStop_s_rt_g, EStopZustand, EStopAktiv,
     WartenReset, Nachbar
<1>5. CASE h = g
  BY <1>5 DEF Bremst, Sicher
<1> QED
  BY <1>1, <1>4, <1>5 DEF InEStop

LEMMA InRuhezustandTyp ==
  ASSUME NEW g \in Maschine, NEW a \in Anlagen, NEW s \in Puls,
         g.f.zustand = "Ruhezustand", NEW h \in InRuhezustand(g, a, s)
  PROVE  h \in Maschine /\ Bremst(g, h, a)
<1>1. s.anlage \in Anlagen
  BY DEF Puls
<1>2. CASE h = EStopBetreten(g, a, s.anlage)
  BY <1>1, <1>2, EStopBetretenTyp DEF Bremst
<1>3. ASSUME NEW rz \in RZZustand, NEW k \in Maschine, k.f.zustand = g.f.zustand,
             h = [k EXCEPT !.f.rz = rz]
      PROVE  h \in Maschine /\ Bremst(g, h, a)
  BY <1>3 DEF Maschine, FSM, Bremst, Sicher
<1>4. CASE h \in Ruhe_s_st_g(g, a, s.anlage)
  <2>1. StartTasterWarten(Nachbar(s.anlage)) \in RZZustand
    BY <1>1 DEF StartTasterWarten, RZZustand
  <2>2. CASE h = g
    BY <2>2 DEF Bremst, Sicher
  <2>3. CASE h = [g EXCEPT !.f.rz = StartTasterWarten(Nachbar(s.anlage))]
    BY <1>3, <2>1, <2>3
  <2>4. CASE h = BetriebBetreten(g, a) \/ h \in BetriebFortsetzen(g, a)
    BY <2>4, BetriebBetretenTyp, BetriebFortsetzenTyp DEF Bremst, Sicher
  <2> QED
    BY <1>4, <2>2, <2>3, <2>4 DEF Ruhe_s_st_g
<1>5. CASE h \in Ruhe_s_rt_g(g, s.anlage)
  <2>1. ResetTasterWarten(Nachbar(s.anlage)) \in RZZustand /\ "Betriebsbereit" \in RZZustand
    BY DEF ResetTasterWarten, RZZustand
  <2>2. CASE h = g
    BY <2>2 DEF Bremst, Sicher
  <2>3. CASE h = [g EXCEPT !.f.rz = ResetTasterWarten(Nachbar(s.anlage))]
    BY <1>3, <2>1, <2>3
  <2>4. CASE h = [datenprozessLoeschen(g) EXCEPT !.f.rz = "Betriebsbereit"]
    BY <1>3, <2>1, <2>4, datenprozessLoeschenTyp
  <2> QED
    BY <1>5, <2>2, <2>3, <2>4 DEF Ruhe_s_rt_g
<1>6. CASE h = Senden(g, a, "CMD_MTR_RECHTS_S")
  BY <1>6, SendenTyp DEF Signal, MotorBefehle, Bremst, Sicher
<1>7. CASE h = g
  BY <1>7 DEF Bremst, Sicher
<1> QED
  BY <1>2, <1>4, <1>5, <1>6, <1>7 DEF InRuhezustand

LEMMA InBetriebszustandTyp ==
  ASSUME NEW g \in Maschine, NEW a \in Anlagen, NEW s \in Puls,
         g.f.zustand = "Betriebszustand", NEW h \in InBetriebszustand(g, a, s)
  PROVE  h \in Maschine /\ Bremst(g, h, a)
<1>1. s.anlage \in Anlagen
  BY DEF Puls
<1>2. ASSUME NEW k \in BetriebVerlassen(g, a), h = EStopBetreten(k, a, s.anlage)
      PROVE  h \in Maschine /\ Bremst(g, h, a)
  BY <1>1, <1>2, BetriebVerlassenTyp, EStopBetretenTyp DEF Bremst
<1>3. ASSUME NEW k \in BetriebVerlassen(g, a), h = RuhezustandBetreten(k)
      PROVE  h \in Maschine /\ Bremst(g, h, a)
  BY <1>3, BetriebVerlassenTyp, RuhezustandBetretenTyp DEF Bremst, Sicher
<1>4. CASE h \in Betrieb_s_partner_fehler(g, a)
  <2>1. PICK k \in BetriebVerlassen(Senden(g, a, "S_PARTNER_FEHLER"), a) :
          h = FehlerbehandlungBetreten(k, a)
    BY <1>4 DEF Betrieb_s_partner_fehler
  <2>2. Senden(g, a, "S_PARTNER_FEHLER") \in Maschine
    BY SendenTyp DEF Signal, PartnerSignale
  <2>3. k \in Maschine
    BY <2>2, BetriebVerlassenTyp
  <2> QED
    BY <2>1, <2>3, FehlerbehandlungBetretenTyp DEF Bremst
<1>5. CASE h = g
  BY <1>5 DEF Bremst, Sicher
<1> QED
  BY <1>2, <1>3, <1>4, <1>5 DEF InBetriebszustand

LEMMA InFehlerbehandlungTyp ==
  ASSUME NEW g \in Maschine, NEW a \in Anlagen, NEW s \in Puls,
         g.f.zustand = "Fehlerbehandlung", NEW h \in InFehlerbehandlung(g, a, s)
  PROVE  h \in Maschine /\ Bremst(g, h, a)
<1>1. s.anlage \in Anlagen
  BY DEF Puls
<1>2. CASE h = EStopBetreten(g, a, s.anlage)
  BY <1>1, <1>2, EStopBetretenTyp DEF Bremst
<1>3. ASSUME NEW k \in Maschine, h \in BetriebFortsetzen(k, a)
      PROVE  h \in Maschine /\ Bremst(g, h, a)
  BY <1>3, BetriebFortsetzenTyp DEF Bremst, Sicher
<1>4. CASE h = g
  BY <1>4 DEF Bremst, Sicher
<1>5. CASE h \in Fehler_s_rt_g(g, a, s.anlage)
  <2> DEFINE q == [g EXCEPT !.f.fehler = "keinFehler", !.f.fehlerOffen = FALSE,
                            !.f.fb = "Ende"]
             r == [g EXCEPT !.f.fb = "AnstehendQuittiert", !.f.fehler = "keinFehler",
                            !.f.fehlerOffen = FALSE]
  <2>1. q \in Maschine /\ r \in Maschine /\ r.dis = g.dis /\ r.f.zustand = g.f.zustand
    BY DEF Maschine, FSM, FBZustand, Fehler
  <2>2. Senden(q, a, "S_PARTNER_OK") \in Maschine
    BY <2>1, SendenTyp DEF Signal, PartnerSignale
  <2>3. CASE h = r
    BY <2>1, <2>3 DEF Bremst, Sicher
  <2>4. CASE h \in BetriebFortsetzen(Senden(q, a, "S_PARTNER_OK"), a)
    BY <1>3, <2>2, <2>4
  <2> QED
    BY <1>4, <1>5, <2>3, <2>4 DEF Fehler_s_rt_g
<1>6. CASE h \in Fehler_s_st_g(g, a, s.anlage)
  <2> DEFINE q == [g EXCEPT !.f.fb = "Ende"]
  <2>1. q \in Maschine
    BY DEF Maschine, FSM, FBZustand
  <2>2. Senden(q, a, "S_PARTNER_OK") \in Maschine
    BY <2>1, SendenTyp DEF Signal, PartnerSignale
  <2>3. CASE h \in BetriebFortsetzen(Senden(q, a, "S_PARTNER_OK"), a)
    BY <1>3, <2>2, <2>3
  <2> QED
    BY <1>4, <1>6, <2>3 DEF Fehler_s_st_g
<1>7. CASE h = [g EXCEPT !.f.fb = "GegangenUnquittiert"]
  BY <1>7 DEF Maschine, FSM, FBZustand, Bremst, Sicher
<1> QED
  BY <1>2, <1>3, <1>4, <1>5, <1>6, <1>7 DEF InFehlerbehandlung, Fehler_gegangen

LEMMA handleEventTyp ==
  ASSUME NEW g \in Maschine, NEW a \in Anlagen, NEW s \in Puls, NEW h \in handleEvent(g, a, s)
  PROVE  h \in Maschine /\ Bremst(g, h, a)
<1>1. g.f.zustand \in {"Ruhezustand", "Betriebszustand", "Fehlerbehandlung", "EStop"}
  BY DEF Maschine, FSM
<1> QED
  BY <1>1, InEStopTyp, InRuhezustandTyp, InBetriebszustandTyp, InFehlerbehandlungTyp
  DEF handleEvent

-----------------------------------------------------------------------------
(***************************************************************************)
(* The inductive invariant.  MotorAusImNotHalt looks at the moment when no *)
(* motor command waits; before, the stop sent on entering Sicher is on its *)
(* way in one of two channels, or carried out.                             *)
(***************************************************************************)

\* A stop waits in the queue q with nothing behind it that drives the belt again.
StoppZuletzt(q) ==
  \E i \in 1 .. Len(q) : /\ q[i].sig = "CMD_MTR_STOP"
                         /\ \A j \in 1 .. Len(q) : j > i => q[j].sig # "CMD_MTR_RECHTS_S"

KeinMotor(q) == \A i \in 1 .. Len(q) : q[i].sig \notin {"CMD_MTR_STOP", "CMD_MTR_RECHTS_S"}

DisVoraus(d)  == d[HOCH] = <<>> /\ KeinMotor(d[MITTELHOCH])
HalVoraus(k)  == k[HOCH] = <<>> /\ k[MITTELHOCH] = <<>>

\* The stop of a plant in Sicher: with the dispatcher, with the HAL, or executed.
StoppAuf(d, k, m) ==
  \/ StoppZuletzt(d[MITTELHOCH])
  \/ DisVoraus(d) /\ StoppZuletzt(k[MITTELHOCH])
  \/ DisVoraus(d) /\ HalVoraus(k) /\ m = "stop"

NurMotor(k) == \A p \in Stufen : \A i \in 1 .. Len(k[p]) : k[p][i].sig \in MotorBefehle

IInv ==
  /\ TypeOK
  /\ dis \in [Anlagen -> Geordnet]
  /\ hfsm \in [Anlagen -> Geordnet]
  /\ hal \in [Anlagen -> Geordnet]
  /\ \A a \in Anlagen : NurMotor(hal[a])
  /\ \A a \in Anlagen : fsm[a].zustand \in Sicher => StoppAuf(dis[a], hal[a], motor[a])

-----------------------------------------------------------------------------
(***************************************************************************)
(* Queues: what appending and removing a pulse do to a waiting stop.       *)
(***************************************************************************)

LEMMA StoppAngehaengt ==
  ASSUME NEW q \in Seq(Puls), NEW s \in Puls, s.sig = "CMD_MTR_STOP"
  PROVE  StoppZuletzt(Append(q, s))
<1>1. Len(Append(q, s)) = Len(q) + 1 /\ Append(q, s)[Len(q) + 1] = s /\ Len(q) \in Nat
  OBVIOUS
<1> QED
  BY <1>1 DEF StoppZuletzt

LEMMA StoppBleibt ==
  ASSUME NEW q \in Seq(Puls), NEW s \in Puls, s.sig # "CMD_MTR_RECHTS_S", StoppZuletzt(q)
  PROVE  StoppZuletzt(Append(q, s))
<1> DEFINE r == Append(q, s)
<1>1. PICK i \in 1 .. Len(q) :
        /\ q[i].sig = "CMD_MTR_STOP"
        /\ \A j \in 1 .. Len(q) : j > i => q[j].sig # "CMD_MTR_RECHTS_S"
  BY DEF StoppZuletzt
<1>2. /\ Len(q) \in Nat /\ Len(r) = Len(q) + 1 /\ r[Len(q) + 1] = s
      /\ \A j \in 1 .. Len(q) : r[j] = q[j]
  OBVIOUS
<1> HIDE DEF r
<1>3. i \in 1 .. Len(r) /\ r[i].sig = "CMD_MTR_STOP"
  BY <1>1, <1>2
<1>4. ASSUME NEW j \in 1 .. Len(r), j > i
      PROVE  r[j].sig # "CMD_MTR_RECHTS_S"
  <2>1. j \in 1 .. Len(q) \/ j = Len(q) + 1
    BY <1>2
  <2> QED
    BY <1>1, <1>2, <1>4, <2>1
<1>5. StoppZuletzt(r)
  BY <1>3, <1>4 DEF StoppZuletzt
<1> QED
  BY <1>5 DEF r

LEMMA KeinMotorBleibt ==
  ASSUME NEW q \in Seq(Puls), NEW s \in Puls, s.sig \notin MotorBefehle, KeinMotor(q)
  PROVE  KeinMotor(Append(q, s))
<1> DEFINE r == Append(q, s)
<1>1. /\ Len(q) \in Nat /\ Len(r) = Len(q) + 1 /\ r[Len(q) + 1] = s
      /\ \A j \in 1 .. Len(q) : r[j] = q[j]
  OBVIOUS
<1> HIDE DEF r
<1>2. ASSUME NEW j \in 1 .. Len(r)
      PROVE  r[j].sig \notin {"CMD_MTR_STOP", "CMD_MTR_RECHTS_S"}
  <2>1. j \in 1 .. Len(q) \/ j = Len(q) + 1
    BY <1>1
  <2> QED
    BY <1>1, <2>1 DEF KeinMotor, MotorBefehle
<1>3. KeinMotor(r)
  BY <1>2 DEF KeinMotor
<1> QED
  BY <1>3 DEF r

LEMMA TailFolge ==
  ASSUME NEW q \in Seq(Puls), q # <<>>
  PROVE  /\ Tail(q) \in Seq(Puls) /\ Len(q) \in Nat \ {0}
         /\ Len(Tail(q)) = Len(q) - 1
         /\ Head(q) = q[1]
         /\ \A j \in 1 .. Len(q) - 1 : Tail(q)[j] = q[j + 1]
  OBVIOUS

LEMMA KeinMotorTail ==
  ASSUME NEW q \in Seq(Puls), q # <<>>, KeinMotor(q)
  PROVE  KeinMotor(Tail(q))
<1> DEFINE r == Tail(q)
<1>1. /\ Len(q) \in Nat \ {0} /\ Len(r) = Len(q) - 1
      /\ \A j \in 1 .. Len(q) - 1 : r[j] = q[j + 1]
  BY TailFolge
<1> HIDE DEF r
<1>2. ASSUME NEW j \in 1 .. Len(r)
      PROVE  r[j].sig \notin {"CMD_MTR_STOP", "CMD_MTR_RECHTS_S"}
  <2>1. j + 1 \in 1 .. Len(q) /\ r[j] = q[j + 1]
    BY <1>1
  <2> QED
    BY <2>1 DEF KeinMotor
<1>3. KeinMotor(r)
  BY <1>2 DEF KeinMotor
<1> QED
  BY <1>3 DEF r

\* Either the stop still waits, or it was the head and no motor command is left.
LEMMA StoppTail ==
  ASSUME NEW q \in Seq(Puls), StoppZuletzt(q)
  PROVE  /\ q # <<>>
         /\ \/ StoppZuletzt(Tail(q))
            \/ Head(q).sig = "CMD_MTR_STOP" /\ KeinMotor(Tail(q))
<1>1. PICK i \in 1 .. Len(q) :
        /\ q[i].sig = "CMD_MTR_STOP"
        /\ \A j \in 1 .. Len(q) : j > i => q[j].sig # "CMD_MTR_RECHTS_S"
  BY DEF StoppZuletzt
<1>2. q # <<>>
  OBVIOUS
<1> DEFINE r == Tail(q)
<1>3. /\ Len(q) \in Nat \ {0} /\ Len(r) = Len(q) - 1 /\ Head(q) = q[1]
      /\ \A j \in 1 .. Len(q) - 1 : r[j] = q[j + 1]
  BY <1>2, TailFolge
<1> HIDE DEF r
<1>4. ASSUME NEW k \in 1 .. Len(r), r[k].sig = "CMD_MTR_STOP", k + 1 >= i
      PROVE  StoppZuletzt(r)
  <2>1. ASSUME NEW j \in 1 .. Len(r), j > k
        PROVE  r[j].sig # "CMD_MTR_RECHTS_S"
    <3>1. j + 1 \in 1 .. Len(q) /\ j + 1 > i /\ r[j] = q[j + 1]
      BY <1>3, <1>4, <2>1
    <3> QED
      BY <1>1, <3>1
  <2> QED
    BY <1>4, <2>1 DEF StoppZuletzt
<1>5. CASE i > 1
  <2>1. i - 1 \in 1 .. Len(r) /\ r[i - 1] = q[i]
    BY <1>3, <1>5
  <2>2. StoppZuletzt(r)
    BY <1>1, <1>4, <2>1
  <2> QED
    BY <1>2, <2>2 DEF r
<1>6. CASE i = 1
  <2>1. Head(q).sig = "CMD_MTR_STOP"
    BY <1>1, <1>3, <1>6
  <2>2. ASSUME NEW j \in 1 .. Len(r)
        PROVE  r[j].sig # "CMD_MTR_RECHTS_S"
    <3>1. j + 1 \in 1 .. Len(q) /\ j + 1 > i /\ r[j] = q[j + 1]
      BY <1>3, <1>6
    <3> QED
      BY <1>1, <3>1
  <2>3. StoppZuletzt(r) \/ KeinMotor(r)
    BY <1>4, <1>6, <2>2 DEF KeinMotor
  <2> QED
    BY <1>2, <2>1, <2>3 DEF r
<1> QED
  BY <1>5, <1>6

-----------------------------------------------------------------------------
(***************************************************************************)
(* What the steps of the threads do to StoppAuf.                           *)
(***************************************************************************)

LEMMA StufeDerMotorbefehle ==
  ASSUME NEW sig \in Signal
  PROVE  /\ bestimmtPrioritaet(sig) = HOCH <=> sig = "CMD_MTR_RECHTS_L"
         /\ sig \in {"CMD_MTR_STOP", "CMD_MTR_RECHTS_S"} => bestimmtPrioritaet(sig) = MITTELHOCH
  BY DEF bestimmtPrioritaet, HOCH, MITTELHOCH, EXTREM_HOCH, MITTEL, NORMAL, PartnerSignale

LEMMA Schlange ==
  ASSUME NEW k \in Geordnet, NEW p \in Stufen
  PROVE  k[p] \in Seq(Puls)
  BY DEF Geordnet, Kanal

\* A stop that was sent last is waiting.
LEMMA StoppGesendet ==
  ASSUME NEW d, NEW k, NEW m, NEW a \in Anlagen, Gestoppt(d, a)
  PROVE  StoppAuf(d, k, m)
<1> DEFINE s == [sig |-> "CMD_MTR_STOP", anlage |-> a]
<1>1. PICK k0 \in Geordnet : d = Einreihen(k0, s)
  BY DEF Gestoppt
<1>2. s \in Puls /\ s.sig = "CMD_MTR_STOP" /\ MITTELHOCH \in Stufen
  BY DEF Puls, Signal, MotorBefehle, Stufen
<1>3. bestimmtPrioritaet(s.sig) = MITTELHOCH
  BY StufeDerMotorbefehle DEF Signal, MotorBefehle
<1> HIDE DEF s
<1>4. d[MITTELHOCH] = Append(k0[MITTELHOCH], s)
  BY <1>1, <1>2, <1>3, EinreihenWirkung
<1>5. k0[MITTELHOCH] \in Seq(Puls)
  BY <1>2, Schlange
<1>6. StoppZuletzt(d[MITTELHOCH])
  BY <1>2, <1>4, <1>5, StoppAngehaengt
<1> QED
  BY <1>6 DEF StoppAuf

\* The pulses of the panels and of the neighbour drive no belt.
LEMMA StoppAufEmpfangen ==
  ASSUME NEW d \in Geordnet, NEW k, NEW m, NEW s \in Puls, s.sig \notin MotorBefehle,
         StoppAuf(d, k, m)
  PROVE  StoppAuf(Einreihen(d, s), k, m)
<1> DEFINE e == Einreihen(d, s)
<1>1. HOCH \in Stufen /\ MITTELHOCH \in Stufen /\ s.sig \in Signal
  BY DEF Stufen, Puls
<1>2. e[HOCH] = d[HOCH]
  BY <1>1, EinreihenWirkung, StufeDerMotorbefehle DEF MotorBefehle
<1>3. e[MITTELHOCH] = d[MITTELHOCH] \/ e[MITTELHOCH] = Append(d[MITTELHOCH], s)
  BY <1>1, EinreihenWirkung
<1>4. d[MITTELHOCH] \in Seq(Puls) /\ s.sig # "CMD_MTR_RECHTS_S"
  BY <1>1, Schlange DEF MotorBefehle
<1> HIDE DEF e
<1>5. StoppZuletzt(d[MITTELHOCH]) => StoppZuletzt(e[MITTELHOCH])
  BY <1>3, <1>4, StoppBleibt
<1>6. DisVoraus(d) => DisVoraus(e)
  BY <1>2, <1>3, <1>4, KeinMotorBleibt DEF DisVoraus
<1>7. StoppAuf(e, k, m)
  BY <1>5, <1>6 DEF StoppAuf
<1> QED
  BY <1>7 DEF e

\* The dispatcher takes a pulse that is no motor command.
LEMMA StoppAufVerteilt ==
  ASSUME NEW d \in Geordnet, NEW k, NEW m, NEW p \in Stufen, d[p] # <<>>,
         Head(d[p]).sig \notin MotorBefehle, StoppAuf(d, k, m)
  PROVE  StoppAuf(Entnehmen(d, p), k, m)
<1> DEFINE e == Entnehmen(d, p)
<1>1. HOCH \in Stufen /\ MITTELHOCH \in Stufen
  BY DEF Stufen
<1>2. /\ e[p] = Tail(d[p]) /\ \A q \in Stufen \ {p} : e[q] = d[q]
  BY EntnehmenTyp
<1>3. d[MITTELHOCH] \in Seq(Puls)
  BY <1>1, Schlange
<1> HIDE DEF e
<1>4. StoppZuletzt(d[MITTELHOCH]) => StoppZuletzt(e[MITTELHOCH])
  <2>1. CASE p = MITTELHOCH
    BY <1>2, <1>3, <2>1, StoppTail DEF MotorBefehle
  <2>2. CASE p # MITTELHOCH
    BY <1>1, <1>2, <2>2
  <2> QED
    BY <2>1, <2>2
<1>5. DisVoraus(d) => DisVoraus(e)
  <2>1. CASE p = MITTELHOCH
    <3>1. e[HOCH] = d[HOCH]
      BY <1>1, <1>2, <2>1 DEF HOCH, MITTELHOCH
    <3>2. KeinMotor(d[MITTELHOCH]) => KeinMotor(e[MITTELHOCH])
      BY <1>2, <1>3, <2>1, KeinMotorTail
    <3> QED
      BY <3>1, <3>2 DEF DisVoraus
  <2>2. CASE p # MITTELHOCH
    BY <1>1, <1>2, <2>2 DEF DisVoraus
  <2> QED
    BY <2>1, <2>2
<1>6. StoppAuf(e, k, m)
  BY <1>4, <1>5 DEF StoppAuf
<1> QED
  BY <1>6 DEF e

\* The dispatcher passes a motor command to the HAL: a slow-speed command goes
\* before the stop, a fast-speed command behind it there is none.
LEMMA StoppAufAnHAL ==
  ASSUME NEW d \in Geordnet, NEW k \in Geordnet, NEW m, NEW p, Dringendste(d, p),
         Head(d[p]).sig \in MotorBefehle, StoppAuf(d, k, m)
  PROVE  StoppAuf(Entnehmen(d, p), Einreihen(k, Head(d[p])), m)
<1> DEFINE e == Entnehmen(d, p)
           s == Head(d[p])
           l == Einreihen(k, s)
<1>1. /\ HOCH \in Stufen /\ MITTELHOCH \in Stufen /\ HOCH > MITTELHOCH
      /\ p \in Stufen /\ d[p] # <<>>
      /\ \A q \in Stufen : q > p => d[q] = <<>>
  BY DEF Stufen, HOCH, MITTELHOCH, Dringendste
<1>2. /\ e[p] = Tail(d[p]) /\ \A q \in Stufen \ {p} : e[q] = d[q]
      /\ s \in Puls /\ bestimmtPrioritaet(s.sig) = p
  BY <1>1, EntnehmenTyp
<1>3. s.sig \in Signal
  BY <1>2 DEF Puls
<1>4. d[MITTELHOCH] \in Seq(Puls) /\ k[MITTELHOCH] \in Seq(Puls)
  BY <1>1, Schlange
<1>5. l[MITTELHOCH] = IF p = MITTELHOCH THEN Append(k[MITTELHOCH], s) ELSE k[MITTELHOCH]
  BY <1>1, <1>2, EinreihenWirkung
<1>6. CASE s.sig = "CMD_MTR_RECHTS_L"
  <2>1. p = HOCH
    BY <1>2, <1>3, <1>6, StufeDerMotorbefehle
  <2>2. StoppZuletzt(d[MITTELHOCH])
    BY <1>1, <2>1 DEF StoppAuf, DisVoraus
  <2>3. e[MITTELHOCH] = d[MITTELHOCH]
    BY <1>1, <1>2, <2>1
  <2> QED
    BY <2>2, <2>3 DEF StoppAuf
<1>7. CASE s.sig \in {"CMD_MTR_STOP", "CMD_MTR_RECHTS_S"}
  <2>1. p = MITTELHOCH
    BY <1>2, <1>3, <1>7, StufeDerMotorbefehle
  <2>2. d[HOCH] = <<>> /\ e[HOCH] = <<>>
    BY <1>1, <1>2, <2>1
  <2>3. ~KeinMotor(d[MITTELHOCH])
    <3>1. 1 \in 1 .. Len(d[MITTELHOCH]) /\ s = d[MITTELHOCH][1]
      BY <1>1, <1>4, <2>1, TailFolge
    <3> QED
      BY <1>7, <3>1 DEF KeinMotor
  <2>4. StoppZuletzt(d[MITTELHOCH])
    BY <2>3 DEF StoppAuf, DisVoraus
  <2>5. CASE StoppZuletzt(Tail(d[MITTELHOCH]))
    BY <1>2, <2>1, <2>5 DEF StoppAuf
  <2>6. CASE s.sig = "CMD_MTR_STOP" /\ KeinMotor(Tail(d[MITTELHOCH]))
    <3>1. DisVoraus(e)
      BY <1>2, <2>1, <2>2, <2>6 DEF DisVoraus
    <3>2. StoppZuletzt(l[MITTELHOCH])
      BY <1>2, <1>4, <1>5, <2>1, <2>6, StoppAngehaengt
    <3> QED
      BY <3>1, <3>2 DEF StoppAuf
  <2> QED
    BY <1>4, <2>1, <2>4, <2>5, <2>6, StoppTail
<1> QED
  BY <1>6, <1>7 DEF MotorBefehle

\* The HAL carries out the most urgent motor command.
LEMMA StoppAufAusgefuehrt ==
  ASSUME NEW d, NEW k \in Geordnet, NEW m, NEW p, Dringendste(k, p), NurMotor(k),
         StoppAuf(d, k, m)
  PROVE  StoppAuf(d, Entnehmen(k, p), MotorNach(Head(k[p]).sig))
<1> DEFINE e == Entnehmen(k, p)
           s == Head(k[p])
<1>1. /\ HOCH \in Stufen /\ MITTELHOCH \in Stufen /\ HOCH > MITTELHOCH
      /\ p \in Stufen /\ k[p] # <<>>
      /\ \A q \in Stufen : q > p => k[q] = <<>>
  BY DEF Stufen, HOCH, MITTELHOCH, Dringendste
<1>2. /\ e[p] = Tail(k[p]) /\ \A q \in Stufen \ {p} : e[q] = k[q]
      /\ s \in Puls /\ bestimmtPrioritaet(s.sig) = p
  BY <1>1, EntnehmenTyp
<1>3. k[p] \in Seq(Puls) /\ k[MITTELHOCH] \in Seq(Puls)
  BY <1>1, Schlange
<1>4. s.sig \in MotorBefehle /\ s.sig \in Signal
  <2>1. 1 \in 1 .. Len(k[p]) /\ s = k[p][1]
    BY <1>1, <1>3, TailFolge
  <2> QED
    BY <1>1, <1>2, <2>1 DEF NurMotor, Puls
<1>5. p \in {HOCH, MITTELHOCH}
  BY <1>2, <1>4, StufeDerMotorbefehle DEF MotorBefehle
<1>6. CASE StoppZuletzt(d[MITTELHOCH])
  BY <1>6 DEF StoppAuf
<1>7. CASE DisVoraus(d) /\ StoppZuletzt(k[MITTELHOCH])
  <2>1. CASE p = HOCH
    <3>1. e[MITTELHOCH] = k[MITTELHOCH]
      BY <1>1, <1>2, <2>1
    <3> QED
      BY <1>7, <3>1 DEF StoppAuf
  <2>2. CASE p = MITTELHOCH /\ StoppZuletzt(Tail(k[p]))
    BY <1>2, <1>7, <2>2 DEF StoppAuf
  <2>3. CASE p = MITTELHOCH /\ s.sig = "CMD_MTR_STOP" /\ KeinMotor(Tail(k[p]))
    <3>1. e[HOCH] = <<>>
      BY <1>1, <1>2, <2>3
    <3>2. MotorNach(s.sig) = "stop"
      BY <2>3 DEF MotorNach
    <3>3. Tail(k[p]) = <<>>
      <4>1. SUFFICES ASSUME Tail(k[p]) # <<>> PROVE FALSE
        OBVIOUS
      <4>2. /\ 1 \in 1 .. Len(Tail(k[p])) /\ 2 \in 1 .. Len(k[p])
            /\ Tail(k[p])[1] = k[p][2]
        BY <1>1, <1>3, <4>1, TailFolge
      <4>3. k[p][2].sig \in MotorBefehle
        BY <1>1, <4>2 DEF NurMotor
      <4>4. bestimmtPrioritaet(k[p][2].sig) = p
        BY <1>1, <4>2 DEF Geordnet
      <4>5. k[p][2].sig # "CMD_MTR_RECHTS_L"
        BY <1>1, <2>3, <4>3, <4>4, StufeDerMotorbefehle DEF Signal
      <4> QED
        BY <2>3, <4>2, <4>3, <4>5 DEF KeinMotor, MotorBefehle
    <3> QED
      BY <1>2, <1>7, <2>3, <3>1, <3>2, <3>3 DEF StoppAuf, HalVoraus
  <2> QED
    BY <1>3, <1>5, <1>7, <2>1, <2>2, <2>3, StoppTail
<1>8. CASE HalVoraus(k)
  BY <1>1, <1>5, <1>8 DEF HalVoraus
<1> QED
  BY <1>6, <1>7, <1>8 DEF StoppAuf

-----------------------------------------------------------------------------
(***************************************************************************)
(* A step of the sorting machine: the error exits stop the belt last.      *)
(***************************************************************************)

LEMMA SortierSchrittTyp ==
  ASSUME NEW g \in Maschine, NEW a \in Anlagen, g.f.zustand = "Betriebszustand",
         NEW h \in SortierSchritt(g, a)
  PROVE  h \in Maschine /\ Bremst(g, h, a)
<1>1. CASE h \in SortierenBeginnen(g, a)
  <2> DEFINE k == [g EXCEPT !.f.bz = "Sortierung", !.f.reset_abgeschlossen = FALSE]
  <2>1. k \in Maschine /\ k.f.zustand = "Betriebszustand"
    BY DEF Maschine, FSM, BZZustand
  <2>2. h \in SendenEinen(k, a, {"CMD_MTR_RECHTS_S"})
    BY <1>1 DEF SortierenBeginnen
  <2>3. h \in Maschine /\ h.f = k.f
    BY <2>1, <2>2, SendenEinenTyp DEF Signal, MotorBefehle
  <2> QED
    BY <2>1, <2>3 DEF Bremst, Sicher
<1>2. CASE h \in SendenEinen(g, a, MotorBefehle)
  <2>1. h \in Maschine /\ h.f = g.f
    BY <1>2, SendenEinenTyp DEF Signal
  <2> QED
    BY <2>1 DEF Bremst, Sicher
<1>3. CASE h \in SortierenBeenden(g, a)
  <2>1. PICK k \in SendenEinen(g, a, {"CMD_MTR_RECHTS_S", "CMD_MTR_RECHTS_L"}) :
          h = AufWSWartenBetreten(k, a)
    BY <1>3 DEF SortierenBeenden
  <2>2. k \in Maschine
    BY SendenEinenTyp DEF Signal, MotorBefehle
  <2> QED
    BY <2>1, <2>2, AufWSWartenBetretenTyp DEF Bremst
<1>4. CASE h \in Betrieb_fehlerExit(g, a)
  <2>1. PICK x \in Fehlerarten :
          \E k \in BetriebVerlassen(Senden([g EXCEPT !.f.fehler = x], a, "S_PARTNER_FEHLER"), a) :
            h = FehlerbehandlungBetreten(k, a)
    BY <1>4 DEF Betrieb_fehlerExit
  <2> DEFINE v == [g EXCEPT !.f.fehler = x]
  <2>2. v \in Maschine
    BY FehlerAnnahme DEF Maschine, FSM
  <2>3. Senden(v, a, "S_PARTNER_FEHLER") \in Maschine
    BY <2>2, SendenTyp DEF Signal, PartnerSignale
  <2>4. PICK k \in BetriebVerlassen(Senden(v, a, "S_PARTNER_FEHLER"), a) :
          h = FehlerbehandlungBetreten(k, a)
    BY <2>1
  <2>5. k \in Maschine
    BY <2>3, BetriebVerlassenTyp
  <2> QED
    BY <2>4, <2>5, FehlerbehandlungBetretenTyp DEF Bremst
<1> QED
  BY <1>1, <1>2, <1>3, <1>4 DEF SortierSchritt

-----------------------------------------------------------------------------
(***************************************************************************)
(* The steps.                                                              *)
(***************************************************************************)

LEMMA InitInv ==
  Init => IInv
<1> SUFFICES ASSUME Init PROVE IInv
  OBVIOUS
<1>1. LeererKanal \in Kanal /\ \A p \in Stufen : LeererKanal[p] = <<>>
  BY DEF LeererKanal, Kanal
<1>2. LeererKanal \in Geordnet /\ NurMotor(LeererKanal)
  BY <1>1 DEF Geordnet, NurMotor
<1>3. NeueFSM \in FSM /\ NeueFSM.zustand \notin Sicher
  BY DEF NeueFSM, FSM, EStopZustand, RZZustand, FBZustand, BZZustand, Fehler, Sicher
<1>4. AlleTaster \subseteq Puls
  BY DEF AlleTaster, Puls, Signal, TasterSignale
<1>5. TypeOK
  BY <1>1, <1>3, <1>4 DEF Init, TypeOK
<1> QED
  BY <1>2, <1>3, <1>5 DEF Init, IInv

\* A reaction of the state machine or of the sorting machine.
LEMMA ReaktionInv ==
  ASSUME IInv, NEW a \in Anlagen, NEW h \in Maschine,
         Bremst([f |-> fsm[a], dis |-> dis[a]], h, a), Reaktion(a, h),
         UNCHANGED <<hal, motor>>
  PROVE  /\ fsm' \in [Anlagen -> FSM]
         /\ dis' \in [Anlagen -> Geordnet]
         /\ \A b \in Anlagen : fsm'[b].zustand \in Sicher => StoppAuf(dis'[b], hal'[b], motor'[b])
<1>1. h.f \in FSM /\ h.dis \in Geordnet
  BY DEF Maschine
<1>2. fsm \in [Anlagen -> FSM] /\ dis \in [Anlagen -> Geordnet]
  BY DEF IInv, TypeOK
<1>3. /\ fsm' \in [Anlagen -> FSM] /\ dis' \in [Anlagen -> Geordnet]
      /\ fsm'[a] = h.f /\ dis'[a] = h.dis
      /\ \A b \in Anlagen \ {a} : fsm'[b] = fsm[b] /\ dis'[b] = dis[b]
  BY <1>1, <1>2 DEF Reaktion
<1>4. ASSUME NEW b \in Anlagen, fsm'[b].zustand \in Sicher
      PROVE  StoppAuf(dis'[b], hal'[b], motor'[b])
  <2>1. fsm[b].zustand \in Sicher => StoppAuf(dis[b], hal[b], motor[b])
    BY DEF IInv
  <2>2. CASE b # a
    BY <1>3, <1>4, <2>1, <2>2
  <2>3. CASE b = a /\ Gestoppt(h.dis, a)
    BY <1>3, <2>3, StoppGesendet
  <2>4. CASE b = a /\ fsm[a].zustand \in Sicher /\ h.dis = dis[a]
    BY <1>3, <2>1, <2>4
  <2> QED
    BY <1>3, <1>4, <2>2, <2>3, <2>4 DEF Bremst
<1> QED
  BY <1>3, <1>4

LEMMA HfsmInv ==
  ASSUME IInv, NEW a \in Anlagen, Hfsm(a)
  PROVE  IInv'
<1> DEFINE g == [f |-> fsm[a], dis |-> dis[a]]
<1>1. PICK p \in Stufen :
        /\ Dringendste(hfsm[a], p)
        /\ \E h \in handleEvent(g, a, Head(hfsm[a][p])) : Reaktion(a, h)
        /\ hfsm' = [hfsm EXCEPT ![a] = Entnehmen(@, p)]
  BY DEF Hfsm
<1>2. /\ hfsm \in [Anlagen -> Geordnet] /\ hfsm[a] \in Geordnet /\ hfsm[a][p] # <<>>
      /\ g \in Maschine
  BY <1>1 DEF IInv, TypeOK, Dringendste, Maschine
<1>3. Head(hfsm[a][p]) \in Puls /\ Entnehmen(hfsm[a], p) \in Geordnet
  BY <1>2, EntnehmenTyp
<1>4. UNCHANGED <<hal, motor, gedrueckt, verbunden, leitung, taster, eingaben, sortiert>>
  BY DEF Hfsm
<1> HIDE DEF g
<1>5. PICK h \in handleEvent(g, a, Head(hfsm[a][p])) : Reaktion(a, h)
  BY <1>1
<1>6. h \in Maschine /\ Bremst(g, h, a)
  BY <1>2, <1>3, <1>5, handleEventTyp
<1>7. /\ fsm' \in [Anlagen -> FSM]
      /\ dis' \in [Anlagen -> Geordnet]
      /\ \A b \in Anlagen : fsm'[b].zustand \in Sicher => StoppAuf(dis'[b], hal'[b], motor'[b])
  BY <1>4, <1>5, <1>6, ReaktionInv DEF g
<1>8. hfsm' \in [Anlagen -> Geordnet]
  BY <1>1, <1>2, <1>3
<1> QED
  BY <1>4, <1>7, <1>8 DEF IInv, TypeOK, Geordnet

LEMMA SortierenInv ==
  ASSUME IInv, NEW a \in Anlagen, Sortieren(a)
  PROVE  IInv'
<1> DEFINE g == [f |-> fsm[a], dis |-> dis[a]]
<1>1. /\ fsm[a].zustand = "Betriebszustand"
      /\ \E h \in SortierSchritt(g, a) : Reaktion(a, h)
      /\ sortiert' = sortiert + 1
      /\ UNCHANGED <<hfsm, hal, motor, gedrueckt, verbunden, leitung, taster, eingaben>>
  BY DEF Sortieren
<1>2. g \in Maschine /\ g.f = fsm[a]
  BY DEF IInv, TypeOK, Maschine
<1> HIDE DEF g
<1>3. PICK h \in SortierSchritt(g, a) : Reaktion(a, h)
  BY <1>1
<1>4. h \in Maschine /\ Bremst(g, h, a)
  BY <1>1, <1>2, <1>3, SortierSchrittTyp
<1>5. /\ fsm' \in [Anlagen -> FSM]
      /\ dis' \in [Anlagen -> Geordnet]
      /\ \A b \in Anlagen : fsm'[b].zustand \in Sicher => StoppAuf(dis'[b], hal'[b], motor'[b])
  BY <1>1, <1>3, <1>4, ReaktionInv DEF g
<1>6. sortiert' \in Nat
  BY <1>1 DEF IInv, TypeOK
<1> QED
  BY <1>1, <1>5, <1>6 DEF IInv, TypeOK, Geordnet

LEMMA NachbarIst ==
  ASSUME NEW a \in Anlagen
  PROVE  Nachbar(a) \in Anlagen \ {a}
  BY DEF Nachbar, Anlagen

\* The dispatcher passes a motor command to the HAL.
LEMMA DispatchHALInv ==
  ASSUME IInv, NEW a \in Anlagen, NEW p \in Stufen, Dringendste(dis[a], p), DispatchHAL(a, p),
         UNCHANGED <<fsm, motor, gedrueckt, leitung, taster, eingaben, sortiert>>
  PROVE  IInv'
<1> DEFINE s == Head(dis[a][p])
<1>1. /\ dis \in [Anlagen -> Geordnet] /\ hal \in [Anlagen -> Geordnet]
      /\ dis[a] \in Geordnet /\ hal[a] \in Geordnet /\ dis[a][p] # <<>>
  BY DEF IInv, Dringendste
<1>2. s \in Puls /\ Entnehmen(dis[a], p) \in Geordnet
  BY <1>1, EntnehmenTyp
<1>3. Einreihen(hal[a], s) \in Geordnet
  BY <1>1, <1>2, EinreihenTyp
<1>4. /\ s.sig \in MotorBefehle
      /\ hal' = [hal EXCEPT ![a] = Einreihen(hal[a], s)]
      /\ dis' = [dis EXCEPT ![a] = Entnehmen(dis[a], p)]
      /\ UNCHANGED <<hfsm, verbunden>>
  BY DEF DispatchHAL
<1> HIDE DEF s
<1>5. /\ dis' \in [Anlagen -> Geordnet] /\ hal' \in [Anlagen -> Geordnet]
      /\ dis'[a] = Entnehmen(dis[a], p) /\ hal'[a] = Einreihen(hal[a], s)
      /\ \A b \in Anlagen \ {a} : dis'[b] = dis[b] /\ hal'[b] = hal[b]
  BY <1>1, <1>2, <1>3, <1>4
<1>6. NurMotor(hal'[a])
  <2>1. ASSUME NEW q \in Stufen, NEW i \in 1 .. Len(hal'[a][q])
        PROVE  hal'[a][q][i].sig \in MotorBefehle
    <3>1. hal[a][q] \in Seq(Puls) /\ NurMotor(hal[a])
      BY <1>1, Schlange DEF IInv
    <3>2. CASE hal'[a][q] = hal[a][q]
      BY <3>1, <3>2, <2>1 DEF NurMotor
    <3>3. CASE hal'[a][q] = Append(hal[a][q], s)
      <4>1. CASE i = Len(hal[a][q]) + 1
        BY <1>4, <3>1, <3>3, <4>1
      <4>2. CASE i \in 1 .. Len(hal[a][q])
        <5>1. hal'[a][q][i] = hal[a][q][i]
          BY <3>1, <3>3, <4>2
        <5> QED
          BY <3>1, <4>2, <5>1 DEF NurMotor
      <4> QED
        BY <2>1, <3>1, <3>3, <4>1, <4>2
    <3>4. Einreihen(hal[a], s)[q] = IF q = bestimmtPrioritaet(s.sig)
                                    THEN Append(hal[a][q], s) ELSE hal[a][q]
      BY <1>1, <1>2, EinreihenWirkung
    <3> QED
      BY <1>5, <3>2, <3>3, <3>4
  <2> QED
    BY <2>1 DEF NurMotor
<1>7. ASSUME NEW b \in Anlagen, fsm'[b].zustand \in Sicher
      PROVE  StoppAuf(dis'[b], hal'[b], motor'[b])
  <2>1. StoppAuf(dis[b], hal[b], motor[b]) /\ motor' = motor
    BY <1>7 DEF IInv
  <2>2. CASE b = a
    BY <1>1, <1>4, <1>5, <2>1, <2>2, StoppAufAnHAL DEF s
  <2>3. CASE b # a
    BY <1>5, <2>1, <2>3
  <2> QED
    BY <2>2, <2>3
<1>8. \A b \in Anlagen : NurMotor(hal'[b])
  BY <1>5, <1>6 DEF IInv
<1> QED
  BY <1>4, <1>5, <1>7, <1>8 DEF IInv, TypeOK, Geordnet

\* The dispatcher passes anything else to the state machine, and to the neighbour.
LEMMA DispatchFSMInv ==
  ASSUME IInv, NEW a \in Anlagen, NEW p \in Stufen, Dringendste(dis[a], p),
         DispatchFSM(a, p) \/ DispatchBeide(a, p),
         UNCHANGED <<fsm, motor, gedrueckt, leitung, taster, eingaben, sortiert>>
  PROVE  IInv'
<1> DEFINE s == Head(dis[a][p])
           n == Nachbar(a)
<1>1. /\ dis \in [Anlagen -> Geordnet] /\ hfsm \in [Anlagen -> Geordnet]
      /\ dis[a] \in Geordnet /\ hfsm[a] \in Geordnet /\ dis[a][p] # <<>>
      /\ n \in Anlagen /\ n # a /\ dis[n] \in Geordnet
      /\ verbunden \in [Anlagen -> BOOLEAN]
  BY NachbarIst DEF IInv, TypeOK, Dringendste
<1>2. s \in Puls /\ Entnehmen(dis[a], p) \in Geordnet
  BY <1>1, EntnehmenTyp
<1>3. Einreihen(hfsm[a], s) \in Geordnet /\ Einreihen(dis[n], s) \in Geordnet
  BY <1>1, <1>2, EinreihenTyp
<1>4. /\ s.sig \notin MotorBefehle
      /\ hfsm' = [hfsm EXCEPT ![a] = Einreihen(hfsm[a], s)]
      /\ UNCHANGED hal
  BY DEF DispatchFSM, DispatchBeide
<1>5. /\ dis' \in [Anlagen -> Geordnet]
      /\ dis'[a] = Entnehmen(dis[a], p)
      /\ dis'[n] = dis[n] \/ dis'[n] = Einreihen(dis[n], s)
  <2> DEFINE ohne == [dis EXCEPT ![a] = Entnehmen(dis[a], p)]
  <2>1. /\ ohne \in [Anlagen -> Geordnet] /\ ohne[n] = dis[n]
        /\ ohne[a] = Entnehmen(dis[a], p)
    BY <1>1, <1>2
  <2>2. dis' = ohne \/ dis' = [ohne EXCEPT ![n] = Einreihen(ohne[n], s)]
    BY DEF DispatchFSM, DispatchBeide
  <2> HIDE DEF ohne, s, n
  <2> QED
    BY <1>1, <1>3, <2>1, <2>2
<1>6. verbunden' \in [Anlagen -> BOOLEAN]
  BY <1>1 DEF DispatchFSM, DispatchBeide
<1>7. hfsm' \in [Anlagen -> Geordnet]
  BY <1>1, <1>3, <1>4
<1> HIDE DEF s, n
<1>8. ASSUME NEW b \in Anlagen, fsm'[b].zustand \in Sicher
      PROVE  StoppAuf(dis'[b], hal'[b], motor'[b])
  <2>1. StoppAuf(dis[b], hal[b], motor[b]) /\ motor' = motor /\ hal' = hal
    BY <1>4, <1>8 DEF IInv
  <2>2. CASE b = a
    <3>1. StoppAuf(Entnehmen(dis[a], p), hal[a], motor[a])
      BY <1>1, <1>4, <2>1, <2>2, StoppAufVerteilt DEF s
    <3> QED
      BY <1>5, <2>1, <2>2, <3>1
  <2>3. CASE b = n
    <3>1. StoppAuf(Einreihen(dis[n], s), hal[n], motor[n])
      BY <1>1, <1>2, <1>4, <2>1, <2>3, StoppAufEmpfangen
    <3> QED
      BY <1>5, <2>1, <2>3, <3>1
  <2>4. b = a \/ b = n
    BY <1>1 DEF Anlagen
  <2> QED
    BY <2>2, <2>3, <2>4
<1> QED
  BY <1>4, <1>5, <1>6, <1>7, <1>8 DEF IInv, TypeOK, Geordnet

LEMMA DispatchInv ==
  ASSUME IInv, NEW a \in Anlagen, Dispatch(a)
  PROVE  IInv'
<1>1. PICK p \in Stufen :
        /\ Dringendste(dis[a], p)
        /\ DispatchHAL(a, p) \/ DispatchFSM(a, p) \/ DispatchBeide(a, p)
  BY DEF Dispatch
<1>2. UNCHANGED <<fsm, motor, gedrueckt, leitung, taster, eingaben, sortiert>>
  BY DEF Dispatch
<1> QED
  BY <1>1, <1>2, DispatchHALInv, DispatchFSMInv

LEMMA HalInv ==
  ASSUME IInv, NEW a \in Anlagen, Hal(a)
  PROVE  IInv'
<1>1. PICK p \in Stufen :
        /\ Dringendste(hal[a], p)
        /\ motor' = [motor EXCEPT ![a] = MotorNach(Head(hal[a][p]).sig)]
        /\ hal' = [hal EXCEPT ![a] = Entnehmen(hal[a], p)]
  BY DEF Hal
<1>2. UNCHANGED <<fsm, dis, hfsm, gedrueckt, verbunden, leitung, taster, eingaben, sortiert>>
  BY DEF Hal
<1>3. /\ hal \in [Anlagen -> Geordnet] /\ hal[a] \in Geordnet /\ hal[a][p] # <<>>
      /\ NurMotor(hal[a])
      /\ motor \in [Anlagen -> {"stop", "langsam", "schnell"}]
  BY <1>1 DEF IInv, TypeOK, Dringendste
<1>4. /\ Entnehmen(hal[a], p) \in Geordnet
      /\ Entnehmen(hal[a], p)[p] = Tail(hal[a][p])
      /\ \A q \in Stufen \ {p} : Entnehmen(hal[a], p)[q] = hal[a][q]
  BY <1>3, EntnehmenTyp
<1>5. MotorNach(Head(hal[a][p]).sig) \in {"stop", "langsam", "schnell"}
  BY DEF MotorNach
<1>6. /\ hal' \in [Anlagen -> Geordnet] /\ hal'[a] = Entnehmen(hal[a], p)
      /\ motor' \in [Anlagen -> {"stop", "langsam", "schnell"}]
      /\ motor'[a] = MotorNach(Head(hal[a][p]).sig)
      /\ \A b \in Anlagen \ {a} : hal'[b] = hal[b] /\ motor'[b] = motor[b]
  BY <1>1, <1>3, <1>4, <1>5
<1>7. NurMotor(hal'[a])
  <2>1. ASSUME NEW q \in Stufen, NEW i \in 1 .. Len(hal'[a][q])
        PROVE  hal'[a][q][i].sig \in MotorBefehle
    <3>1. CASE q # p
      BY <1>3, <1>4, <1>6, <2>1, <3>1 DEF NurMotor
    <3>2. CASE q = p
      <4>1. hal[a][p] \in Seq(Puls)
        BY <1>3, Schlange
      <4>2. i + 1 \in 1 .. Len(hal[a][p]) /\ hal'[a][q][i] = hal[a][p][i + 1]
        <5>1. hal'[a][q] = Tail(hal[a][p])
          BY <1>4, <1>6, <3>2
        <5>2. i \in 1 .. Len(hal[a][p]) - 1 /\ Len(hal[a][p]) \in Nat
          BY <1>3, <2>1, <4>1, <5>1, TailFolge
        <5> QED
          BY <1>3, <4>1, <5>1, <5>2, TailFolge
      <4> QED
        BY <1>3, <4>2 DEF NurMotor
    <3> QED
      BY <3>1, <3>2
  <2> QED
    BY <2>1 DEF NurMotor
<1>8. ASSUME NEW b \in Anlagen, fsm'[b].zustand \in Sicher
      PROVE  StoppAuf(dis'[b], hal'[b], motor'[b])
  <2>1. StoppAuf(dis[b], hal[b], motor[b]) /\ dis' = dis
    BY <1>2, <1>8 DEF IInv
  <2>2. CASE b = a
    BY <1>1, <1>3, <1>6, <2>1, <2>2, StoppAufAusgefuehrt
  <2>3. CASE b # a
    BY <1>6, <2>1, <2>3
  <2> QED
    BY <2>2, <2>3
<1>9. \A b \in Anlagen : NurMotor(hal'[b])
  BY <1>6, <1>7 DEF IInv
<1> QED
  BY <1>2, <1>6, <1>8, <1>9 DEF IInv, TypeOK, Geordnet

\* A pulse that is no motor command arrives from a panel or a sensor.
LEMMA EingabeInv ==
  ASSUME IInv, NEW a \in Anlagen, NEW sig \in Signal \ MotorBefehle, Eingabe(a, sig),
         gedrueckt' \in [Anlagen -> BOOLEAN], taster' \subseteq Puls
  PROVE  IInv'
<1> DEFINE s == [sig |-> sig, anlage |-> a]
<1>1. s \in Puls /\ s.sig \notin MotorBefehle
  BY DEF Puls
<1>2. /\ dis \in [Anlagen -> Geordnet] /\ dis[a] \in Geordnet
      /\ eingaben \in Nat
  BY DEF IInv, TypeOK
<1>3. /\ dis' = [dis EXCEPT ![a] = Einreihen(dis[a], s)]
      /\ eingaben' = eingaben + 1
      /\ UNCHANGED <<fsm, hfsm, hal, motor, verbunden, leitung, sortiert>>
  BY DEF Eingabe
<1> HIDE DEF s
<1>4. Einreihen(dis[a], s) \in Geordnet
  BY <1>1, <1>2, EinreihenTyp
<1>5. /\ dis' \in [Anlagen -> Geordnet] /\ dis'[a] = Einreihen(dis[a], s)
      /\ \A b \in Anlagen \ {a} : dis'[b] = dis[b]
  BY <1>2, <1>3, <1>4
<1>6. ASSUME NEW b \in Anlagen, fsm'[b].zustand \in Sicher
      PROVE  StoppAuf(dis'[b], hal'[b], motor'[b])
  <2>1. StoppAuf(dis[b], hal[b], motor[b]) /\ hal' = hal /\ motor' = motor
    BY <1>3, <1>6 DEF IInv
  <2>2. CASE b = a
    BY <1>1, <1>2, <1>5, <2>1, <2>2, StoppAufEmpfangen
  <2>3. CASE b # a
    BY <1>5, <2>1, <2>3
  <2> QED
    BY <2>2, <2>3
<1>7. eingaben' \in Nat
  BY <1>2, <1>3
<1> QED
  BY <1>3, <1>5, <1>6, <1>7 DEF IInv, TypeOK, Geordnet

LEMMA TafelInv ==
  ASSUME IInv, NEW a \in Anlagen,
         \/ NotHaltDruecken(a) \/ NotHaltLoesen(a) \/ TasteDruecken(a) \/ FehlerGeht(a)
  PROVE  IInv'
<1>1. gedrueckt \in [Anlagen -> BOOLEAN] /\ taster \subseteq Puls
  BY DEF IInv, TypeOK
<1>2. {"S_E_G", "S_E_NG", "S_ST_G", "S_STP_G", "S_RT_G", "S_LSR_NUB", "S_LSA2_UB"}
        \subseteq Signal \ MotorBefehle
  BY DEF Signal, TasterSignale, FehlerSignale, MotorBefehle
<1>3. CASE NotHaltDruecken(a)
  BY <1>1, <1>2, <1>3, EingabeInv DEF NotHaltDruecken
<1>4. CASE NotHaltLoesen(a)
  BY <1>1, <1>2, <1>4, EingabeInv DEF NotHaltLoesen
<1>5. CASE TasteDruecken(a)
  <2>1. PICK sig \in Tasten :
          /\ taster' = taster \cup {[sig |-> sig, anlage |-> a]}
          /\ gedrueckt' = gedrueckt
          /\ Eingabe(a, sig)
    BY <1>5 DEF TasteDruecken
  <2>2. sig \in Signal \ MotorBefehle
    BY <1>2, <2>1, NotHaltAnnahme
  <2>3. taster' \subseteq Puls
    BY <1>1, <2>1, <2>2 DEF Puls
  <2> QED
    BY <1>1, <2>1, <2>2, <2>3, EingabeInv
<1>6. CASE FehlerGeht(a)
  <2>1. PICK sig \in FehlerSignale : UNCHANGED <<gedrueckt, taster>> /\ Eingabe(a, sig)
    BY <1>6 DEF FehlerGeht
  <2>2. sig \in Signal \ MotorBefehle
    BY <1>2 DEF FehlerSignale
  <2> QED
    BY <1>1, <2>1, <2>2, EingabeInv
<1> QED
  BY <1>3, <1>4, <1>5, <1>6

\* The heartbeat is missed: Verbindung stops the belt.
LEMMA ZeitablaufInv ==
  ASSUME IInv, NEW a \in Anlagen, Zeitablauf(a)
  PROVE  IInv'
<1> DEFINE s == [sig |-> "CMD_MTR_STOP", anlage |-> a]
<1>1. s \in Puls
  BY DEF Puls, Signal, MotorBefehle
<1>2. /\ dis \in [Anlagen -> Geordnet] /\ dis[a] \in Geordnet
      /\ verbunden \in [Anlagen -> BOOLEAN]
  BY DEF IInv, TypeOK
<1>3. /\ dis' = [dis EXCEPT ![a] = Einreihen(dis[a], s)]
      /\ verbunden' = [verbunden EXCEPT ![a] = FALSE]
      /\ UNCHANGED <<fsm, hfsm, hal, motor, gedrueckt, leitung, taster, eingaben, sortiert>>
  BY DEF Zeitablauf
<1>4. Gestoppt(Einreihen(dis[a], s), a)
  BY <1>2 DEF Gestoppt
<1> HIDE DEF s
<1>5. Einreihen(dis[a], s) \in Geordnet
  BY <1>1, <1>2, EinreihenTyp
<1>6. /\ dis' \in [Anlagen -> Geordnet] /\ dis'[a] = Einreihen(dis[a], s)
      /\ \A b \in Anlagen \ {a} : dis'[b] = dis[b]
  BY <1>2, <1>3, <1>5
<1>7. ASSUME NEW b \in Anlagen, fsm'[b].zustand \in Sicher
      PROVE  StoppAuf(dis'[b], hal'[b], motor'[b])
  <2>1. CASE b = a
    BY <1>4, <1>6, <2>1, StoppGesendet
  <2>2. CASE b # a
    BY <1>3, <1>6, <1>7, <2>2 DEF IInv
  <2> QED
    BY <2>1, <2>2
<1>8. verbunden' \in [Anlagen -> BOOLEAN]
  BY <1>2, <1>3
<1> QED
  BY <1>3, <1>6, <1>7, <1>8 DEF IInv, TypeOK, Geordnet

LEMMA LeitungInv ==
  ASSUME IInv, LeitungWechsel \/ \E a \in Anlagen : Verbinden(a)
  PROVE  IInv'
<1>1. UNCHANGED <<fsm, dis, hfsm, hal, motor, gedrueckt, taster, sortiert>>
  BY DEF LeitungWechsel, Verbinden
<1>2. leitung' \in BOOLEAN /\ eingaben' \in Nat /\ verbunden' \in [Anlagen -> BOOLEAN]
  <2>1. leitung \in BOOLEAN /\ eingaben \in Nat /\ verbunden \in [Anlagen -> BOOLEAN]
    BY DEF IInv, TypeOK
  <2>2. CASE LeitungWechsel
    <3>1. leitung' = ~leitung
      BY <2>2 DEF LeitungWechsel
    <3>2. leitung' \in BOOLEAN
      BY <3>1, Zenon
    <3> QED
      BY <2>1, <2>2, <3>2 DEF LeitungWechsel
  <2>3. ASSUME NEW a \in Anlagen, Verbinden(a)
        PROVE  leitung' \in BOOLEAN /\ eingaben' \in Nat /\ verbunden' \in [Anlagen -> BOOLEAN]
    BY <2>1, <2>3 DEF Verbinden
  <2> QED
    BY <2>2, <2>3
<1>3. TypeOK'
  BY <1>1, <1>2 DEF IInv, TypeOK
<1>4. ASSUME NEW a \in Anlagen
      PROVE  /\ NurMotor(hal'[a])
             /\ fsm'[a].zustand \in Sicher => StoppAuf(dis'[a], hal'[a], motor'[a])
  BY <1>1 DEF IInv
<1> QED
  BY <1>1, <1>3, <1>4 DEF IInv

-----------------------------------------------------------------------------
LEMMA SchrittInv ==
  IInv /\ [Next]_vars => IInv'
<1> SUFFICES ASSUME IInv, [Next]_vars PROVE IInv'
  OBVIOUS
<1>1. CASE UNCHANGED vars
  BY <1>1 DEF IInv, TypeOK, vars
<1>2. CASE LeitungWechsel
  BY <1>2, LeitungInv
<1>3. ASSUME NEW a \in Anlagen,
             \/ Dispatch(a) \/ Hfsm(a) \/ Sortieren(a) \/ Hal(a)
             \/ NotHaltDruecken(a) \/ NotHaltLoesen(a) \/ TasteDruecken(a) \/ FehlerGeht(a)
             \/ Zeitablauf(a) \/ Verbinden(a)
      PROVE  IInv'
  BY <1>3, DispatchInv, HfsmInv, SortierenInv, HalInv, TafelInv, ZeitablaufInv, LeitungInv
<1>4. Next \/ UNCHANGED vars
  OBVIOUS
<1>5. CASE Next
  BY <1>2, <1>3, <1>5 DEF Next
<1> QED
  BY <1>1, <1>4, <1>5

\* A stop that has reached the end of its way has stopped the belt.
LEMMA IInvMotorAus ==
  IInv => MotorAusImNotHalt
<1> SUFFICES ASSUME IInv, NEW a \in Anlagen,
                    fsm[a].zustand \in Sicher, ~MotorBefehlUnterwegs(a)
             PROVE  motor[a] = "stop"
  BY DEF MotorAusImNotHalt
<1>1. StoppAuf(dis[a], hal[a], motor[a])
  BY DEF IInv
<1>2. MITTELHOCH \in Stufen
  BY DEF Stufen
<1>3. ~StoppZuletzt(dis[a][MITTELHOCH]) /\ ~StoppZuletzt(hal[a][MITTELHOCH])
  BY <1>2 DEF MotorBefehlUnterwegs, Wartet, StoppZuletzt, MotorBefehle
<1> QED
  BY <1>1, <1>3 DEF StoppAuf

\* Every variable of the two plants keeps its type, whatever the operators do.
THEOREM Typkorrekt == Spec => []TypeOK
<1>1. IInv => TypeOK
  BY DEF IInv
<1> QED
  BY <1>1, InitInv, SchrittInv, PTL DEF Spec

\* In EStop and Fehlerbehandlung the belt stands as soon as the motor commands have
\* been carried out: no drive command that sorting sent before, however many wait
\* and in whichever of the two channels, is executed after the stop.
THEOREM MotorAus == Spec => []MotorAusImNotHalt
  BY InitInv, SchrittInv, IInvMotorAus, PTL DEF Spec
=============================================================================
