----------------------------- MODULE BetriebBeweis -----------------------------
(***************************************************************************)
(* What the two plants know of each other, the belts and the start lamp,   *)
(* for every number of workpieces and all times.                           *)
(*                                                                         *)
(* None of the five properties is inductive.  They compare a machine with  *)
(* its actuators or with the other machine while nothing is under way;     *)
(* between the two lie the command queue of the HAL, which sleeps with the *)
(* ejector out, and channels in which pulses overtake each other.  So the  *)
(* invariant speaks of the end: how a switch (belt, lamp, what is reported *)
(* of a plant) will stand once everything that has been sent is handled.   *)
(* The core of a machine (Kern) puts these together with the states, flags *)
(* and the count they depend on.  Each handler takes a right core to a     *)
(* right core (Richtig) and sends only what it may (Wirkung); the channels *)
(* keep the order of the pulses that switch the same thing, as these have  *)
(* one priority; Ordnung says which pulses can wait at the same time.      *)
(***************************************************************************)
EXTENDS SortieranlageBeweis

(***************************************************************************)
(* The core of a machine.                                                  *)
(***************************************************************************)
An(b) == IF b THEN "an" ELSE "aus"
Schalter == {"an", "aus"}

\* The state of a switch that was v before the pulses s, each of which may
\* switch it on or off.
Nach(v, s, ein, aus) == An(Letztes(v = "an", s, Len(s), ein, aus))

\* The same for a belt that stands, which two commands start.
Steht(v, s) ==
  An(/\ Letztes(v = "an", s, Len(s), "CMD_MTR_STOP", "CMD_MTR_RECHTS_L")
     /\ Letztes(v = "an", s, Len(s), "CMD_MTR_STOP", "CMD_MTR_RECHTS_S"))

Frei(a)      == IF a = 1 THEN "S_FESTO1_FREI" ELSE "S_FESTO2_FREI"
NichtFrei(a) == IF a = 1 THEN "S_FESTO1_NFREI" ELSE "S_FESTO2_NFREI"
Eingang(a)   == IF a = 1 THEN "S_LSA1_UB" ELSE "S_LSA2_UB"

\* Where the switches of a plant stood before its machine handled a pulse.
Vorher == [steht : Schalter, q1 : Schalter, bereit : Schalter, frei : Schalter]

\* Signals of which it matters whether a machine has sent them.
Wichtig == {"S_LSA1_UB", "S_LSA2_UB", "S_LSH_UB", "S_LSE1_UB", "S_LSR_UB", "S_LSE2_NUB",
            "S_FESTO1_FREI", "S_FESTO1_NFREI", "S_FESTO2_FREI", "S_FESTO2_NFREI",
            "S_FESTO2_BEREIT", "S_FESTO2_NBEREIT", "S_FESTO1_STOPPEN", "CMD_FESTOS_FREI"}

Hat(k, sig) == \E i \in 1..Len(k) : k[i].sig = sig

\* What matters of machine g: its own states, flags and count, what it has sent,
\* and each switch as it stands after that, from the position it had in e.
Kern(e, g) ==
  [a |-> g.d.festo, zu |-> g.zustand, bz |-> g.bz, lsa |-> g.lsa, lse |-> g.lse,
   exit |-> An(g.exit), ort |-> g.d.fehler.ort, n |-> g.d.anzahlWS,
   wart |-> An(g.d.enteredWartenAufErlaubnisVonF2), verl |-> An(g.d.FehlerVerlorenBeiLAS2),
   f2b |-> An(g.d.f2_bereit), f1 |-> An(g.d.festo1Frei), f2 |-> An(g.d.festo2Frei),
   steht |-> Steht(e.steht, g.aus),
   q1 |-> Nach(e.q1, g.aus, "CMD_LED_Q1_AN", "CMD_LED_Q1_AUS"),
   bereit |-> Nach(e.bereit, g.aus, "S_FESTO2_BEREIT", "S_FESTO2_NBEREIT"),
   frei |-> Nach(e.frei, g.aus, Frei(g.d.festo), NichtFrei(g.d.festo)),
   sig |-> {s \in Wichtig : Hat(g.aus, s)}]

Kerne ==
  [a : Anlagen, zu : {"Betriebszustand", "Fehlerbehandlung", "EStop"},
   bz : {"AufWSWarten", "Sortierung"}, lsa : LSAZustand, lse : LSEZustand,
   exit : Schalter, ort : FehlerOrt, n : Int, wart : Schalter, verl : Schalter,
   f2b : Schalter, f1 : Schalter, f2 : Schalter, steht : Schalter, q1 : Schalter,
   bereit : Schalter, frei : Schalter, sig : SUBSET Wichtig]

\* The core K of machine g, when its switches stood at e before it sent g.aus.
Ist(e, g, K) == e \in Vorher /\ g \in Maschine /\ K \in Kerne /\ Kern(e, g) = K

\* The core after a machine has sent the signal s.
KSende(K, s) ==
  [K EXCEPT
     !.steht = IF s = "CMD_MTR_STOP" THEN "an"
               ELSE IF s \in {"CMD_MTR_RECHTS_L", "CMD_MTR_RECHTS_S"} THEN "aus" ELSE K.steht,
     !.q1 = IF s = "CMD_LED_Q1_AN" THEN "an" ELSE IF s = "CMD_LED_Q1_AUS" THEN "aus" ELSE K.q1,
     !.bereit = IF s = "S_FESTO2_BEREIT" THEN "an"
                ELSE IF s = "S_FESTO2_NBEREIT" THEN "aus" ELSE K.bereit,
     !.frei = IF s = Frei(K.a) THEN "an" ELSE IF s = NichtFrei(K.a) THEN "aus" ELSE K.frei,
     !.sig = K.sig \cup ({s} \cap Wichtig)]

-----------------------------------------------------------------------------
(***************************************************************************)
(* A switch after one more pulse.                                          *)
(***************************************************************************)
LEMMA LetztesSenden ==
  ASSUME NEW v \in BOOLEAN, NEW s \in Seq(Puls), NEW m \in Puls, NEW ein, NEW aus, ein # aus
  PROVE  Letztes(v, Append(s, m), Len(Append(s, m)), ein, aus)
           <=> m.sig = ein \/ (m.sig # aus /\ Letztes(v, s, Len(s), ein, aus))
<1> DEFINE n == Len(s)
           t == Append(s, m)
<1>1. n \in Nat /\ Len(t) = n + 1 /\ t[n + 1] = m /\ \A i \in 1..n : t[i] = s[i]
  OBVIOUS
<1> HIDE DEF n, t
<1>2. Letztes(v, t, n, ein, aus) <=> Letztes(v, s, n, ein, aus)
  BY <1>1, LetztesGleich
<1>3. Letztes(v, t, n + 1, ein, aus)
        <=> t[n + 1].sig = ein \/ (t[n + 1].sig # aus /\ Letztes(v, t, n, ein, aus))
  BY <1>1, LetztesWeiter
<1> QED
  BY <1>1, <1>2, <1>3 DEF n, t

LEMMA NachSenden ==
  ASSUME NEW v \in Schalter, NEW s \in Seq(Puls), NEW m \in Puls, NEW ein, NEW aus, ein # aus
  PROVE  /\ Nach(v, s, ein, aus) \in Schalter
         /\ Nach(v, Append(s, m), ein, aus)
              = IF m.sig = ein THEN "an" ELSE IF m.sig = aus THEN "aus" ELSE Nach(v, s, ein, aus)
<1> DEFINE w == v = "an"
           P == Letztes(w, s, Len(s), ein, aus)
           Q == Letztes(w, Append(s, m), Len(Append(s, m)), ein, aus)
<1>1. w \in BOOLEAN
  OBVIOUS
<1>2. Nach(v, s, ein, aus) = An(P) /\ Nach(v, Append(s, m), ein, aus) = An(Q)
  BY DEF Nach
<1> HIDE DEF w
<1>3. Q <=> m.sig = ein \/ (m.sig # aus /\ P)
  BY <1>1, LetztesSenden
<1> HIDE DEF P, Q
<1>4. An(Q) = IF m.sig = ein THEN "an" ELSE IF m.sig = aus THEN "aus" ELSE An(P)
  BY <1>3 DEF An
<1> QED
  BY <1>2, <1>4 DEF An, Schalter

LEMMA StehtSenden ==
  ASSUME NEW v \in Schalter, NEW s \in Seq(Puls), NEW m \in Puls
  PROVE  /\ Steht(v, s) \in Schalter
         /\ Steht(v, Append(s, m))
              = IF m.sig = "CMD_MTR_STOP" THEN "an"
                ELSE IF m.sig \in {"CMD_MTR_RECHTS_L", "CMD_MTR_RECHTS_S"} THEN "aus"
                ELSE Steht(v, s)
<1> DEFINE w == v = "an"
           P(x) == Letztes(w, s, Len(s), "CMD_MTR_STOP", x)
           Q(x) == Letztes(w, Append(s, m), Len(Append(s, m)), "CMD_MTR_STOP", x)
<1>1. w \in BOOLEAN
  OBVIOUS
<1>2. /\ Steht(v, s) = An(P("CMD_MTR_RECHTS_L") /\ P("CMD_MTR_RECHTS_S"))
      /\ Steht(v, Append(s, m)) = An(Q("CMD_MTR_RECHTS_L") /\ Q("CMD_MTR_RECHTS_S"))
  BY DEF Steht
<1> HIDE DEF w
<1>3. Q("CMD_MTR_RECHTS_L")
        <=> m.sig = "CMD_MTR_STOP" \/ (m.sig # "CMD_MTR_RECHTS_L" /\ P("CMD_MTR_RECHTS_L"))
  BY <1>1, LetztesSenden
<1>4. Q("CMD_MTR_RECHTS_S")
        <=> m.sig = "CMD_MTR_STOP" \/ (m.sig # "CMD_MTR_RECHTS_S" /\ P("CMD_MTR_RECHTS_S"))
  BY <1>1, LetztesSenden
<1> HIDE DEF P, Q
<1> QED
  BY <1>2, <1>3, <1>4 DEF An, Schalter

LEMMA NachNichts ==
  ASSUME NEW v \in Schalter, NEW ein, NEW aus
  PROVE  Nach(v, <<>>, ein, aus) = v /\ Steht(v, <<>>) = v
<1>1. (v = "an") \in BOOLEAN /\ Len(<<>>) = 0
  OBVIOUS
<1>2. \A x, y : Letztes(v = "an", <<>>, Len(<<>>), x, y) <=> v = "an"
  BY <1>1, LetztesAnfang
<1>3. Nach(v, <<>>, ein, aus) = v
  BY <1>2 DEF Nach, An, Schalter
<1>4. Steht(v, <<>>) = v
  BY <1>2 DEF Steht, An, Schalter
<1> QED
  BY <1>3, <1>4

LEMMA HatSenden ==
  ASSUME NEW s \in Seq(Puls), NEW m \in Puls
  PROVE  {x \in Wichtig : Hat(Append(s, m), x)}
           = {x \in Wichtig : Hat(s, x)} \cup ({m.sig} \cap Wichtig)
<1>1. /\ Len(s) \in Nat /\ Len(Append(s, m)) = Len(s) + 1
      /\ Append(s, m)[Len(s) + 1] = m /\ \A i \in 1..Len(s) : Append(s, m)[i] = s[i]
  OBVIOUS
<1>2. ASSUME NEW x PROVE Hat(Append(s, m), x) <=> Hat(s, x) \/ m.sig = x
  <2>1. \A i \in 1..(Len(s) + 1) : i \in 1..Len(s) \/ i = Len(s) + 1
    BY <1>1
  <2>2. Len(s) + 1 \in 1..(Len(s) + 1) /\ \A i \in 1..Len(s) : i \in 1..(Len(s) + 1)
    BY <1>1
  <2> QED
    BY <1>1, <2>1, <2>2 DEF Hat
<1> QED
  BY <1>2

-----------------------------------------------------------------------------
(***************************************************************************)
(* The core of a machine after one assignment or one signal.               *)
(***************************************************************************)
LEMMA GesendetLeer == <<>> \in Seq(Gesendet) /\ <<>> \in Seq(Puls) /\ \A x : ~Hat(<<>>, x)
<1>1. Len(<<>>) = 0 /\ 1..0 = {}
  OBVIOUS
<1> QED
  BY <1>1 DEF Hat

LEMMA FreiTyp ==
  ASSUME NEW a \in Anlagen
  PROVE  Frei(a) # NichtFrei(a)
  BY DEF Frei, NichtFrei, Anlagen

LEMMA KernTyp ==
  ASSUME NEW e \in Vorher, NEW g \in Maschine
  PROVE  Ist(e, g, Kern(e, g))
<1>1. /\ g.d \in Daten /\ g.aus \in Seq(Gesendet) /\ g.exit \in BOOLEAN
      /\ g.zustand \in {"Betriebszustand", "Fehlerbehandlung", "EStop"}
      /\ g.bz \in {"AufWSWarten", "Sortierung"} /\ g.lsa \in LSAZustand /\ g.lse \in LSEZustand
  BY DEF Maschine
<1>2. /\ g.d.festo \in Anlagen /\ g.d.anzahlWS \in Int
      /\ g.d.fehler \in [art : Fehlerart, ort : FehlerOrt]
  BY <1>1 DEF Daten
<1>3. g.d.fehler.ort \in FehlerOrt
  BY <1>2
<1>4. g.aus \in Seq(Puls)
  BY <1>1, GesendetIstPuls
<1>5. \A b : An(b) \in Schalter
  BY DEF An, Schalter
<1>6. \A v, s, ein, aus : Nach(v, s, ein, aus) \in Schalter /\ Steht(v, s) \in Schalter
  BY <1>5 DEF Nach, Steht
<1>7. {s \in Wichtig : Hat(g.aus, s)} \in SUBSET Wichtig
  OBVIOUS
<1>8. Kern(e, g) \in Kerne
  BY <1>1, <1>2, <1>3, <1>5, <1>6, <1>7 DEF Kern, Kerne
<1> QED
  BY <1>8 DEF Ist

\* What Kern looks at.
GleicherKern(g, h) ==
  /\ h.d.festo = g.d.festo /\ h.zustand = g.zustand /\ h.bz = g.bz /\ h.lsa = g.lsa
  /\ h.lse = g.lse /\ h.exit = g.exit /\ h.d.fehler = g.d.fehler
  /\ h.d.anzahlWS = g.d.anzahlWS
  /\ h.d.enteredWartenAufErlaubnisVonF2 = g.d.enteredWartenAufErlaubnisVonF2
  /\ h.d.FehlerVerlorenBeiLAS2 = g.d.FehlerVerlorenBeiLAS2
  /\ h.d.f2_bereit = g.d.f2_bereit /\ h.d.festo1Frei = g.d.festo1Frei
  /\ h.d.festo2Frei = g.d.festo2Frei
  /\ h.aus = g.aus

LEMMA IstGleich ==
  ASSUME NEW e, NEW g, NEW h, NEW K, Ist(e, g, K), h \in Maschine, GleicherKern(g, h)
  PROVE  Ist(e, h, K)
  BY DEF Ist, Kern, GleicherKern

LEMMA IstTyp ==
  ASSUME NEW e, NEW g, NEW K, Ist(e, g, K)
  PROVE  /\ e \in Vorher /\ g \in Maschine /\ K \in Kerne /\ Folgt(g, g)
         /\ g.d \in Daten /\ g.aus \in Seq(Gesendet)
         /\ g.d.festo = K.a /\ g.zustand = K.zu /\ g.bz = K.bz /\ g.lsa = K.lsa /\ g.lse = K.lse
         /\ g.d.anzahlWS = K.n
         /\ (g.exit <=> K.exit = "an")
         /\ (g.d.enteredWartenAufErlaubnisVonF2 <=> K.wart = "an")
         /\ (g.d.FehlerVerlorenBeiLAS2 <=> K.verl = "an") /\ (g.d.f2_bereit <=> K.f2b = "an")
         /\ (g.d.festo1Frei <=> K.f1 = "an") /\ (g.d.festo2Frei <=> K.f2 = "an")
<1>1. g \in Maschine /\ Kern(e, g) = K /\ e \in Vorher /\ K \in Kerne
  BY DEF Ist
<1>2. g.d \in Daten /\ g.aus \in Seq(Gesendet)
  BY <1>1 DEF Maschine
<1>3. Folgt(g, g)
  BY <1>1, FolgtSelbst
<1> QED
  BY <1>1, <1>2, <1>3 DEF Kern, An

\* Field by field.
Entspricht(e, h, L) ==
  /\ L.a = h.d.festo /\ L.zu = h.zustand /\ L.bz = h.bz /\ L.lsa = h.lsa /\ L.lse = h.lse
  /\ L.exit = An(h.exit) /\ L.ort = h.d.fehler.ort /\ L.n = h.d.anzahlWS
  /\ L.wart = An(h.d.enteredWartenAufErlaubnisVonF2)
  /\ L.verl = An(h.d.FehlerVerlorenBeiLAS2)
  /\ L.f2b = An(h.d.f2_bereit) /\ L.f1 = An(h.d.festo1Frei) /\ L.f2 = An(h.d.festo2Frei)
  /\ L.steht = Steht(e.steht, h.aus)
  /\ L.q1 = Nach(e.q1, h.aus, "CMD_LED_Q1_AN", "CMD_LED_Q1_AUS")
  /\ L.bereit = Nach(e.bereit, h.aus, "S_FESTO2_BEREIT", "S_FESTO2_NBEREIT")
  /\ L.frei = Nach(e.frei, h.aus, Frei(h.d.festo), NichtFrei(h.d.festo))
  /\ L.sig = {s \in Wichtig : Hat(h.aus, s)}

LEMMA IstEntspricht ==
  ASSUME NEW e \in Vorher, NEW h \in Maschine, NEW L \in Kerne
  PROVE  Ist(e, h, L) <=> Entspricht(e, h, L)
<1>1. ASSUME Ist(e, h, L) PROVE Entspricht(e, h, L)
  BY <1>1 DEF Ist, Kern, Entspricht
<1>2. ASSUME Entspricht(e, h, L) PROVE L = Kern(e, h)
  <2>1. L = [a |-> L.a, zu |-> L.zu, bz |-> L.bz, lsa |-> L.lsa, lse |-> L.lse,
             exit |-> L.exit, ort |-> L.ort, n |-> L.n, wart |-> L.wart, verl |-> L.verl,
             f2b |-> L.f2b, f1 |-> L.f1, f2 |-> L.f2, steht |-> L.steht, q1 |-> L.q1,
             bereit |-> L.bereit, frei |-> L.frei, sig |-> L.sig]
    BY DEF Kerne
  <2> QED
    BY <2>1, <1>2 DEF Entspricht, Kern
<1> QED
  BY <1>1, <1>2 DEF Ist

LEMMA IstFelder ==
  ASSUME NEW e, NEW g, NEW K, Ist(e, g, K)
  PROVE  /\ \A z \in LSAZustand : Ist(e, [g EXCEPT !.lsa = z], [K EXCEPT !.lsa = z])
         /\ \A z \in LSEZustand : Ist(e, [g EXCEPT !.lse = z], [K EXCEPT !.lse = z])
         /\ \A z \in {"AufWSWarten", "Sortierung"} :
              Ist(e, [g EXCEPT !.bz = z], [K EXCEPT !.bz = z])
         /\ \A z \in {"Betriebszustand", "Fehlerbehandlung", "EStop"} :
              Ist(e, [g EXCEPT !.zustand = z], [K EXCEPT !.zu = z])
         /\ \A b \in BOOLEAN : Ist(e, [g EXCEPT !.exit = b], [K EXCEPT !.exit = An(b)])
<1>1. g \in Maschine /\ Entspricht(e, g, K) /\ e \in Vorher /\ K \in Kerne
  BY IstEntspricht DEF Ist
<1>2. \A b : An(b) \in Schalter
  BY DEF An, Schalter
<1>3. ASSUME NEW h \in Maschine, NEW L \in Kerne, Entspricht(e, h, L) PROVE Ist(e, h, L)
  BY <1>1, <1>3, IstEntspricht
<1>4. ASSUME NEW z \in LSAZustand PROVE Ist(e, [g EXCEPT !.lsa = z], [K EXCEPT !.lsa = z])
  <2>1. [g EXCEPT !.lsa = z] \in Maschine /\ [K EXCEPT !.lsa = z] \in Kerne
    BY <1>1 DEF Maschine, Kerne
  <2>2. Entspricht(e, [g EXCEPT !.lsa = z], [K EXCEPT !.lsa = z])
    BY <1>1 DEF Entspricht, Maschine, Kerne
  <2> QED
    BY <2>1, <2>2, <1>3
<1>5. ASSUME NEW z \in LSEZustand PROVE Ist(e, [g EXCEPT !.lse = z], [K EXCEPT !.lse = z])
  <2>1. [g EXCEPT !.lse = z] \in Maschine /\ [K EXCEPT !.lse = z] \in Kerne
    BY <1>1 DEF Maschine, Kerne
  <2>2. Entspricht(e, [g EXCEPT !.lse = z], [K EXCEPT !.lse = z])
    BY <1>1 DEF Entspricht, Maschine, Kerne
  <2> QED
    BY <2>1, <2>2, <1>3
<1>6. ASSUME NEW z \in {"AufWSWarten", "Sortierung"}
      PROVE  Ist(e, [g EXCEPT !.bz = z], [K EXCEPT !.bz = z])
  <2>1. [g EXCEPT !.bz = z] \in Maschine /\ [K EXCEPT !.bz = z] \in Kerne
    BY <1>1 DEF Maschine, Kerne
  <2>2. Entspricht(e, [g EXCEPT !.bz = z], [K EXCEPT !.bz = z])
    BY <1>1 DEF Entspricht, Maschine, Kerne
  <2> QED
    BY <2>1, <2>2, <1>3
<1>7. ASSUME NEW z \in {"Betriebszustand", "Fehlerbehandlung", "EStop"}
      PROVE  Ist(e, [g EXCEPT !.zustand = z], [K EXCEPT !.zu = z])
  <2>1. [g EXCEPT !.zustand = z] \in Maschine /\ [K EXCEPT !.zu = z] \in Kerne
    BY <1>1 DEF Maschine, Kerne
  <2>2. Entspricht(e, [g EXCEPT !.zustand = z], [K EXCEPT !.zu = z])
    BY <1>1 DEF Entspricht, Maschine, Kerne
  <2> QED
    BY <2>1, <2>2, <1>3
<1>8. ASSUME NEW b \in BOOLEAN PROVE Ist(e, [g EXCEPT !.exit = b], [K EXCEPT !.exit = An(b)])
  <2>1. [g EXCEPT !.exit = b] \in Maschine /\ [K EXCEPT !.exit = An(b)] \in Kerne
    BY <1>1, <1>2 DEF Maschine, Kerne
  <2>2. Entspricht(e, [g EXCEPT !.exit = b], [K EXCEPT !.exit = An(b)])
    BY <1>1 DEF Entspricht, Maschine, Kerne
  <2> QED
    BY <2>1, <2>2, <1>3
<1> QED
  BY <1>4, <1>5, <1>6, <1>7, <1>8


LEMMA IstDaten ==
  ASSUME NEW e, NEW g, NEW K, Ist(e, g, K)
  PROVE  /\ \A b \in BOOLEAN :
              /\ Ist(e, [g EXCEPT !.d.enteredWartenAufErlaubnisVonF2 = b], [K EXCEPT !.wart = An(b)])
              /\ Ist(e, [g EXCEPT !.d.FehlerVerlorenBeiLAS2 = b], [K EXCEPT !.verl = An(b)])
              /\ Ist(e, [g EXCEPT !.d.f2_bereit = b], [K EXCEPT !.f2b = An(b)])
              /\ Ist(e, [g EXCEPT !.d.festo1Frei = b], [K EXCEPT !.f1 = An(b)])
              /\ Ist(e, [g EXCEPT !.d.festo2Frei = b], [K EXCEPT !.f2 = An(b)])
         /\ \A z \in Int : Ist(e, [g EXCEPT !.d.anzahlWS = z], [K EXCEPT !.n = z])
         /\ \A art \in Fehlerart, ort \in FehlerOrt :
              Ist(e, [g EXCEPT !.d.fehler = [art |-> art, ort |-> ort]], [K EXCEPT !.ort = ort])
<1>1. g \in Maschine /\ Entspricht(e, g, K) /\ e \in Vorher /\ K \in Kerne /\ g.d \in Daten
  BY IstEntspricht DEF Ist, Maschine
<1>2. \A b : An(b) \in Schalter
  BY DEF An, Schalter
<1>3. ASSUME NEW h \in Maschine, NEW L \in Kerne, Entspricht(e, h, L) PROVE Ist(e, h, L)
  BY <1>1, <1>3, IstEntspricht
<1>4. ASSUME NEW b \in BOOLEAN
      PROVE  Ist(e, [g EXCEPT !.d.enteredWartenAufErlaubnisVonF2 = b], [K EXCEPT !.wart = An(b)])
  <2>1. [g EXCEPT !.d.enteredWartenAufErlaubnisVonF2 = b] \in Maschine /\ [K EXCEPT !.wart = An(b)] \in Kerne
    BY <1>1, <1>2 DEF Maschine, Daten, Kerne
  <2>2. Entspricht(e, [g EXCEPT !.d.enteredWartenAufErlaubnisVonF2 = b], [K EXCEPT !.wart = An(b)])
    BY <1>1 DEF Entspricht, Maschine, Daten, Kerne
  <2> QED
    BY <2>1, <2>2, <1>3
<1>5. ASSUME NEW b \in BOOLEAN
      PROVE  Ist(e, [g EXCEPT !.d.FehlerVerlorenBeiLAS2 = b], [K EXCEPT !.verl = An(b)])
  <2>1. [g EXCEPT !.d.FehlerVerlorenBeiLAS2 = b] \in Maschine /\ [K EXCEPT !.verl = An(b)] \in Kerne
    BY <1>1, <1>2 DEF Maschine, Daten, Kerne
  <2>2. Entspricht(e, [g EXCEPT !.d.FehlerVerlorenBeiLAS2 = b], [K EXCEPT !.verl = An(b)])
    BY <1>1 DEF Entspricht, Maschine, Daten, Kerne
  <2> QED
    BY <2>1, <2>2, <1>3
<1>6. ASSUME NEW b \in BOOLEAN
      PROVE  Ist(e, [g EXCEPT !.d.f2_bereit = b], [K EXCEPT !.f2b = An(b)])
  <2>1. [g EXCEPT !.d.f2_bereit = b] \in Maschine /\ [K EXCEPT !.f2b = An(b)] \in Kerne
    BY <1>1, <1>2 DEF Maschine, Daten, Kerne
  <2>2. Entspricht(e, [g EXCEPT !.d.f2_bereit = b], [K EXCEPT !.f2b = An(b)])
    BY <1>1 DEF Entspricht, Maschine, Daten, Kerne
  <2> QED
    BY <2>1, <2>2, <1>3
<1>7. ASSUME NEW b \in BOOLEAN
      PROVE  Ist(e, [g EXCEPT !.d.festo1Frei = b], [K EXCEPT !.f1 = An(b)])
  <2>1. [g EXCEPT !.d.festo1Frei = b] \in Maschine /\ [K EXCEPT !.f1 = An(b)] \in Kerne
    BY <1>1, <1>2 DEF Maschine, Daten, Kerne
  <2>2. Entspricht(e, [g EXCEPT !.d.festo1Frei = b], [K EXCEPT !.f1 = An(b)])
    BY <1>1 DEF Entspricht, Maschine, Daten, Kerne
  <2> QED
    BY <2>1, <2>2, <1>3
<1>8. ASSUME NEW b \in BOOLEAN
      PROVE  Ist(e, [g EXCEPT !.d.festo2Frei = b], [K EXCEPT !.f2 = An(b)])
  <2>1. [g EXCEPT !.d.festo2Frei = b] \in Maschine /\ [K EXCEPT !.f2 = An(b)] \in Kerne
    BY <1>1, <1>2 DEF Maschine, Daten, Kerne
  <2>2. Entspricht(e, [g EXCEPT !.d.festo2Frei = b], [K EXCEPT !.f2 = An(b)])
    BY <1>1 DEF Entspricht, Maschine, Daten, Kerne
  <2> QED
    BY <2>1, <2>2, <1>3
<1>9. ASSUME NEW z \in Int PROVE Ist(e, [g EXCEPT !.d.anzahlWS = z], [K EXCEPT !.n = z])
  <2>1. [g EXCEPT !.d.anzahlWS = z] \in Maschine /\ [K EXCEPT !.n = z] \in Kerne
    BY <1>1 DEF Maschine, Daten, Kerne
  <2>2. Entspricht(e, [g EXCEPT !.d.anzahlWS = z], [K EXCEPT !.n = z])
    BY <1>1 DEF Entspricht, Maschine, Daten, Kerne
  <2> QED
    BY <2>1, <2>2, <1>3
<1>10. ASSUME NEW art \in Fehlerart, NEW ort \in FehlerOrt
      PROVE  Ist(e, [g EXCEPT !.d.fehler = [art |-> art, ort |-> ort]], [K EXCEPT !.ort = ort])
  <2> DEFINE f == [art |-> art, ort |-> ort]
  <2>1. f \in [art : Fehlerart, ort : FehlerOrt] /\ f.ort = ort
    OBVIOUS
  <2> HIDE DEF f
  <2>2. [g EXCEPT !.d.fehler = f] \in Maschine /\ [K EXCEPT !.ort = ort] \in Kerne
    BY <1>1, <2>1 DEF Maschine, Daten, Kerne
  <2>3. Entspricht(e, [g EXCEPT !.d.fehler = f], [K EXCEPT !.ort = ort])
    BY <1>1, <2>1 DEF Entspricht, Maschine, Daten, Kerne
  <2>4. Ist(e, [g EXCEPT !.d.fehler = f], [K EXCEPT !.ort = ort])
    BY <2>2, <2>3, <1>3
  <2> QED
    BY <2>4 DEF f
<1> QED
  BY <1>4, <1>5, <1>6, <1>7, <1>8, <1>9, <1>10

LEMMA KSendeTyp ==
  ASSUME NEW K \in Kerne, NEW s
  PROVE  KSende(K, s) \in Kerne
<1> DEFINE steht == IF s = "CMD_MTR_STOP" THEN "an"
                    ELSE IF s \in {"CMD_MTR_RECHTS_L", "CMD_MTR_RECHTS_S"} THEN "aus" ELSE K.steht
           q1 == IF s = "CMD_LED_Q1_AN" THEN "an" ELSE IF s = "CMD_LED_Q1_AUS" THEN "aus" ELSE K.q1
           bereit == IF s = "S_FESTO2_BEREIT" THEN "an"
                     ELSE IF s = "S_FESTO2_NBEREIT" THEN "aus" ELSE K.bereit
           frei == IF s = Frei(K.a) THEN "an" ELSE IF s = NichtFrei(K.a) THEN "aus" ELSE K.frei
           sig == K.sig \cup ({s} \cap Wichtig)
<1>1. /\ K.steht \in Schalter /\ K.q1 \in Schalter /\ K.bereit \in Schalter /\ K.frei \in Schalter
      /\ K.sig \in SUBSET Wichtig
  BY DEF Kerne
<1>2. steht \in Schalter /\ q1 \in Schalter /\ bereit \in Schalter /\ frei \in Schalter
  BY <1>1 DEF Schalter
<1>3. sig \in SUBSET Wichtig
  BY <1>1
<1>4. KSende(K, s) = [K EXCEPT !.steht = steht, !.q1 = q1, !.bereit = bereit, !.frei = frei,
                               !.sig = sig]
  BY DEF KSende
<1> HIDE DEF steht, q1, bereit, frei, sig
<1> QED
  BY <1>2, <1>3, <1>4, ZenonT(60) DEF Kerne

LEMMA IstSendenMit ==
  ASSUME NEW e, NEW g, NEW K, Ist(e, g, K), NEW sig, NEW wert,
         [sig |-> sig, wert |-> wert] \in Gesendet
  PROVE  Ist(e, sendenMit(g, sig, wert), KSende(K, sig))
<1> DEFINE m == [sig |-> sig, wert |-> wert]
           h == [g EXCEPT !.aus = Append(g.aus, m)]
<1>1. /\ g \in Maschine /\ Entspricht(e, g, K) /\ e \in Vorher /\ K \in Kerne
      /\ g.aus \in Seq(Gesendet) /\ g.d \in Daten
  BY IstEntspricht DEF Ist, Maschine
<1>2. m \in Gesendet /\ m \in Puls /\ m.sig = sig /\ g.aus \in Seq(Puls)
  BY <1>1, GesendetIstPuls DEF Gesendet
<1>3. Append(g.aus, m) \in Seq(Gesendet)
  BY <1>1, <1>2
<1> HIDE DEF m
<1>4. h \in Maschine /\ sendenMit(g, sig, wert) = h
  BY <1>1, <1>3 DEF Maschine, sendenMit, m
<1>5. g.d.festo \in Anlagen /\ e.steht \in Schalter /\ e.q1 \in Schalter /\ e.bereit \in Schalter
      /\ e.frei \in Schalter
  BY <1>1 DEF Daten, Vorher
<1>6. /\ h.aus = Append(g.aus, m) /\ h.d = g.d /\ h.exit = g.exit /\ h.zustand = g.zustand
      /\ h.bz = g.bz /\ h.lsa = g.lsa /\ h.lse = g.lse
  BY <1>1 DEF Maschine
<1> HIDE DEF h
<1>7. Steht(e.steht, h.aus)
        = IF sig = "CMD_MTR_STOP" THEN "an"
          ELSE IF sig \in {"CMD_MTR_RECHTS_L", "CMD_MTR_RECHTS_S"} THEN "aus"
          ELSE Steht(e.steht, g.aus)
  BY <1>2, <1>5, <1>6, StehtSenden
<1>8. Nach(e.q1, h.aus, "CMD_LED_Q1_AN", "CMD_LED_Q1_AUS")
        = IF sig = "CMD_LED_Q1_AN" THEN "an" ELSE IF sig = "CMD_LED_Q1_AUS" THEN "aus"
          ELSE Nach(e.q1, g.aus, "CMD_LED_Q1_AN", "CMD_LED_Q1_AUS")
  BY <1>2, <1>5, <1>6, NachSenden
<1>9. Nach(e.bereit, h.aus, "S_FESTO2_BEREIT", "S_FESTO2_NBEREIT")
        = IF sig = "S_FESTO2_BEREIT" THEN "an" ELSE IF sig = "S_FESTO2_NBEREIT" THEN "aus"
          ELSE Nach(e.bereit, g.aus, "S_FESTO2_BEREIT", "S_FESTO2_NBEREIT")
  BY <1>2, <1>5, <1>6, NachSenden
<1>10. Nach(e.frei, h.aus, Frei(h.d.festo), NichtFrei(h.d.festo))
        = IF sig = Frei(g.d.festo) THEN "an" ELSE IF sig = NichtFrei(g.d.festo) THEN "aus"
          ELSE Nach(e.frei, g.aus, Frei(g.d.festo), NichtFrei(g.d.festo))
  <2>1. Frei(g.d.festo) # NichtFrei(g.d.festo)
    BY <1>5, FreiTyp
  <2> QED
    BY <1>2, <1>5, <1>6, <2>1, NachSenden
<1>11. {s \in Wichtig : Hat(h.aus, s)} = {s \in Wichtig : Hat(g.aus, s)} \cup ({sig} \cap Wichtig)
  BY <1>2, <1>6, HatSenden
<1>12. KSende(K, sig) \in Kerne
  BY <1>1, KSendeTyp
<1>13. Entspricht(e, h, KSende(K, sig))
  <2> DEFINE L == KSende(K, sig)
  <2>1. /\ L.a = K.a /\ L.zu = K.zu /\ L.bz = K.bz /\ L.lsa = K.lsa /\ L.lse = K.lse
        /\ L.exit = K.exit /\ L.ort = K.ort /\ L.n = K.n /\ L.wart = K.wart /\ L.verl = K.verl
        /\ L.f2b = K.f2b /\ L.f1 = K.f1 /\ L.f2 = K.f2
    BY <1>1 DEF KSende, Kerne
  <2>2. /\ L.steht = IF sig = "CMD_MTR_STOP" THEN "an"
                     ELSE IF sig \in {"CMD_MTR_RECHTS_L", "CMD_MTR_RECHTS_S"} THEN "aus"
                     ELSE K.steht
        /\ L.q1 = IF sig = "CMD_LED_Q1_AN" THEN "an"
                  ELSE IF sig = "CMD_LED_Q1_AUS" THEN "aus" ELSE K.q1
        /\ L.bereit = IF sig = "S_FESTO2_BEREIT" THEN "an"
                      ELSE IF sig = "S_FESTO2_NBEREIT" THEN "aus" ELSE K.bereit
        /\ L.frei = IF sig = Frei(K.a) THEN "an" ELSE IF sig = NichtFrei(K.a) THEN "aus" ELSE K.frei
        /\ L.sig = K.sig \cup ({sig} \cap Wichtig)
    BY <1>1 DEF KSende, Kerne
  <2> HIDE DEF L
  <2>3. Entspricht(e, h, L)
    BY <1>1, <1>6, <1>7, <1>8, <1>9, <1>10, <1>11, <2>1, <2>2 DEF Entspricht
  <2> QED
    BY <2>3 DEF L
<1> QED
  BY <1>1, <1>4, <1>12, <1>13, IstEntspricht

LEMMA IstSenden ==
  ASSUME NEW e, NEW g, NEW K, Ist(e, g, K),
         NEW sig \in Leise \cup {"CMD_LED_AMP_GLB_B", "CMD_LED_AMP_GLB_AUS"}
  PROVE  Ist(e, senden(g, sig), KSende(K, sig))
<1>1. sig \in Signale /\ sig \notin RutscheSignale /\ sig # "S_UEBERGABE_WS"
  <2>1. CASE sig \in Leise
    BY <2>1 DEF Leise
  <2>2. CASE sig \in {"CMD_LED_AMP_GLB_B", "CMD_LED_AMP_GLB_AUS"}
    BY <2>2 DEF Signale, BefehlSignale, RutscheSignale
  <2> QED
    BY <2>1, <2>2
<1>2. [sig |-> sig, wert |-> "-"] \in Gesendet
  BY <1>1 DEF Gesendet, Puls
<1> QED
  BY <1>2, IstSendenMit DEF senden

-----------------------------------------------------------------------------
(***************************************************************************)
(* What leaves the core as it is.                                          *)
(***************************************************************************)
Still(g, h) == h \in Maschine /\ GleicherKern(g, h)

LEMMA StillIst ==
  ASSUME NEW e, NEW g, NEW h, NEW K, Ist(e, g, K), Still(g, h)
  PROVE  Ist(e, h, K)
  BY IstGleich DEF Still

LEMMA StillSelbst ==
  ASSUME NEW g \in Maschine
  PROVE  Still(g, g) /\ Folgt(g, g)
  BY FolgtSelbst DEF Still, GleicherKern

LEMMA StillWeiter ==
  ASSUME NEW f, NEW g, NEW h, Still(f, g), Still(g, h)
  PROVE  Still(f, h)
  BY DEF Still, GleicherKern

LEMMA StilleFelder ==
  ASSUME NEW g \in Maschine, NEW x
  PROVE  /\ GleicherKern(g, [g EXCEPT !.lsh = x]) /\ GleicherKern(g, [g EXCEPT !.lsw = x])
         /\ GleicherKern(g, [g EXCEPT !.warn = x])
         /\ GleicherKern(g, [g EXCEPT !.d.timer = x])
         /\ GleicherKern(g, [g EXCEPT !.d.order_index = x])
         /\ GleicherKern(g, [g EXCEPT !.d.werkstueckListe = x])
         /\ GleicherKern(g, [g EXCEPT !.d.erwarteteTypenQueue = x])
         /\ GleicherKern(g, [g EXCEPT !.d.f2_voll = x])
         /\ GleicherKern(g, [g EXCEPT !.d.rutsche_voll = x])
         /\ GleicherKern(g, [g EXCEPT !.d.rutsche2_voll = x])
         /\ GleicherKern(g, [g EXCEPT !.d.motorSchnell = x])
         /\ GleicherKern(g, [g EXCEPT !.d.enteredHoheMessen = x])
         /\ GleicherKern(g, [g EXCEPT !.d.enteredWartenBisWSEntfernt = x])
         /\ GleicherKern(g, [g EXCEPT !.d.enteredAussortieren = x])
<1>1. g.d \in Daten
  BY DEF Maschine
<1>2. /\ GleicherKern(g, [g EXCEPT !.lsh = x]) /\ GleicherKern(g, [g EXCEPT !.lsw = x])
      /\ GleicherKern(g, [g EXCEPT !.warn = x])
  BY DEF GleicherKern, Maschine
<1>3. /\ GleicherKern(g, [g EXCEPT !.d.timer = x])
      /\ GleicherKern(g, [g EXCEPT !.d.order_index = x])
      /\ GleicherKern(g, [g EXCEPT !.d.werkstueckListe = x])
      /\ GleicherKern(g, [g EXCEPT !.d.erwarteteTypenQueue = x])
  BY <1>1 DEF GleicherKern, Maschine, Daten
<1>4. /\ GleicherKern(g, [g EXCEPT !.d.f2_voll = x])
      /\ GleicherKern(g, [g EXCEPT !.d.rutsche_voll = x])
      /\ GleicherKern(g, [g EXCEPT !.d.rutsche2_voll = x])
      /\ GleicherKern(g, [g EXCEPT !.d.motorSchnell = x])
  BY <1>1 DEF GleicherKern, Maschine, Daten
<1>5. /\ GleicherKern(g, [g EXCEPT !.d.enteredHoheMessen = x])
      /\ GleicherKern(g, [g EXCEPT !.d.enteredWartenBisWSEntfernt = x])
      /\ GleicherKern(g, [g EXCEPT !.d.enteredAussortieren = x])
  BY <1>1 DEF GleicherKern, Maschine, Daten
<1> QED
  BY <1>2, <1>3, <1>4, <1>5

LEMMA StilleMerker ==
  ASSUME NEW g \in Maschine, NEW b \in BOOLEAN
  PROVE  /\ Still(g, [g EXCEPT !.d.f2_voll = b]) /\ Still(g, [g EXCEPT !.d.rutsche_voll = b])
         /\ Still(g, [g EXCEPT !.d.rutsche2_voll = b]) /\ Still(g, [g EXCEPT !.d.motorSchnell = b])
         /\ Still(g, [g EXCEPT !.d.enteredHoheMessen = b])
         /\ Still(g, [g EXCEPT !.d.enteredWartenBisWSEntfernt = b])
         /\ Still(g, [g EXCEPT !.d.enteredAussortieren = b])
<1>1. [g EXCEPT !.d.rutsche_voll = b] \in Maschine
  BY DEF Maschine, Daten
<1> QED
  BY <1>1, StillSelbst, MerkerGehen, StilleFelder DEF Still, Folgt

LEMMA StilleRegionen ==
  ASSUME NEW g \in Maschine
  PROVE  /\ \A z \in LSHZustand : Still(g, [g EXCEPT !.lsh = z])
         /\ \A z \in LSWZustand : Still(g, [g EXCEPT !.lsw = z])
         /\ \A z \in WarnZustand : Still(g, [g EXCEPT !.warn = z])
<1>1. \A z \in WarnZustand : [g EXCEPT !.warn = z] \in Maschine
  BY DEF Maschine
<1> QED
  BY <1>1, StillSelbst, RegionenGehen, StilleFelder DEF Still, Folgt

LEMMA StilleTimer ==
  ASSUME NEW g \in Maschine
  PROVE  /\ \A n \in TimerNamen : Still(g, starte(g, n))
         /\ \A N \in SUBSET TimerNamen : Still(g, pausiere(g, N)) /\ Still(g, fortsetzen(g, N))
<1>1. ASSUME NEW n \in TimerNamen, NEW t PROVE GleicherKern(g, stelle(g, n, t))
  BY DEF GleicherKern, stelle, Maschine, Daten
<1>2. \A N : GleicherKern(g, pausiere(g, N)) /\ GleicherKern(g, fortsetzen(g, N))
  BY StilleFelder DEF pausiere, fortsetzen
<1> QED
  BY <1>1, <1>2, StillSelbst, StartenGeht, PausierenGeht DEF Still, Folgt, starte

LEMMA StilleListe ==
  ASSUME NEW g \in Maschine
  PROVE  /\ Still(g, registerId1(g)) /\ Still(g, registerId3(g))
         /\ \A sig : Still(g, registerId2(g, sig))
         /\ Still(g, werkstueckVerlaesstAnlage(g))
<1>1. /\ registerId1(g) \in Maschine /\ registerId3(g) \in Maschine
      /\ \A sig : registerId2(g, sig) \in Maschine
      /\ werkstueckVerlaesstAnlage(g) \in Maschine
  BY StillSelbst, RegisterId1Geht, RegisterId2Geht, RegisterId3Geht, VerlaesstGeht DEF Folgt
<1>2. GleicherKern(g, g)
  BY DEF GleicherKern
<1>3. \A w : GleicherKern(g, ErstesWird(g, w))
  BY StilleFelder DEF ErstesWird
<1>4. GleicherKern(g, registerId1(g)) /\ GleicherKern(g, werkstueckVerlaesstAnlage(g))
  BY <1>2, StilleFelder DEF registerId1, werkstueckVerlaesstAnlage
<1>5. GleicherKern(g, registerId3(g))
  BY <1>2, <1>3 DEF registerId3
<1>6. \A sig : GleicherKern(g, registerId2(g, sig))
  BY <1>2, <1>3 DEF registerId2
<1> QED
  BY <1>1, <1>4, <1>5, <1>6 DEF Still

LEMMA StilleFolge ==
  ASSUME NEW g \in Maschine
  PROVE  /\ Still(g, ueberpruefeReihenfolge(g))
         /\ Still(g, advanceOrder(g)) /\ Still(g, WerkstueckAnders(g))
         /\ \A typ \in WerkstueckTyp : Still(g, empfangeTypVonF1(g, typ))
         /\ g.d.erwarteteTypenQueue # <<>> =>
              Still(g, [g EXCEPT !.d.erwarteteTypenQueue = Tail(g.d.erwarteteTypenQueue)])
<1>1. /\ ueberpruefeReihenfolge(g) \in Maschine
      /\ advanceOrder(g) \in Maschine /\ WerkstueckAnders(g) \in Maschine
      /\ \A typ \in WerkstueckTyp : empfangeTypVonF1(g, typ) \in Maschine
      /\ g.d.erwarteteTypenQueue # <<>> =>
           [g EXCEPT !.d.erwarteteTypenQueue = Tail(g.d.erwarteteTypenQueue)] \in Maschine
  BY StillSelbst, UeberpruefeGeht, AdvanceGeht, EmpfangeGeht, QueueGeht DEF Folgt
<1>2. GleicherKern(g, g)
  BY DEF GleicherKern
<1>3. \A w : GleicherKern(g, ErstesWird(g, w))
  BY StilleFelder DEF ErstesWird
<1>4. /\ GleicherKern(g, advanceOrder(g)) /\ GleicherKern(g, WerkstueckAnders(g))
      /\ \A typ : GleicherKern(g, empfangeTypVonF1(g, typ))
      /\ GleicherKern(g, [g EXCEPT !.d.erwarteteTypenQueue = Tail(g.d.erwarteteTypenQueue)])
  BY <1>2, StilleFelder DEF advanceOrder, WerkstueckAnders, empfangeTypVonF1
<1>5. GleicherKern(g, ueberpruefeReihenfolge(g))
  <2>1. CASE ListeLeer(g)
    BY <2>1, <1>2 DEF ueberpruefeReihenfolge
  <2>2. CASE ~ListeLeer(g)
    <3> DEFINE w == [Vorn(g) EXCEPT !.aussortieren =
                       IF gFesto1(g) THEN FalschFuerF1(g) ELSE FalschFuerF2(g)]
               h == ErstesWird(g, w)
               i == IF gFesto1(g) /\ h.d.order_index >= 4 THEN 0 ELSE h.d.order_index
    <3>1. ueberpruefeReihenfolge(g) = [h EXCEPT !.d.order_index = i]
      BY <2>2 DEF ueberpruefeReihenfolge
    <3>2. GleicherKern(g, h)
      BY <1>3
    <3>3. h \in Maschine
      <4>1. (IF gFesto1(g) THEN FalschFuerF1(g) ELSE FalschFuerF2(g)) \in BOOLEAN
        BY DEF FalschFuerF1, FalschFuerF2
      <4>2. Vorn(g) \in Werkstueck
        BY <2>2, StillSelbst, VornTyp
      <4>3. w \in Werkstueck
        BY <4>1, <4>2 DEF Werkstueck
      <4> HIDE DEF w
      <4> QED
        BY <2>2, <4>3, StillSelbst, ErstesGeht DEF Folgt
    <3> HIDE DEF h, i
    <3>4. GleicherKern(h, [h EXCEPT !.d.order_index = i])
      BY <3>3, StilleFelder
    <3> QED
      BY <3>1, <3>2, <3>4 DEF GleicherKern
  <2> QED
    BY <2>1, <2>2
<1> QED
  BY <1>1, <1>4, <1>5 DEF Still

-----------------------------------------------------------------------------
(***************************************************************************)
(* What the operators of Kontextdaten do to the core.                      *)
(***************************************************************************)
Belanglos ==
  {"CMD_WCH_AUS", "CMD_DURCHLASSEN", "CMD_AUSSORTIEREN", "CMD_LED_AMP_GLB_B",
   "CMD_LED_AMP_GLB_AUS", "S_PARTNER_FEHLER", "S_WS_AN_FESTO2", "WERKSTUECK_ANDERS",
   "S_UEBERGABE_WS", "T_LSE1_LSA2", "T_LSA_LSH", "T_LSH_LSM", "T_LSW_LSE", "T_LSW_LSR",
   "T_TOLERANZZEIT_LSA", "T_TOLERANZZEIT_LSH", "T_TOLERANZZEIT_LSW", "T_TOLERANZZEIT_LSE"}

LEMMA KSendeBelanglos ==
  ASSUME NEW K \in Kerne, NEW s \in Belanglos
  PROVE  KSende(K, s) = K
<1>1. {s} \cap Wichtig = {}
  BY DEF Belanglos, Wichtig
<1>2. /\ s # "CMD_MTR_STOP" /\ s \notin {"CMD_MTR_RECHTS_L", "CMD_MTR_RECHTS_S"}
      /\ s # "CMD_LED_Q1_AN" /\ s # "CMD_LED_Q1_AUS"
      /\ s # "S_FESTO2_BEREIT" /\ s # "S_FESTO2_NBEREIT"
      /\ s # Frei(K.a) /\ s # NichtFrei(K.a)
  BY DEF Belanglos, Frei, NichtFrei
<1>3. K.sig \cup ({s} \cap Wichtig) = K.sig
  BY <1>1
<1> QED
  BY <1>2, <1>3 DEF KSende, Kerne

LEMMA IstBelanglos ==
  ASSUME NEW e, NEW g, NEW K, Ist(e, g, K)
  PROVE  /\ \A s \in Belanglos \ {"S_UEBERGABE_WS"} : Ist(e, senden(g, s), K)
         /\ \A typ \in WerkstueckTyp : Ist(e, wsTypSenden(g, typ), K)
<1>1. K \in Kerne
  BY DEF Ist
<1>2. ASSUME NEW s \in Belanglos \ {"S_UEBERGABE_WS"} PROVE Ist(e, senden(g, s), K)
  <2>1. s \in Leise \cup {"CMD_LED_AMP_GLB_B", "CMD_LED_AMP_GLB_AUS"}
    BY LeiseSignale DEF Belanglos
  <2> QED
    BY <1>1, <2>1, IstSenden, KSendeBelanglos
<1>3. ASSUME NEW typ \in WerkstueckTyp PROVE Ist(e, wsTypSenden(g, typ), K)
  <2>1. [sig |-> "S_UEBERGABE_WS", wert |-> typ] \in Gesendet
    BY DEF Gesendet, Puls, Signale, UebergabeSignale, RutscheSignale
  <2>2. Ist(e, sendenMit(g, "S_UEBERGABE_WS", typ), KSende(K, "S_UEBERGABE_WS"))
    BY <2>1, IstSendenMit
  <2>3. KSende(K, "S_UEBERGABE_WS") = K
    BY <1>1, KSendeBelanglos DEF Belanglos
  <2> QED
    BY <2>2, <2>3 DEF wsTypSenden
<1> QED
  BY <1>2, <1>3

KMehr1(K) == KSende([K EXCEPT !.n = K.n + 1], "S_FESTO1_NFREI")

KMehr2(K) ==
  LET h == KSende([K EXCEPT !.n = K.n + 1], "S_FESTO2_NFREI")
  IN  IF K.n + 1 >= 2 THEN KSende(h, "S_FESTO2_NBEREIT") ELSE h

KWeniger(K) == [K EXCEPT !.n = IF K.n - 1 < 0 THEN 0 ELSE K.n - 1]

\* c: are both plants reported as free?
KWeniger1(K, c) ==
  LET frei == KSende(KWeniger(K), "S_FESTO1_FREI")
  IN  IF K.n # 1 THEN KWeniger(K) ELSE IF c THEN KSende(frei, "CMD_FESTOS_FREI") ELSE frei

KWeniger2(K) ==
  LET bereit == IF K.n - 1 < 2 THEN KSende(KWeniger(K), "S_FESTO2_BEREIT") ELSE KWeniger(K)
      frei == KSende(bereit, "S_FESTO2_FREI")
  IN  IF K.n # 1 THEN bereit
      ELSE IF K.f1 = "an" THEN KSende(frei, "CMD_FESTOS_FREI") ELSE frei

LEMMA IstMehr ==
  ASSUME NEW e, NEW g, NEW K, Ist(e, g, K)
  PROVE  Ist(e, addWS_F1(g), KMehr1(K)) /\ Ist(e, addWS_F2(g), KMehr2(K))
<1> DEFINE h == [g EXCEPT !.d.anzahlWS = @ + 1]
           L == [K EXCEPT !.n = K.n + 1]
           p == senden(h, "S_FESTO2_NFREI")
           q == [p EXCEPT !.d.f2_voll = TRUE]
<1>1. K.n \in Int /\ g.d.anzahlWS = K.n /\ g \in Maschine /\ K \in Kerne
  BY IstTyp DEF Kerne
<1>2. h = [g EXCEPT !.d.anzahlWS = K.n + 1]
  BY <1>1
<1>3. Ist(e, h, L)
  BY <1>1, <1>2, IstDaten
<1>4. L.n = K.n + 1
  BY <1>1 DEF Kerne
<1> HIDE DEF h, L
<1>5. Ist(e, senden(h, "S_FESTO1_NFREI"), KSende(L, "S_FESTO1_NFREI"))
  BY <1>3, LeiseSignale, IstSenden
<1>6. Ist(e, p, KSende(L, "S_FESTO2_NFREI"))
  BY <1>3, LeiseSignale, IstSenden
<1>7. p.d.anzahlWS = K.n + 1
  <2>1. KSende(L, "S_FESTO2_NFREI").n = L.n
    BY <1>3 DEF Ist, KSende, Kerne
  <2> QED
    BY <2>1, <1>4, <1>6, IstTyp
<1> HIDE DEF p
<1>8. Ist(e, q, KSende(L, "S_FESTO2_NFREI"))
  BY <1>6, StilleMerker, StillIst, IstTyp
<1>9. Ist(e, senden(q, "S_FESTO2_NBEREIT"), KSende(KSende(L, "S_FESTO2_NFREI"), "S_FESTO2_NBEREIT"))
  BY <1>8, LeiseSignale, IstSenden
<1>10. Ist(e, addWS_F1(g), KMehr1(K))
  BY <1>5 DEF addWS_F1, KMehr1, h, L
<1>11. addWS_F2(g) = IF p.d.anzahlWS >= 2 THEN senden(q, "S_FESTO2_NBEREIT") ELSE p
  BY DEF addWS_F2, h, p
<1>12. KMehr2(K) = IF K.n + 1 >= 2 THEN KSende(KSende(L, "S_FESTO2_NFREI"), "S_FESTO2_NBEREIT")
                   ELSE KSende(L, "S_FESTO2_NFREI")
  BY DEF KMehr2, L
<1> HIDE DEF q
<1> QED
  BY <1>6, <1>7, <1>9, <1>10, <1>11, <1>12

LEMMA IstNichtNegativ ==
  ASSUME NEW e, NEW g, NEW K, Ist(e, g, K)
  PROVE  Ist(e, NichtNegativ(g), [K EXCEPT !.n = IF K.n < 0 THEN 0 ELSE K.n])
<1> DEFINE z == IF K.n < 0 THEN 0 ELSE K.n
<1>1. K.n \in Int /\ g.d.anzahlWS = K.n
  BY IstTyp DEF Kerne
<1>2. NichtNegativ(g) = [g EXCEPT !.d.anzahlWS = z]
  BY <1>1 DEF NichtNegativ
<1>3. z \in Int
  BY <1>1
<1> HIDE DEF z
<1>4. Ist(e, [g EXCEPT !.d.anzahlWS = z], [K EXCEPT !.n = z])
  BY <1>3, IstDaten
<1> QED
  BY <1>2, <1>4 DEF z

\* The signals do not change the count.
LEMMA KSendeFelder ==
  ASSUME NEW K \in Kerne, NEW s
  PROVE  LET L == KSende(K, s)
         IN  /\ L \in Kerne
             /\ L.a = K.a /\ L.zu = K.zu /\ L.bz = K.bz /\ L.lsa = K.lsa /\ L.lse = K.lse
             /\ L.exit = K.exit /\ L.ort = K.ort /\ L.n = K.n /\ L.wart = K.wart
             /\ L.verl = K.verl /\ L.f2b = K.f2b /\ L.f1 = K.f1 /\ L.f2 = K.f2
             /\ \A z \in Int : [L EXCEPT !.n = z] = KSende([K EXCEPT !.n = z], s)
<1>1. KSende(K, s) \in Kerne
  BY KSendeTyp
<1>2. LET L == KSende(K, s)
      IN  /\ L.a = K.a /\ L.zu = K.zu /\ L.bz = K.bz /\ L.lsa = K.lsa /\ L.lse = K.lse
          /\ L.exit = K.exit /\ L.ort = K.ort /\ L.n = K.n /\ L.wart = K.wart
          /\ L.verl = K.verl /\ L.f2b = K.f2b /\ L.f1 = K.f1 /\ L.f2 = K.f2
  BY DEF KSende, Kerne
<1>3. ASSUME NEW z \in Int
      PROVE  [KSende(K, s) EXCEPT !.n = z] = KSende([K EXCEPT !.n = z], s)
  <2> DEFINE M == [K EXCEPT !.n = z]
  <2>1. M.a = K.a /\ M.steht = K.steht /\ M.q1 = K.q1 /\ M.bereit = K.bereit /\ M.frei = K.frei
        /\ M.sig = K.sig
    BY DEF Kerne
  <2> QED
    BY <2>1, ZenonT(60) DEF KSende, Kerne
<1> QED
  BY <1>1, <1>2, <1>3

LEMMA IstWeniger ==
  ASSUME NEW e, NEW g, NEW K, Ist(e, g, K)
  PROVE  /\ \E c \in BOOLEAN : Ist(e, loescheWS_F1(g), KWeniger1(K, c))
         /\ Ist(e, loescheWS_F2(g), KWeniger2(K))
<1> DEFINE z == K.n - 1
           r == [g EXCEPT !.d.anzahlWS = @ - 1]
           R == [K EXCEPT !.n = z]
           f == senden(r, "S_FESTO1_FREI")
           F == KSende(R, "S_FESTO1_FREI")
           b == [senden(r, "S_FESTO2_BEREIT") EXCEPT !.d.f2_voll = FALSE]
           B == KSende(R, "S_FESTO2_BEREIT")
           Rest(L) == [L EXCEPT !.n = IF L.n < 0 THEN 0 ELSE L.n]
           x == IF z < 2 THEN b ELSE r
           X == IF z < 2 THEN B ELSE R
           y == senden(x, "S_FESTO2_FREI")
           Y == KSende(X, "S_FESTO2_FREI")
<1>1. /\ K.n \in Int /\ g.d.anzahlWS = K.n /\ g \in Maschine /\ K \in Kerne /\ z \in Int
  BY IstTyp DEF Kerne
<1>2. r = [g EXCEPT !.d.anzahlWS = z]
  BY <1>1
<1>3. Ist(e, r, R)
  BY <1>1, <1>2, IstDaten
<1>4. R.n = z /\ R.f1 = K.f1 /\ R \in Kerne
  BY <1>1 DEF Kerne
<1>5. r.d.anzahlWS = z /\ r.d.festo1Frei \in BOOLEAN /\ (r.d.festo1Frei <=> K.f1 = "an")
  <2> HIDE DEF r, R
  <2>1. r \in Maschine
    BY <1>3 DEF Ist
  <2>2. r.d.festo1Frei \in BOOLEAN
    BY <2>1 DEF Maschine, Daten
  <2> QED
    BY <1>3, <1>4, <2>2, IstTyp
<1>6. \A L : Rest(L) = [L EXCEPT !.n = IF L.n < 0 THEN 0 ELSE L.n]
  OBVIOUS
<1>7. \A h, L : Ist(e, h, L) => Ist(e, NichtNegativ(h), Rest(L))
  BY IstNichtNegativ
<1>8. loescheWS_F1(g) =
        NichtNegativ(
          IF z # 0 THEN r
          ELSE IF r.d.festo2Frei /\ r.d.enteredAussortieren
               THEN senden(f, "CMD_FESTOS_FREI") ELSE f)
  BY <1>5 DEF loescheWS_F1
<1>9. loescheWS_F2(g) =
        NichtNegativ(
          IF z # 0 THEN x
          ELSE IF r.d.festo1Frei THEN senden(y, "CMD_FESTOS_FREI") ELSE y)
  BY <1>5 DEF loescheWS_F2
<1> HIDE DEF r, R, Rest
<1>10. Ist(e, f, F) /\ Ist(e, senden(f, "CMD_FESTOS_FREI"), KSende(F, "CMD_FESTOS_FREI"))
  BY <1>3, LeiseSignale, IstSenden
<1>11. Ist(e, b, B)
  <2>1. Ist(e, senden(r, "S_FESTO2_BEREIT"), B)
    BY <1>3, LeiseSignale, IstSenden
  <2> QED
    BY <2>1, StilleMerker, StillIst, IstTyp
<1> HIDE DEF f, F, b, B
<1>12. Ist(e, x, X)
  BY <1>3, <1>11
<1> HIDE DEF x, X
<1>13. Ist(e, y, Y) /\ Ist(e, senden(y, "CMD_FESTOS_FREI"), KSende(Y, "CMD_FESTOS_FREI"))
  BY <1>12, LeiseSignale, IstSenden
<1> HIDE DEF y, Y
<1>14. \E c \in BOOLEAN :
         Ist(e, loescheWS_F1(g),
             Rest(IF z # 0 THEN R ELSE IF c THEN KSende(F, "CMD_FESTOS_FREI") ELSE F))
  BY <1>3, <1>7, <1>8, <1>10
<1>15. Ist(e, loescheWS_F2(g),
           Rest(IF z # 0 THEN X ELSE IF K.f1 = "an" THEN KSende(Y, "CMD_FESTOS_FREI") ELSE Y))
  BY <1>5, <1>7, <1>9, <1>12, <1>13
<1>16. Rest(R) = KWeniger(K)
  BY <1>1, <1>4, <1>6 DEF KWeniger, R, Kerne
<1>17. ASSUME NEW L \in Kerne, NEW s
       PROVE  /\ KSende(L, s) \in Kerne /\ KSende(L, s).n = L.n
              /\ Rest(KSende(L, s)) = KSende(Rest(L), s)
  <2> DEFINE u == IF L.n < 0 THEN 0 ELSE L.n
             M == KSende(L, s)
  <2>1. L.n \in Int
    BY DEF Kerne
  <2>2. u \in Int
    BY <2>1
  <2>3. M \in Kerne /\ M.n = L.n
    BY KSendeFelder
  <2>4. Rest(L) = [L EXCEPT !.n = u] /\ Rest(M) = [M EXCEPT !.n = u]
    BY <2>3, <1>6
  <2> HIDE DEF u
  <2>5. [M EXCEPT !.n = u] = KSende([L EXCEPT !.n = u], s)
    BY <2>2, KSendeFelder
  <2> QED
    BY <2>3, <2>4, <2>5
<1>18. F \in Kerne /\ F.n = z /\ Rest(F) = KSende(Rest(R), "S_FESTO1_FREI")
       /\ Rest(KSende(F, "CMD_FESTOS_FREI")) = KSende(Rest(F), "CMD_FESTOS_FREI")
  BY <1>4, <1>17 DEF F
<1>19. B \in Kerne /\ B.n = z /\ Rest(B) = KSende(Rest(R), "S_FESTO2_BEREIT")
  BY <1>4, <1>17 DEF B
<1>20. X \in Kerne /\ X.n = z
       /\ Rest(X) = IF z < 2 THEN KSende(Rest(R), "S_FESTO2_BEREIT") ELSE Rest(R)
  BY <1>4, <1>19 DEF X
<1>21. Y \in Kerne /\ Y.n = z /\ Rest(Y) = KSende(Rest(X), "S_FESTO2_FREI")
       /\ Rest(KSende(Y, "CMD_FESTOS_FREI")) = KSende(Rest(Y), "CMD_FESTOS_FREI")
  BY <1>20, <1>17 DEF Y
<1>22. z # 0 <=> K.n # 1
  BY <1>1
<1>23. \A c : Rest(IF z # 0 THEN R ELSE IF c THEN KSende(F, "CMD_FESTOS_FREI") ELSE F)
                = KWeniger1(K, c)
  BY <1>16, <1>18, <1>22 DEF KWeniger1
<1>24. Rest(IF z # 0 THEN X ELSE IF K.f1 = "an" THEN KSende(Y, "CMD_FESTOS_FREI") ELSE Y)
         = KWeniger2(K)
  BY <1>16, <1>20, <1>21, <1>22 DEF KWeniger2
<1> QED
  BY <1>14, <1>15, <1>23, <1>24

-----------------------------------------------------------------------------
(***************************************************************************)
(* What holds of the core of a plant, ...                                  *)
(***************************************************************************)
Sort(K) == K.zu = "Betriebszustand" /\ K.bz = "Sortierung"
Ruht(K) == K.zu = "Betriebszustand" /\ K.bz = "AufWSWarten"

\* Each plant is only in the states made for it.
EigeneRegionen(K) ==
  IF K.a = 1
  THEN /\ K.lsa \in {"WartenAufLSA", "BeginnSortierprozessF1", "NaechsteWSErlaubt"}
       /\ K.lse # "WartenBisWSEntfernt"
       /\ Sort(K) => K.lsa # "WartenAufLSA"
  ELSE /\ K.lsa \in {"WartenAufLSA", "BeginnSortierprozessF2", "WartenAufWSBeiLSA"}
       /\ K.lse # "WartenAufErlaubnisVonF2"

WartenBekannt(K) == K.wart = "an" <=> Sort(K) /\ K.lse = "WartenAufErlaubnisVonF2"
StehtRichtig(K) == ~Sort(K) \/ K.wart = "an" => K.steht = "an"
LampeRichtig(K) ==
  K.a = 1 /\ K.zu = "Betriebszustand"
    => (K.q1 = "an" <=> K.bz = "AufWSWarten" \/ K.lsa = "NaechsteWSErlaubt")
BereitRichtig(K) == K.a = 2 /\ K.bereit = "an" => K.n < 2
WartetZuRecht(K) == K.wart = "an" => K.f2b = "aus"
FreiRichtig(K) == K.frei = "an" => K.n = 0
RuhtLeer(K) == Ruht(K) => K.n = 0
OhneFehler(K) == K.verl = "aus" /\ K.ort # "LSA1"

Richtig(K) ==
  /\ EigeneRegionen(K) /\ WartenBekannt(K) /\ StehtRichtig(K) /\ LampeRichtig(K)
  /\ BereitRichtig(K) /\ WartetZuRecht(K) /\ FreiRichtig(K) /\ RuhtLeer(K) /\ OhneFehler(K)

\* ... and what the plant may have sent since its core was K, on the signal s.
Sensoren == {"S_LSA1_UB", "S_LSA2_UB", "S_LSH_UB", "S_LSE1_UB", "S_LSR_UB", "S_LSE2_NUB"}

NurEigene(K, L) ==
  /\ \A x \in L.sig : x \notin Sensoren
  /\ K.a = 1 => \A x \in L.sig : x \notin {"S_FESTO2_FREI", "S_FESTO2_NFREI",
                    "S_FESTO2_BEREIT", "S_FESTO2_NBEREIT", "S_FESTO1_STOPPEN"}
  /\ K.a = 2 => \A x \in L.sig : x \notin {"S_FESTO1_FREI", "S_FESTO1_NFREI"}

\* Both plants are reported as free only by a plant that has no workpiece left; ...
MeldetFrei(s, K, L) ==
  /\ "CMD_FESTOS_FREI" \in L.sig =>
       L.n = 0 /\ (K.a = 2 => K.f1 = "an" /\ s \in {"S_LSR_UB", "S_LSE2_NUB"})
  /\ "S_FESTO2_FREI" \in L.sig => L.n = 0
  /\ "S_FESTO1_STOPPEN" \in L.sig => s = "S_LSA2_UB" /\ K.f1 = "an"

\* ... a workpiece is counted only when it passes the first light barrier.
ZaehltAmEingang(s, K, L) ==
  /\ "S_FESTO1_NFREI" \in L.sig => s = "S_LSA1_UB"
  /\ s # Eingang(K.a) /\ K.n = 0 => L.n = 0

Bleiben(K, L) == L.a = K.a /\ L.f2b = K.f2b /\ L.f1 = K.f1 /\ L.f2 = K.f2

\* While it handles s a machine that had the core K comes to the core L.
Wirkung(s, K, L) ==
  /\ Bleiben(K, L) /\ NurEigene(K, L) /\ MeldetFrei(s, K, L) /\ ZaehltAmEingang(s, K, L)

Frisch(K) == K.sig = {} /\ K.exit = "aus"

\* A plant that sorts, in the middle of the handler of s.
Gut(e, s, K, h) ==
  \E L \in Kerne : Ist(e, h, L) /\ Sort(L) /\ Richtig(L) /\ Wirkung(s, K, L)

-----------------------------------------------------------------------------
(***************************************************************************)
(* What a region may do in the middle of a handler.                        *)
(***************************************************************************)
LEMMA GutSelbst ==
  ASSUME NEW e, NEW g, NEW K, NEW s, Ist(e, g, K), Sort(K), Richtig(K), Frisch(K)
  PROVE  Gut(e, s, K, g)
<1>1. K \in Kerne
  BY DEF Ist
<1>2. Wirkung(s, K, K)
  BY DEF Wirkung, Bleiben, NurEigene, MeldetFrei, ZaehltAmEingang, Frisch
<1> QED
  BY <1>1, <1>2 DEF Gut

LEMMA GutStill ==
  ASSUME NEW e, NEW g, NEW h, NEW K, NEW s, Gut(e, s, K, g), Still(g, h)
  PROVE  Gut(e, s, K, h)
  BY StillIst DEF Gut

LEMMA GutTyp ==
  ASSUME NEW e, NEW g, NEW K, NEW s, Gut(e, s, K, g)
  PROVE  /\ g \in Maschine /\ g.d \in Daten /\ g.d.festo = K.a
         /\ g.bz = "Sortierung" /\ g.zustand = "Betriebszustand"
         /\ (g.lse = "WartenAufErlaubnisVonF2" <=> g.d.enteredWartenAufErlaubnisVonF2)
         /\ ~g.d.FehlerVerlorenBeiLAS2 /\ K.a \in Anlagen
         /\ K.a = 1 => g.lsa \in {"BeginnSortierprozessF1", "NaechsteWSErlaubt"}
                       /\ g.lse # "WartenBisWSEntfernt"
         /\ K.a = 2 => g.lsa \in {"WartenAufLSA", "BeginnSortierprozessF2", "WartenAufWSBeiLSA"}
                       /\ ~g.d.enteredWartenAufErlaubnisVonF2
<1>1. PICK L \in Kerne : Ist(e, g, L) /\ Sort(L) /\ Richtig(L) /\ Bleiben(K, L)
  BY DEF Gut, Wirkung
<1>2. K.a = L.a /\ L.a \in Anlagen
  BY <1>1 DEF Kerne, Bleiben
<1> QED
  BY <1>1, <1>2, IstTyp DEF Sort, Richtig, WartenBekannt, OhneFehler, Bleiben, EigeneRegionen

LEMMA GutBelanglos ==
  ASSUME NEW e, NEW g, NEW K, NEW s, Gut(e, s, K, g)
  PROVE  /\ \A x \in Belanglos \ {"S_UEBERGABE_WS"} : Gut(e, s, K, senden(g, x))
         /\ \A typ \in WerkstueckTyp : Gut(e, s, K, wsTypSenden(g, typ))
  BY IstBelanglos DEF Gut

LEMMA GutFehler ==
  ASSUME NEW e, NEW g, NEW K, NEW s, Gut(e, s, K, g),
         NEW art \in Fehlerart, NEW ort \in FehlerOrt \ {"LSA1"}
  PROVE  Gut(e, s, K, FehlerExit(g, art, ort))
<1>1. PICK L \in Kerne : Ist(e, g, L) /\ Sort(L) /\ Richtig(L) /\ Wirkung(s, K, L)
  BY DEF Gut
<1> DEFINE h == setFehler(g, art, ort)
           M == [L EXCEPT !.ort = ort]
           N == [M EXCEPT !.exit = "an"]
<1>2. Ist(e, h, M)
  BY <1>1, IstDaten DEF setFehler
<1> HIDE DEF h
<1>3. Ist(e, [h EXCEPT !.exit = TRUE], N)
  BY <1>2, IstFelder DEF An
<1>4. FehlerExit(g, art, ort) = [h EXCEPT !.exit = TRUE]
  BY DEF FehlerExit, h
<1>5. Sort(N) /\ Richtig(N) /\ Wirkung(s, K, N)
  BY <1>1 DEF Kerne, Sort, Ruht, Richtig, EigeneRegionen, WartenBekannt, StehtRichtig, LampeRichtig,
              BereitRichtig, WartetZuRecht, FreiRichtig, RuhtLeer, OhneFehler, Wirkung, Bleiben,
              NurEigene, MeldetFrei, ZaehltAmEingang
<1>6. N \in Kerne
  BY <1>3 DEF Ist
<1> QED
  BY <1>3, <1>4, <1>5, <1>6 DEF Gut

LEMMA GutMotor ==
  ASSUME NEW e, NEW g, NEW K, NEW s, Gut(e, s, K, g), ~g.d.enteredWartenAufErlaubnisVonF2
  PROVE  Gut(e, s, K, MotorSchnell(g)) /\ Gut(e, s, K, MotorLangsam(g))
<1>1. PICK L \in Kerne : Ist(e, g, L) /\ Sort(L) /\ Richtig(L) /\ Wirkung(s, K, L)
  BY DEF Gut
<1> DEFINE M(x) == KSende(L, x)
<1>2. /\ Ist(e, MotorSchnell(g), M("CMD_MTR_RECHTS_S"))
      /\ Ist(e, MotorLangsam(g), M("CMD_MTR_RECHTS_L"))
  BY <1>1, LeiseSignale, IstSenden DEF MotorSchnell, MotorLangsam
<1>3. L.wart = "aus"
  BY <1>1, IstTyp DEF Kerne, Schalter
<1>4. ASSUME NEW x \in {"CMD_MTR_RECHTS_S", "CMD_MTR_RECHTS_L"}
      PROVE  Sort(M(x)) /\ Richtig(M(x)) /\ Wirkung(s, K, M(x))
  BY <1>1, <1>3 DEF KSende, Kerne, Sort, Ruht, Richtig, EigeneRegionen, WartenBekannt, StehtRichtig,
                    LampeRichtig, BereitRichtig, WartetZuRecht, FreiRichtig, RuhtLeer, OhneFehler,
                    Wirkung, Bleiben, NurEigene, MeldetFrei, ZaehltAmEingang, Frei, NichtFrei,
                    Wichtig, Sensoren
<1> QED
  BY <1>2, <1>4 DEF Gut, Ist

\* Region LSA of plant 2.
LEMMA GutLSA2 ==
  ASSUME NEW e, NEW g, NEW K, NEW s, Gut(e, s, K, g), K.a = 2
  PROVE  /\ Gut(e, s, K, BeginnSortierprozessF2_entry(g))
         /\ Gut(e, s, K, WartenAufWSBeiLSA_entry(g))
<1>1. PICK L \in Kerne : Ist(e, g, L) /\ Sort(L) /\ Richtig(L) /\ Wirkung(s, K, L)
  BY DEF Gut
<1> DEFINE M(z) == [L EXCEPT !.lsa = z]
<1>2. \A z \in LSAZustand : Ist(e, [g EXCEPT !.lsa = z], M(z))
  BY <1>1, IstFelder
<1>3. ASSUME NEW z \in {"BeginnSortierprozessF2", "WartenAufWSBeiLSA"}
      PROVE  Gut(e, s, K, [g EXCEPT !.lsa = z])
  <2>1. Sort(M(z)) /\ Richtig(M(z)) /\ Wirkung(s, K, M(z))
    BY <1>1 DEF Kerne, Sort, Ruht, Richtig, EigeneRegionen, WartenBekannt, StehtRichtig,
                LampeRichtig, BereitRichtig, WartetZuRecht, FreiRichtig, RuhtLeer, OhneFehler,
                Wirkung, Bleiben, NurEigene, MeldetFrei, ZaehltAmEingang
  <2>2. z \in LSAZustand
    BY DEF LSAZustand
  <2> QED
    BY <1>2, <2>1, <2>2 DEF Gut, Ist
<1>4. ~g.d.FehlerVerlorenBeiLAS2
  BY GutTyp
<1> QED
  BY <1>3, <1>4 DEF BeginnSortierprozessF2_entry, WartenAufWSBeiLSA_entry

\* Region LSWbisLSE: states in which no workpiece waits to be handed over.
LEMMA GutLSE ==
  ASSUME NEW e, NEW g, NEW K, NEW s, Gut(e, s, K, g), ~g.d.enteredWartenAufErlaubnisVonF2
  PROVE  /\ Gut(e, s, K, WartenAufLSE_entry(g)) /\ Gut(e, s, K, WartenAufWSBeiLSE_entry(g))
         /\ K.a = 2 => Gut(e, s, K, [g EXCEPT !.lse = "WartenBisWSEntfernt"])
<1>1. PICK L \in Kerne : Ist(e, g, L) /\ Sort(L) /\ Richtig(L) /\ Wirkung(s, K, L)
  BY DEF Gut
<1> DEFINE M(z) == [L EXCEPT !.lse = z]
<1>2. \A z \in LSEZustand : Ist(e, [g EXCEPT !.lse = z], M(z))
  BY <1>1, IstFelder
<1>3. L.wart = "aus" /\ L.a = K.a
  BY <1>1, IstTyp DEF Kerne, Schalter, Wirkung, Bleiben
<1>4. ASSUME NEW z \in LSEZustand, z # "WartenAufErlaubnisVonF2",
             K.a = 1 => z # "WartenBisWSEntfernt"
      PROVE  Gut(e, s, K, [g EXCEPT !.lse = z])
  <2>1. Sort(M(z)) /\ Richtig(M(z)) /\ Wirkung(s, K, M(z))
    BY <1>1, <1>3, <1>4 DEF Kerne, Sort, Ruht, Richtig, EigeneRegionen, WartenBekannt,
                StehtRichtig, LampeRichtig, BereitRichtig, WartetZuRecht, FreiRichtig, RuhtLeer,
                OhneFehler, Wirkung, Bleiben, NurEigene, MeldetFrei, ZaehltAmEingang
  <2> QED
    BY <1>2, <2>1 DEF Gut, Ist
<1> QED
  BY <1>4 DEF WartenAufLSE_entry, WartenAufWSBeiLSE_entry, LSEZustand

\* All of a core that stays when a workpiece leaves the plant.
Rest(X) == <<X.a, X.zu, X.bz, X.lsa, X.lse, X.exit, X.ort, X.wart, X.verl, X.f2b, X.f1, X.f2,
             X.steht, X.q1>>

Dazu(L, K, s) == \A x : x \in L.sig <=> x \in K.sig \/ x = s

\* The core was K before the plant reported s.
Gemeldet(L, K, s) ==
  /\ L \in Kerne /\ Rest(L) = Rest(K) /\ L.a = K.a /\ L.n = K.n /\ Dazu(L, K, s)
  /\ L.frei = IF s = Frei(K.a) THEN "an" ELSE K.frei
  /\ L.bereit = IF s = "S_FESTO2_BEREIT" THEN "an" ELSE K.bereit

LEMMA KMelden ==
  ASSUME NEW K \in Kerne,
         NEW s \in {"S_FESTO1_FREI", "S_FESTO2_FREI", "S_FESTO2_BEREIT", "CMD_FESTOS_FREI"}
  PROVE  Gemeldet(KSende(K, s), K, s)
<1> DEFINE L == KSende(K, s)
<1>1. /\ s # "CMD_MTR_STOP" /\ s \notin {"CMD_MTR_RECHTS_L", "CMD_MTR_RECHTS_S"}
      /\ s # "CMD_LED_Q1_AN" /\ s # "CMD_LED_Q1_AUS" /\ s # "S_FESTO2_NBEREIT"
      /\ s # NichtFrei(K.a)
  BY DEF NichtFrei
<1>2. {s} \cap Wichtig = {s}
  BY DEF Wichtig
<1>3. L.steht = K.steht /\ L.q1 = K.q1 /\ L.sig = K.sig \cup {s}
  BY <1>1, <1>2 DEF KSende, Kerne
<1>4. L.frei = (IF s = Frei(K.a) THEN "an" ELSE K.frei)
  BY <1>1 DEF KSende, Kerne
<1>5. L.bereit = (IF s = "S_FESTO2_BEREIT" THEN "an" ELSE K.bereit)
  BY <1>1 DEF KSende, Kerne
<1>6. /\ L \in Kerne /\ L.a = K.a /\ L.zu = K.zu /\ L.bz = K.bz /\ L.lsa = K.lsa
      /\ L.lse = K.lse /\ L.exit = K.exit /\ L.ort = K.ort /\ L.n = K.n /\ L.wart = K.wart
      /\ L.verl = K.verl /\ L.f2b = K.f2b /\ L.f1 = K.f1 /\ L.f2 = K.f2
  BY KSendeFelder
<1>7. Dazu(L, K, s)
  BY <1>3 DEF Dazu
<1> QED
  BY <1>3, <1>4, <1>5, <1>6, <1>7 DEF Rest, Gemeldet

\* The core when a workpiece has left the plant.
LEMMA KWenigerFelder ==
  ASSUME NEW K \in Kerne, NEW c \in BOOLEAN,
         NEW L, L = IF K.a = 1 THEN KWeniger1(K, c) ELSE KWeniger2(K)
  PROVE  /\ Rest(L) = Rest(K)
         /\ L.n \in Int /\ L.n = IF K.n < 1 THEN 0 ELSE K.n - 1
         /\ L.frei = IF K.n = 1 THEN "an" ELSE K.frei
         /\ K.a = 2 => L.bereit = IF K.n < 3 THEN "an" ELSE K.bereit
         /\ \A x \in L.sig :
              \/ x \in K.sig \/ (x = "S_FESTO2_BEREIT" /\ K.a = 2) \/ (x = Frei(K.a) /\ L.n = 0)
              \/ x = "CMD_FESTOS_FREI" /\ L.n = 0 /\ (K.a = 2 => K.f1 = "an")
<1> DEFINE z == IF K.n - 1 < 0 THEN 0 ELSE K.n - 1
           M == KWeniger(K)
<1>1. K.n \in Int /\ z \in Int /\ z = (IF K.n < 1 THEN 0 ELSE K.n - 1) /\ (K.n = 1 => z = 0)
  BY DEF Kerne
<1>2. M = [K EXCEPT !.n = z]
  BY DEF KWeniger
<1> HIDE DEF z
<1>3. /\ Rest(M) = Rest(K) /\ M.a = K.a /\ M.n = z /\ M.frei = K.frei
      /\ M.bereit = K.bereit /\ M.sig = K.sig /\ M \in Kerne
  BY <1>1, <1>2 DEF Kerne, Rest
<1> HIDE DEF M
<1>4. CASE K.a = 1
  <2> DEFINE F == KSende(M, "S_FESTO1_FREI")
             G == KSende(F, "CMD_FESTOS_FREI")
  <2>1. L = IF K.n # 1 THEN M ELSE IF c THEN G ELSE F
    BY <1>4 DEF KWeniger1, M
  <2>2. Gemeldet(F, M, "S_FESTO1_FREI")
    BY <1>3, KMelden
  <2> HIDE DEF F
  <2>3. Gemeldet(G, F, "CMD_FESTOS_FREI")
    BY <2>2, KMelden DEF Gemeldet
  <2> HIDE DEF G
  <2>4. CASE K.n # 1
    BY <2>1, <2>4, <1>1, <1>3, <1>4
  <2>5. CASE K.n = 1 /\ c
    <3>1. L = G /\ z = 0
      BY <2>1, <2>5, <1>1
    <3>2. Rest(L) = Rest(K) /\ L.n = 0 /\ L.frei = "an"
      BY <3>1, <2>2, <2>3, <1>3, <1>4 DEF Gemeldet, Frei
    <3>3. \A x \in L.sig : x \in K.sig \/ x = "S_FESTO1_FREI" \/ x = "CMD_FESTOS_FREI"
      BY <3>1, <2>2, <2>3, <1>3 DEF Gemeldet, Dazu
    <3>4. L.n \in Int /\ L.n = (IF K.n < 1 THEN 0 ELSE K.n - 1)
      BY <3>2, <2>5, <1>1
    <3>5. L.frei = IF K.n = 1 THEN "an" ELSE K.frei
      BY <3>2, <2>5
    <3>6. Frei(K.a) = "S_FESTO1_FREI" /\ K.a # 2
      BY <1>4 DEF Frei
    <3> QED
      BY <3>2, <3>3, <3>4, <3>5, <3>6
  <2>6. CASE K.n = 1 /\ ~c
    BY <2>1, <2>2, <2>6, <1>1, <1>3, <1>4 DEF Gemeldet, Frei, Dazu
  <2> QED
    BY <2>4, <2>5, <2>6
<1>5. CASE K.a = 2
  <2> DEFINE B == KSende(M, "S_FESTO2_BEREIT")
             F == KSende(B, "S_FESTO2_FREI")
             G == KSende(F, "CMD_FESTOS_FREI")
  <2>1. L = IF K.n - 1 < 2 THEN IF K.n # 1 THEN B ELSE IF K.f1 = "an" THEN G ELSE F ELSE M
    BY <1>1, <1>5 DEF KWeniger2, M
  <2>2. Gemeldet(B, M, "S_FESTO2_BEREIT")
    BY <1>3, KMelden
  <2> HIDE DEF B
  <2>3. Gemeldet(F, B, "S_FESTO2_FREI")
    BY <2>2, KMelden DEF Gemeldet
  <2> HIDE DEF F
  <2>4. Gemeldet(G, F, "CMD_FESTOS_FREI")
    BY <2>3, KMelden DEF Gemeldet
  <2> HIDE DEF G
  <2>5. CASE K.n - 1 >= 2
    BY <2>1, <2>5, <1>1, <1>3, <1>5
  <2>6. CASE K.n < 3 /\ K.n # 1
    BY <2>1, <2>2, <2>6, <1>1, <1>3, <1>5 DEF Gemeldet, Frei, Dazu
  <2>7. CASE K.n = 1 /\ K.f1 = "an"
    BY <2>1, <2>2, <2>3, <2>4, <2>7, <1>1, <1>3, <1>5 DEF Gemeldet, Frei, Dazu
  <2>8. CASE K.n = 1 /\ K.f1 # "an"
    BY <2>1, <2>2, <2>3, <2>8, <1>1, <1>3, <1>5 DEF Gemeldet, Frei, Dazu
  <2> QED
    BY <2>5, <2>6, <2>7, <2>8, <1>1
<1> QED
  BY <1>4, <1>5 DEF Kerne, Anlagen

\* A workpiece leaves the plant.
LEMMA GutWeniger ==
  ASSUME NEW e, NEW g, NEW K, NEW s, Gut(e, s, K, g)
  PROVE  /\ K.a = 1 => Gut(e, s, K, loescheWS_F1(g)) /\ loescheWS_F1(g).lse = g.lse
         /\ K.a = 2 /\ s \in {"S_LSR_UB", "S_LSE2_NUB"} => Gut(e, s, K, loescheWS_F2(g))
<1>1. PICK L \in Kerne : Ist(e, g, L) /\ Sort(L) /\ Richtig(L) /\ Wirkung(s, K, L)
  BY DEF Gut
<1>2. L.n \in Int
  BY DEF Kerne
<1>3. ASSUME NEW h, NEW M, Ist(e, h, M), NEW c \in BOOLEAN,
             M = IF L.a = 1 THEN KWeniger1(L, c) ELSE KWeniger2(L),
             K.a = 2 => s \in {"S_LSR_UB", "S_LSE2_NUB"}
      PROVE  Gut(e, s, K, h) /\ h.lse = g.lse
  <2>1. /\ M.a = L.a /\ M.zu = L.zu /\ M.bz = L.bz /\ M.lsa = L.lsa /\ M.lse = L.lse
        /\ M.exit = L.exit /\ M.ort = L.ort /\ M.wart = L.wart
        /\ M.verl = L.verl /\ M.f2b = L.f2b /\ M.f1 = L.f1 /\ M.f2 = L.f2
        /\ M.steht = L.steht /\ M.q1 = L.q1 /\ Rest(M) = Rest(L)
        /\ M.n \in Int /\ M.n = IF L.n < 1 THEN 0 ELSE L.n - 1
        /\ M.frei = IF L.n = 1 THEN "an" ELSE L.frei
        /\ L.a = 2 => M.bereit = IF L.n < 3 THEN "an" ELSE L.bereit
    BY <1>3, KWenigerFelder DEF Rest
  <2>2. /\ \A x \in M.sig :
             \/ x \in L.sig \/ (x = "S_FESTO2_BEREIT" /\ L.a = 2) \/ (x = Frei(L.a) /\ M.n = 0)
             \/ x = "CMD_FESTOS_FREI" /\ M.n = 0 /\ (L.a = 2 => L.f1 = "an")
    BY <1>3, KWenigerFelder
  <2>3. M \in Kerne /\ L.frei \in Schalter /\ L.bereit \in Schalter
    BY <1>3 DEF Ist, Kerne
  <2>4. Sort(M) /\ Richtig(M)
    BY <1>1, <1>2, <2>1, <2>3 DEF Sort, Ruht, Richtig, EigeneRegionen, WartenBekannt,
         StehtRichtig, LampeRichtig, BereitRichtig, WartetZuRecht, FreiRichtig, RuhtLeer,
         OhneFehler, Schalter
  <2>5. Bleiben(K, M) /\ NurEigene(K, M)
    BY <1>1, <2>1, <2>2 DEF Wirkung, Bleiben, NurEigene, Frei, Sensoren
  <2>6. L.n = 0 => M.n = 0
    BY <2>1, <1>2
  <2>7. MeldetFrei(s, K, M)
    BY <1>1, <1>3, <2>2, <2>6 DEF Wirkung, Bleiben, MeldetFrei, Frei
  <2>8. ZaehltAmEingang(s, K, M)
    BY <1>1, <2>2, <2>6 DEF Wirkung, Bleiben, ZaehltAmEingang, Frei
  <2> QED
    BY <1>1, <1>3, <2>1, <2>3, <2>4, <2>5, <2>7, <2>8, IstTyp DEF Gut, Wirkung
<1>4. ASSUME K.a = 1 PROVE Gut(e, s, K, loescheWS_F1(g)) /\ loescheWS_F1(g).lse = g.lse
  <2>1. PICK c \in BOOLEAN : Ist(e, loescheWS_F1(g), KWeniger1(L, c))
    BY <1>1, IstWeniger
  <2> DEFINE M == KWeniger1(L, c)
  <2>2. Ist(e, loescheWS_F1(g), M) /\ M = IF L.a = 1 THEN KWeniger1(L, c) ELSE KWeniger2(L)
    BY <2>1, <1>1, <1>4 DEF Wirkung, Bleiben
  <2>3. K.a # 2
    BY <1>4
  <2> HIDE DEF M
  <2> QED
    BY <2>2, <2>3, <1>3
<1>5. ASSUME K.a = 2, s \in {"S_LSR_UB", "S_LSE2_NUB"} PROVE Gut(e, s, K, loescheWS_F2(g))
  <2>1. Ist(e, loescheWS_F2(g), KWeniger2(L))
    BY <1>1, IstWeniger
  <2> DEFINE M == KWeniger2(L)
  <2>2. Ist(e, loescheWS_F2(g), M) /\ M = IF L.a = 1 THEN KWeniger1(L, TRUE) ELSE KWeniger2(L)
    BY <2>1, <1>1, <1>5 DEF Wirkung, Bleiben
  <2> HIDE DEF M
  <2>3. TRUE \in BOOLEAN
    OBVIOUS
  <2> QED
    BY <2>2, <2>3, <1>5, <1>3
<1> QED
  BY <1>4, <1>5

-----------------------------------------------------------------------------
(***************************************************************************)
(* The regions.                                                            *)
(***************************************************************************)
LEMMA GutLSH ==
  ASSUME NEW e, NEW g, NEW K, NEW s, Gut(e, s, K, g)
  PROVE  /\ Gut(e, s, K, WartenAufLSH_entry(g)) /\ Gut(e, s, K, WartenAufWSBeiLSH_entry(g))
         /\ Gut(e, s, K, WartenAufLSH_s_lsh_ub(g))
         /\ ~g.d.enteredWartenAufErlaubnisVonF2 => Gut(e, s, K, WartenAufWSBeiLSH_s_lsh_ub(g))
         /\ Gut(e, s, K, WartenAufWSBeiLSH_t_toleranzzeit_lsh(g))
         /\ Gut(e, s, K, HoeheMessen_s_lsh_nub(g))
<1>1. "neuWS" \in Fehlerart /\ "verlorenWS" \in Fehlerart /\ "LSH" \in FehlerOrt \ {"LSA1"}
  BY DEF Fehlerart, FehlerOrt
<1>2. ASSUME NEW h, Gut(e, s, K, h)
      PROVE  /\ Gut(e, s, K, WartenAufLSH_entry(h)) /\ Gut(e, s, K, WartenAufWSBeiLSH_entry(h))
             /\ Gut(e, s, K, HoeheMessen_entry(h))
             /\ Gut(e, s, K, [h EXCEPT !.d.motorSchnell = TRUE, !.d.enteredHoheMessen = FALSE])
             /\ Gut(e, s, K, starte(h, "lsw"))
  <2>1. h \in Maschine
    BY <1>2, GutTyp
  <2>2. \A z \in LSHZustand : Still(h, [h EXCEPT !.lsh = z])
    BY <2>1, StilleRegionen
  <2> DEFINE x == [h EXCEPT !.lsh = "HoeheMessen"]
             y == [x EXCEPT !.d.enteredHoheMessen = TRUE]
             z == [y EXCEPT !.d.motorSchnell = FALSE]
             v == [h EXCEPT !.d.motorSchnell = TRUE]
             w == [v EXCEPT !.d.enteredHoheMessen = FALSE]
  <2>3. Still(h, x) /\ Still(h, v)
    BY <2>1, <2>2, StilleMerker DEF LSHZustand
  <2>4. HoeheMessen_entry(h) = z
        /\ [h EXCEPT !.d.motorSchnell = TRUE, !.d.enteredHoheMessen = FALSE] = w
    BY DEF HoeheMessen_entry
  <2> HIDE DEF x, v
  <2>5. Still(x, y) /\ Still(v, w)
    BY <2>3, StilleMerker DEF Still
  <2> HIDE DEF y, w
  <2>6. Still(y, z)
    BY <2>5, StilleMerker DEF Still
  <2>7. Still(h, z) /\ Still(h, w)
    BY <2>3, <2>5, <2>6, StillWeiter
  <2>8. Still(h, starte(h, "lsw"))
    BY <2>1, StilleTimer DEF TimerNamen
  <2> HIDE DEF z
  <2>9. "WartenAufLSH" \in LSHZustand /\ "WartenAufWSBeiLSH" \in LSHZustand
    BY DEF LSHZustand
  <2> QED
    BY <1>2, <2>2, <2>4, <2>7, <2>8, <2>9, GutStill DEF WartenAufLSH_entry, WartenAufWSBeiLSH_entry
<1>3. Gut(e, s, K, WartenAufLSH_s_lsh_ub(g))
  BY <1>1, GutMotor, GutFehler DEF WartenAufLSH_s_lsh_ub
<1>4. Gut(e, s, K, WartenAufWSBeiLSH_t_toleranzzeit_lsh(g))
  BY <1>1, GutFehler DEF WartenAufWSBeiLSH_t_toleranzzeit_lsh
<1>5. ASSUME ~g.d.enteredWartenAufErlaubnisVonF2
      PROVE  Gut(e, s, K, WartenAufWSBeiLSH_s_lsh_ub(g))
  BY <1>2, <1>5, GutMotor DEF WartenAufWSBeiLSH_s_lsh_ub
<1>6. Gut(e, s, K, HoeheMessen_s_lsh_nub(g))
  <2> DEFINE h == IF g.d.enteredWartenAufErlaubnisVonF2 THEN g ELSE MotorSchnell(g)
  <2>1. Gut(e, s, K, h)
    BY GutMotor
  <2>2. HoeheMessen_s_lsh_nub(g)
          = WartenAufLSH_entry([h EXCEPT !.d.motorSchnell = TRUE, !.d.enteredHoheMessen = FALSE])
    BY DEF HoeheMessen_s_lsh_nub
  <2> HIDE DEF h
  <2> QED
    BY <1>2, <2>1, <2>2
<1> QED
  BY <1>2, <1>3, <1>4, <1>5, <1>6

LEMMA GutLSW ==
  ASSUME NEW e, NEW g, NEW K, NEW s, Gut(e, s, K, g)
  PROVE  /\ Gut(e, s, K, WartenAufLSW_entry(g)) /\ Gut(e, s, K, WartenAufWSBeiLSW_entry(g))
         /\ Gut(e, s, K, WartenAufLSW_s_lsw_ub(g)) /\ Gut(e, s, K, WartenAufWSBeiLSW_s_lsw_ub(g))
         /\ Gut(e, s, K, WartenAufWSBeiLSW_t_toleranzzeit_lsw(g))
         /\ s = "S_LSR_UB" => Gut(e, s, K, WSAussortieren_s_lsr_ub(g))
         /\ Gut(e, s, K, WSAussortieren_t_lsw_lsr(g))
<1>1. /\ {"neuWS", "verlorenWS", "rutscheVoll"} \subseteq Fehlerart
      /\ {"LSH_BIS_LSW", "LSW", "LSR"} \subseteq FehlerOrt \ {"LSA1"}
  BY DEF Fehlerart, FehlerOrt
<1>2. ASSUME NEW h, Gut(e, s, K, h)
      PROVE  /\ Gut(e, s, K, WartenAufLSW_entry(h)) /\ Gut(e, s, K, WartenAufWSBeiLSW_entry(h))
             /\ Gut(e, s, K, [h EXCEPT !.lsw = "WSAussortieren", !.d.enteredAussortieren = TRUE])
             /\ Gut(e, s, K, starte(h, "lse")) /\ Gut(e, s, K, starte(h, "lsr"))
             /\ Gut(e, s, K, ueberpruefeReihenfolge(h)) /\ Gut(e, s, K, advanceOrder(h))
             /\ Gut(e, s, K, werkstueckVerlaesstAnlage(h))
             /\ h.d.erwarteteTypenQueue # <<>> =>
                  Gut(e, s, K, [h EXCEPT !.d.erwarteteTypenQueue = Tail(h.d.erwarteteTypenQueue)])
  <2>1. h \in Maschine
    BY <1>2, GutTyp
  <2>2. \A z \in LSWZustand : Still(h, [h EXCEPT !.lsw = z])
    BY <2>1, StilleRegionen
  <2> DEFINE x == [h EXCEPT !.lsw = "WartenAufLSW"]
             y == [x EXCEPT !.d.enteredAussortieren = FALSE]
             v == [h EXCEPT !.lsw = "WSAussortieren"]
             w == [v EXCEPT !.d.enteredAussortieren = TRUE]
  <2>3. Still(h, x) /\ Still(h, v)
    BY <2>2 DEF LSWZustand
  <2>4. WartenAufLSW_entry(h) = y
        /\ [h EXCEPT !.lsw = "WSAussortieren", !.d.enteredAussortieren = TRUE] = w
    BY DEF WartenAufLSW_entry
  <2> HIDE DEF x, v
  <2>5. Still(x, y) /\ Still(v, w)
    BY <2>3, StilleMerker DEF Still
  <2> HIDE DEF y, w
  <2>6. Still(h, y) /\ Still(h, w)
    BY <2>3, <2>5, StillWeiter
  <2>7. Still(h, starte(h, "lse")) /\ Still(h, starte(h, "lsr"))
    BY <2>1, StilleTimer DEF TimerNamen
  <2>8. /\ Still(h, ueberpruefeReihenfolge(h)) /\ Still(h, advanceOrder(h))
        /\ Still(h, werkstueckVerlaesstAnlage(h))
        /\ h.d.erwarteteTypenQueue # <<>> =>
             Still(h, [h EXCEPT !.d.erwarteteTypenQueue = Tail(h.d.erwarteteTypenQueue)])
    BY <2>1, StilleFolge, StilleListe
  <2>9. "WartenAufWSBeiLSW" \in LSWZustand
    BY DEF LSWZustand
  <2> QED
    BY <1>2, <2>2, <2>4, <2>6, <2>7, <2>8, <2>9, GutStill DEF WartenAufWSBeiLSW_entry
<1>3. /\ Gut(e, s, K, WartenAufLSW_s_lsw_ub(g)) /\ Gut(e, s, K, WSAussortieren_t_lsw_lsr(g))
      /\ Gut(e, s, K, WartenAufWSBeiLSW_t_toleranzzeit_lsw(g))
  BY <1>1, GutFehler DEF WartenAufLSW_s_lsw_ub, WSAussortieren_t_lsw_lsr,
                         WartenAufWSBeiLSW_t_toleranzzeit_lsw
<1>4. ASSUME NEW h, Gut(e, s, K, h), ~ListeLeer(h) PROVE Gut(e, s, K, WSDurchlauf_entry(h))
  <2> DEFINE typ == IF Vorn(h).aussortieren /\ gFesto1(h) THEN "UNBEKANNT" ELSE Vorn(h).typ
             x == wsTypSenden(h, typ)
             unterwegs == starte(x, "lse")
             gezaehlt == IF gFesto2(h) \/ ~Vorn(h).aussortieren THEN advanceOrder(unterwegs)
                         ELSE unterwegs
             y == senden(gezaehlt, "CMD_DURCHLASSEN")
  <2>1. WSDurchlauf_entry(h) = WartenAufLSW_entry(werkstueckVerlaesstAnlage(y))
    BY DEF WSDurchlauf_entry
  <2>2. typ \in WerkstueckTyp
    <3>1. Vorn(h) \in Werkstueck
      BY <1>4, GutTyp, StillSelbst, VornTyp
    <3> QED
      BY <3>1 DEF Werkstueck, WerkstueckTyp
  <2> HIDE DEF typ
  <2>3. Gut(e, s, K, x)
    BY <1>4, <2>2, GutBelanglos
  <2> HIDE DEF x
  <2>4. Gut(e, s, K, unterwegs)
    BY <1>2, <2>3
  <2> HIDE DEF unterwegs
  <2>5. Gut(e, s, K, gezaehlt)
    BY <1>2, <2>4
  <2> HIDE DEF gezaehlt
  <2>6. Gut(e, s, K, y)
    BY <2>5, GutBelanglos DEF Belanglos
  <2> HIDE DEF y
  <2> QED
    BY <1>2, <2>1, <2>6
<1>5. ASSUME NEW h, Gut(e, s, K, h) PROVE Gut(e, s, K, WSAussortieren_entry(h))
  <2> DEFINE x == senden(h, "CMD_AUSSORTIEREN")
             y == werkstueckVerlaesstAnlage(x)
             q == y.d.erwarteteTypenQueue
             z == CASE gFesto1(h) \/ q = <<>> -> y
                    [] Head(q) # "UNBEKANNT"  -> senden(y, "WERKSTUECK_ANDERS")
                    [] OTHER -> [y EXCEPT !.d.erwarteteTypenQueue = Tail(q)]
             w == starte(z, "lsr")
  <2>1. \/ WSAussortieren_entry(h)
             = [w EXCEPT !.lsw = "WSAussortieren", !.d.enteredAussortieren = TRUE]
    BY DEF WSAussortieren_entry
  <2>2. Gut(e, s, K, x)
    BY <1>5, GutBelanglos DEF Belanglos
  <2> HIDE DEF x
  <2>3. Gut(e, s, K, y)
    BY <1>2, <2>2
  <2> HIDE DEF y
  <2>4. Gut(e, s, K, senden(y, "WERKSTUECK_ANDERS"))
    BY <2>3, GutBelanglos DEF Belanglos
  <2>5. Gut(e, s, K, z)
    BY <1>2, <2>3, <2>4
  <2> HIDE DEF z
  <2>6. Gut(e, s, K, w)
    BY <1>2, <2>5
  <2> HIDE DEF w
  <2> QED
    BY <1>2, <2>1, <2>6
<1>6. Gut(e, s, K, WartenAufWSBeiLSW_s_lsw_ub(g))
  <2> DEFINE h == ueberpruefeReihenfolge(g)
  <2>1. Gut(e, s, K, h)
    BY <1>2
  <2> HIDE DEF h
  <2>2. Gut(e, s, K, FehlerExit(h, "rutscheVoll", "LSR"))
    BY <1>1, <2>1, GutFehler
  <2>3. gLSWUBDurchlauf(h) => Gut(e, s, K, WSDurchlauf_entry(h))
    BY <1>4, <2>1 DEF gLSWUBDurchlauf
  <2>4. Gut(e, s, K, WSAussortieren_entry(h))
    BY <1>5, <2>1
  <2> QED
    BY <2>1, <2>2, <2>3, <2>4 DEF WartenAufWSBeiLSW_s_lsw_ub, h
<1>7. ASSUME s = "S_LSR_UB" PROVE Gut(e, s, K, WSAussortieren_s_lsr_ub(g))
  <2>1. g.d.festo = K.a /\ K.a \in Anlagen
    BY GutTyp DEF Daten
  <2>2. Gut(e, s, K, IF gFesto1(g) THEN loescheWS_F1(g) ELSE loescheWS_F2(g))
    BY <1>7, <2>1, GutWeniger DEF gFesto1, Anlagen
  <2> QED
    BY <1>2, <2>2 DEF WSAussortieren_s_lsr_ub
<1> QED
  BY <1>2, <1>3, <1>6, <1>7

\* The plant begins to wait for plant 2, ...
LEMMA GutWartet ==
  ASSUME NEW e, NEW g, NEW K, NEW s, Gut(e, s, K, g), K.a = 1, ~g.d.f2_bereit
  PROVE  Gut(e, s, K, WartenAufErlaubnisVonF2_entry(g))
<1>1. PICK L \in Kerne : Ist(e, g, L) /\ Sort(L) /\ Richtig(L) /\ Wirkung(s, K, L)
  BY DEF Gut
<1> DEFINE x == [g EXCEPT !.lse = "WartenAufErlaubnisVonF2"]
           X == [L EXCEPT !.lse = "WartenAufErlaubnisVonF2"]
           y == [x EXCEPT !.d.enteredWartenAufErlaubnisVonF2 = TRUE]
           Y == [X EXCEPT !.wart = "an"]
           z == senden(y, "CMD_MTR_STOP")
           Z == KSende(Y, "CMD_MTR_STOP")
<1>2. WartenAufErlaubnisVonF2_entry(g) = pausiere(z, BandTimer)
  BY DEF WartenAufErlaubnisVonF2_entry
<1>3. Ist(e, x, X)
  BY <1>1, IstFelder DEF LSEZustand
<1>4. L.f2b = "aus" /\ L.a = 1
  BY <1>1, IstTyp DEF Kerne, Schalter, Wirkung, Bleiben
<1>5. Sort(Z) /\ Richtig(Z) /\ Wirkung(s, K, Z)
  BY <1>1, <1>4 DEF KSende, Kerne, Sort, Ruht, Richtig, EigeneRegionen, WartenBekannt, StehtRichtig,
                    LampeRichtig, BereitRichtig, WartetZuRecht, FreiRichtig, RuhtLeer, OhneFehler,
                    Wirkung, Bleiben, NurEigene, MeldetFrei, ZaehltAmEingang, Frei, NichtFrei,
                    Wichtig, Sensoren
<1> HIDE DEF x, X
<1>6. Ist(e, y, Y)
  BY <1>3, IstDaten DEF An
<1> HIDE DEF y, Y
<1>7. Ist(e, z, Z)
  BY <1>6, LeiseSignale, IstSenden
<1> HIDE DEF z, Z
<1>8. Gut(e, s, K, z)
  BY <1>5, <1>7 DEF Gut, Ist
<1>9. Still(z, pausiere(z, BandTimer))
  BY <1>7, StilleTimer DEF Ist, BandTimer
<1> QED
  BY <1>2, <1>8, <1>9, GutStill

\* ... and goes on, a state in which it may not stay: the region leaves it at once.
LEMMA GutWartetNicht ==
  ASSUME NEW e, NEW g, NEW K, NEW s, Gut(e, s, K, g), g.lse = "WartenAufErlaubnisVonF2"
  PROVE  LET h == WartenAufLSE_entry(WartenAufErlaubnisVonF2_exit(g))
         IN  Gut(e, s, K, h) /\ ~h.d.enteredWartenAufErlaubnisVonF2
<1>1. PICK L \in Kerne : Ist(e, g, L) /\ Sort(L) /\ Richtig(L) /\ Wirkung(s, K, L)
  BY DEF Gut
<1> DEFINE sig == IF g.d.enteredHoheMessen THEN "CMD_MTR_RECHTS_L" ELSE "CMD_MTR_RECHTS_S"
           x == senden(g, sig)
           X == KSende(L, sig)
           y == starte(x, "lsa")
           z == [y EXCEPT !.d.enteredWartenAufErlaubnisVonF2 = FALSE]
           Z == [X EXCEPT !.wart = "aus"]
           v == fortsetzen(z, BandTimer)
           w == [v EXCEPT !.lse = "WartenAufLSE"]
           W == [Z EXCEPT !.lse = "WartenAufLSE"]
<1>2. WartenAufLSE_entry(WartenAufErlaubnisVonF2_exit(g)) = w
  BY DEF WartenAufErlaubnisVonF2_exit, WartenAufLSE_entry, MotorLangsam, MotorSchnell
<1>3. sig \in {"CMD_MTR_RECHTS_L", "CMD_MTR_RECHTS_S"}
  OBVIOUS
<1> HIDE DEF sig
<1>4. Ist(e, x, X)
  BY <1>1, <1>3, LeiseSignale, IstSenden
<1>5. L.lse = "WartenAufErlaubnisVonF2"
  BY <1>1, IstTyp
<1>6. Sort(W) /\ Richtig(W) /\ Wirkung(s, K, W) /\ W.wart = "aus"
  BY <1>1, <1>3, <1>5 DEF KSende, Kerne, Sort, Ruht, Richtig, EigeneRegionen, WartenBekannt,
       StehtRichtig, LampeRichtig, BereitRichtig, WartetZuRecht, FreiRichtig, RuhtLeer, OhneFehler,
       Wirkung, Bleiben, NurEigene, MeldetFrei, ZaehltAmEingang, Frei, NichtFrei, Wichtig, Sensoren
<1> HIDE DEF x, X
<1>7. Ist(e, y, X)
  BY <1>4, StilleTimer, StillIst DEF Ist, TimerNamen
<1> HIDE DEF y
<1>8. Ist(e, z, Z)
  BY <1>7, IstDaten DEF An
<1> HIDE DEF z, Z
<1>9. Ist(e, v, Z)
  BY <1>8, StilleTimer, StillIst DEF Ist, BandTimer
<1> HIDE DEF v
<1>10. Ist(e, w, W)
  BY <1>9, IstFelder DEF LSEZustand
<1> HIDE DEF w, W
<1> QED
  BY <1>2, <1>6, <1>10, IstTyp DEF Gut, Ist

\* Plant 2 stops the belt until the workpiece at its end has been taken off.
LEMMA GutEnde ==
  ASSUME NEW e, NEW g, NEW K, NEW s, Gut(e, s, K, g), K.a = 2
  PROVE  Gut(e, s, K, WartenBisWSEntfernt_entry(g))
<1> DEFINE x == [g EXCEPT !.lse = "WartenBisWSEntfernt"]
           h == [x EXCEPT !.d.enteredWartenBisWSEntfernt = TRUE]
           y == senden(h, "CMD_MTR_STOP")
           z == senden(y, "S_FESTO2_NBEREIT")
<1>1. WartenBisWSEntfernt_entry(g) = pausiere(z, BandTimer)
  BY DEF WartenBisWSEntfernt_entry
<1>2. Gut(e, s, K, x)
  BY GutTyp, GutLSE
<1> HIDE DEF x
<1>3. Gut(e, s, K, h)
  BY <1>2, GutTyp, GutStill, StilleMerker
<1> HIDE DEF h
<1>4. PICK L \in Kerne : Ist(e, h, L) /\ Sort(L) /\ Richtig(L) /\ Wirkung(s, K, L)
  BY <1>3 DEF Gut
<1> DEFINE Y == KSende(L, "CMD_MTR_STOP")
           Z == KSende(Y, "S_FESTO2_NBEREIT")
<1>5. L.a = 2
  BY <1>4 DEF Wirkung, Bleiben
<1>6. Sort(Y) /\ Richtig(Y) /\ Wirkung(s, K, Y) /\ Y.a = 2
  BY <1>4, <1>5 DEF KSende, Kerne, Sort, Ruht, Richtig, EigeneRegionen, WartenBekannt, StehtRichtig,
                    LampeRichtig, BereitRichtig, WartetZuRecht, FreiRichtig, RuhtLeer, OhneFehler,
                    Wirkung, Bleiben, NurEigene, MeldetFrei, ZaehltAmEingang, Frei, NichtFrei,
                    Wichtig, Sensoren
<1>7. Ist(e, y, Y)
  BY <1>4, LeiseSignale, IstSenden
<1> HIDE DEF y, Y
<1>8. Y \in Kerne
  BY <1>7 DEF Ist
<1>9. Sort(Z) /\ Richtig(Z)
  BY <1>6, <1>8 DEF KSende, Kerne, Sort, Ruht, Richtig, EigeneRegionen, WartenBekannt, StehtRichtig,
                    LampeRichtig, BereitRichtig, WartetZuRecht, FreiRichtig, RuhtLeer, OhneFehler,
                    Frei, NichtFrei
<1>10. Wirkung(s, K, Z)
  BY <1>6, <1>8 DEF KSende, Kerne, Wirkung, Bleiben, NurEigene, MeldetFrei, ZaehltAmEingang,
                    Wichtig, Sensoren
<1>11. Ist(e, z, Z)
  BY <1>7, LeiseSignale, IstSenden
<1> HIDE DEF z, Z
<1>12. Gut(e, s, K, z)
  BY <1>9, <1>10, <1>11 DEF Gut, Ist
<1>13. Still(z, pausiere(z, BandTimer))
  BY <1>11, StilleTimer DEF Ist, BandTimer
<1> QED
  BY <1>1, <1>12, <1>13, GutStill

LEMMA GutLSEHandler ==
  ASSUME NEW e, NEW g, NEW K, NEW s, Gut(e, s, K, g)
  PROVE  /\ Gut(e, s, K, WartenAufLSE_s_lse1_ub(g)) /\ Gut(e, s, K, WartenAufLSE_s_lse2_ub(g))
         /\ g.lse = "WartenAufWSBeiLSE" => Gut(e, s, K, WartenAufWSBeiLSE_s_lse1_ub(g))
         /\ Gut(e, s, K, WartenAufWSBeiLSE_s_lse2_ub(g))
         /\ Gut(e, s, K, WartenAufWSBeiLSE_t_toleranzzeit_lse(g))
         /\ g.lse = "WartenAufErlaubnisVonF2" =>
              /\ Gut(e, s, K, WartenAufErlaubnisVonF2_s_festo2_bereit(g))
              /\ ~WartenAufErlaubnisVonF2_s_festo2_bereit(g).d.enteredWartenAufErlaubnisVonF2
         /\ g.lse = "WartenBisWSEntfernt" /\ s = "S_LSE2_NUB" =>
              Gut(e, s, K, WartenBisWSEntfernt_s_lse2_nub(g))
<1>1. /\ {"neuWS", "verlorenWS"} \subseteq Fehlerart
      /\ {"LSE1", "LSE2"} \subseteq FehlerOrt \ {"LSA1"}
  BY DEF Fehlerart, FehlerOrt
<1>2. g.d.festo = K.a /\ K.a \in Anlagen /\ g \in Maschine
  BY GutTyp
<1>3. /\ Gut(e, s, K, WartenAufLSE_s_lse1_ub(g)) /\ Gut(e, s, K, WartenAufLSE_s_lse2_ub(g))
      /\ Gut(e, s, K, WartenAufWSBeiLSE_t_toleranzzeit_lse(g))
  BY <1>1, GutFehler DEF WartenAufLSE_s_lse1_ub, WartenAufLSE_s_lse2_ub,
                         WartenAufWSBeiLSE_t_toleranzzeit_lse
<1>4. Gut(e, s, K, WartenAufWSBeiLSE_s_lse2_ub(g))
  BY <1>2, GutEnde DEF WartenAufWSBeiLSE_s_lse2_ub, gFesto2
<1>5. ASSUME NEW h, Gut(e, s, K, h)
      PROVE  /\ Gut(e, s, K, starte(h, "lsa")) /\ starte(h, "lsa").lse = h.lse
             /\ Gut(e, s, K, senden(h, "S_WS_AN_FESTO2"))
             /\ senden(h, "S_WS_AN_FESTO2").lse = h.lse
  <2>1. h \in Maschine
    BY <1>5, GutTyp
  <2>2. Still(h, starte(h, "lsa"))
    BY <2>1, StilleTimer DEF TimerNamen
  <2>3. senden(h, "S_WS_AN_FESTO2").lse = h.lse
    BY <2>1 DEF senden, sendenMit, Maschine
  <2>4. starte(h, "lsa").lse = h.lse
    BY <2>2 DEF Still, GleicherKern
  <2> QED
    BY <1>5, <2>2, <2>3, <2>4, GutStill, GutBelanglos DEF Belanglos
<1>6. ASSUME g.lse = "WartenAufWSBeiLSE" PROVE Gut(e, s, K, WartenAufWSBeiLSE_s_lse1_ub(g))
  <2>1. CASE gFesto1(g) /\ g.d.f2_bereit
    <3> DEFINE x == starte(g, "lsa")
               y == loescheWS_F1(x)
               z == senden(y, "S_WS_AN_FESTO2")
    <3>1. WartenAufWSBeiLSE_s_lse1_ub(g) = WartenAufLSE_entry(z)
      BY <2>1 DEF WartenAufWSBeiLSE_s_lse1_ub
    <3>2. Gut(e, s, K, x) /\ x.lse = "WartenAufWSBeiLSE"
      BY <1>5, <1>6
    <3> HIDE DEF x
    <3>3. Gut(e, s, K, y) /\ y.lse = "WartenAufWSBeiLSE"
      BY <1>2, <2>1, <3>2, GutWeniger DEF gFesto1
    <3> HIDE DEF y
    <3>4. Gut(e, s, K, z) /\ z.lse = "WartenAufWSBeiLSE"
      BY <1>5, <3>3
    <3> HIDE DEF z
    <3>5. ~z.d.enteredWartenAufErlaubnisVonF2
      BY <3>4, GutTyp
    <3> QED
      BY <3>1, <3>4, <3>5, GutLSE
  <2>2. CASE gFesto1(g) /\ ~g.d.f2_bereit
    BY <1>2, <2>2, GutWartet DEF WartenAufWSBeiLSE_s_lse1_ub, gFesto1
  <2>3. CASE ~gFesto1(g)
    BY <2>3 DEF WartenAufWSBeiLSE_s_lse1_ub
  <2> QED
    BY <2>1, <2>2, <2>3
<1>7. ASSUME g.lse = "WartenAufErlaubnisVonF2"
      PROVE  LET h == WartenAufErlaubnisVonF2_s_festo2_bereit(g)
             IN  Gut(e, s, K, h) /\ ~h.d.enteredWartenAufErlaubnisVonF2
  <2> DEFINE y == loescheWS_F1(g)
             z == senden(y, "S_WS_AN_FESTO2")
  <2>1. K.a = 1
    BY <1>7, GutTyp DEF Anlagen
  <2>2. Gut(e, s, K, y) /\ y.lse = "WartenAufErlaubnisVonF2"
    BY <1>7, <2>1, GutWeniger
  <2> HIDE DEF y
  <2>3. Gut(e, s, K, z) /\ z.lse = "WartenAufErlaubnisVonF2"
    BY <1>5, <2>2
  <2>4. WartenAufErlaubnisVonF2_s_festo2_bereit(g)
          = WartenAufLSE_entry(WartenAufErlaubnisVonF2_exit(z))
    BY DEF WartenAufErlaubnisVonF2_s_festo2_bereit, y
  <2> HIDE DEF z
  <2> QED
    BY <2>3, <2>4, GutWartetNicht
<1>8. ASSUME g.lse = "WartenBisWSEntfernt", s = "S_LSE2_NUB"
      PROVE  Gut(e, s, K, WartenBisWSEntfernt_s_lse2_nub(g))
  <2> DEFINE x == loescheWS_F2(g)
             y == fortsetzen(x, BandTimer)
             z == MotorSchnell(y)
             w == [z EXCEPT !.d.enteredWartenBisWSEntfernt = FALSE]
  <2>1. K.a = 2
    BY <1>8, GutTyp DEF Anlagen
  <2>2. WartenBisWSEntfernt_s_lse2_nub(g) = WartenAufLSE_entry(w)
    BY DEF WartenBisWSEntfernt_s_lse2_nub, WartenBisWSEntfernt_exit
  <2>3. Gut(e, s, K, x)
    BY <1>8, <2>1, GutWeniger
  <2> HIDE DEF x
  <2>4. Gut(e, s, K, y)
    BY <2>3, GutTyp, GutStill, StilleTimer DEF BandTimer
  <2> HIDE DEF y
  <2>5. Gut(e, s, K, z)
    BY <2>1, <2>4, GutTyp, GutMotor
  <2> HIDE DEF z
  <2>6. Gut(e, s, K, w)
    BY <2>5, GutTyp, GutStill, StilleMerker
  <2> HIDE DEF w
  <2>7. ~w.d.enteredWartenAufErlaubnisVonF2
    BY <2>1, <2>6, GutTyp
  <2> QED
    BY <2>2, <2>6, <2>7, GutLSE
<1> QED
  BY <1>3, <1>4, <1>6, <1>7, <1>8

LEMMA GutWarnung ==
  ASSUME NEW e, NEW g, NEW K, NEW s, Gut(e, s, K, g)
  PROVE  /\ Gut(e, s, K, WartenAufWarnung_entry(g))
         /\ Gut(e, s, K, WartenAufWarnung_ec_rtsch_voll(g))
         /\ Gut(e, s, K, WarnsignalAktivieren_cmd_rtsch_nv(g))
<1>1. ASSUME NEW h, Gut(e, s, K, h)
      PROVE  /\ Gut(e, s, K, senden(h, "CMD_LED_AMP_GLB_B"))
             /\ Gut(e, s, K, WarnsignalAktivieren_exit(h))
             /\ \A z \in WarnZustand : Gut(e, s, K, [h EXCEPT !.warn = z])
  BY <1>1, GutBelanglos, GutTyp, GutStill, StilleRegionen DEF Belanglos, WarnsignalAktivieren_exit
<1>2. ASSUME NEW h, Gut(e, s, K, h) PROVE Gut(e, s, K, WarnsignalAktivieren_entry(h))
  BY <1>1, <1>2 DEF WarnsignalAktivieren_entry, WarnZustand
<1>3. ASSUME NEW h, Gut(e, s, K, h) PROVE Gut(e, s, K, WartenAufWarnung_entry(h))
  BY <1>1, <1>2, <1>3 DEF WartenAufWarnung_entry, WarnZustand
<1> QED
  BY <1>1, <1>2, <1>3 DEF WartenAufWarnung_ec_rtsch_voll, WarnsignalAktivieren_cmd_rtsch_nv

\* A signal comes as it was agreed: the machine is where the sender takes it to be.
Kommt(s, K) ==
  /\ s = "S_LSH_UB" /\ K.a = 1 => K.wart = "aus"
  /\ s = "S_LSA1_UB" /\ K.a = 1 /\ Sort(K) => K.lsa = "NaechsteWSErlaubt"
  /\ s = "CMD_FESTOS_FREI" => K.n = 0
  /\ s = "S_FESTO1_STOPPEN" /\ K.a = 1 => K.n = 0
  /\ s = "S_FESTO2_FREI" /\ K.a = 2 => K.n = 0

LEMMA GutLampe ==
  ASSUME NEW e, NEW g, NEW K, NEW s, Gut(e, s, K, g), K.a = 1
  PROVE  Gut(e, s, K, NaechsteWSErlaubt_entry(g))
<1>1. PICK L \in Kerne : Ist(e, g, L) /\ Sort(L) /\ Richtig(L) /\ Wirkung(s, K, L)
  BY DEF Gut
<1> DEFINE x == [g EXCEPT !.lsa = "NaechsteWSErlaubt"]
           X == [L EXCEPT !.lsa = "NaechsteWSErlaubt"]
           Y == KSende(X, "CMD_LED_Q1_AN")
<1>2. L.a = 1
  BY <1>1 DEF Wirkung, Bleiben
<1>3. Sort(Y) /\ Richtig(Y) /\ Wirkung(s, K, Y)
  BY <1>1, <1>2 DEF KSende, Kerne, Sort, Ruht, Richtig, EigeneRegionen, WartenBekannt, StehtRichtig,
                    LampeRichtig, BereitRichtig, WartetZuRecht, FreiRichtig, RuhtLeer, OhneFehler,
                    Wirkung, Bleiben, NurEigene, MeldetFrei, ZaehltAmEingang, Frei, NichtFrei,
                    Wichtig, Sensoren
<1>4. Ist(e, x, X)
  BY <1>1, IstFelder DEF LSAZustand
<1> HIDE DEF x, X
<1>5. Ist(e, senden(x, "CMD_LED_Q1_AN"), Y)
  BY <1>4, LeiseSignale, IstSenden
<1> QED
  BY <1>3, <1>5 DEF Gut, Ist, NaechsteWSErlaubt_entry, x

\* Plant 1 takes a workpiece in.
LEMMA GutEinlass1 ==
  ASSUME NEW e, NEW g, NEW K, Ist(e, g, K), Sort(K), Richtig(K), Frisch(K), K.a = 1
  PROVE  Gut(e, "S_LSA1_UB", K, NaechsteWSErlaubt_s_lsa1_ub(g))
<1> DEFINE x == starte(g, "lsh")
           y == addWS_F1(x)
           Y == KMehr1(K)
           z == [y EXCEPT !.lsa = "BeginnSortierprozessF1"]
           Z == [Y EXCEPT !.lsa = "BeginnSortierprozessF1"]
           W == KSende(Z, "CMD_LED_Q1_AUS")
<1>1. K \in Kerne /\ K.n \in Int
  BY DEF Ist, Kerne
<1>2. Sort(W) /\ Richtig(W)
  <2>1. /\ W.a = 1 /\ W.zu = K.zu /\ W.bz = K.bz /\ W.lsa = "BeginnSortierprozessF1"
        /\ W.lse = K.lse /\ W.ort = K.ort /\ W.n = K.n + 1 /\ W.wart = K.wart /\ W.verl = K.verl
        /\ W.f2b = K.f2b /\ W.steht = K.steht /\ W.q1 = "aus" /\ W.frei = "aus"
    BY <1>1, SMTT(30) DEF KMehr1, KSende, Kerne, Frei, NichtFrei
  <2> HIDE DEF W
  <2> QED
    BY <2>1 DEF Sort, Ruht, Richtig, EigeneRegionen, WartenBekannt, StehtRichtig, LampeRichtig,
         BereitRichtig, WartetZuRecht, FreiRichtig, RuhtLeer, OhneFehler
<1>3. Wirkung("S_LSA1_UB", K, W)
  BY <1>1 DEF KMehr1, KSende, Kerne, Wirkung, Bleiben, NurEigene, MeldetFrei, ZaehltAmEingang,
       Frisch, Eingang, Wichtig, Sensoren
<1>4. Ist(e, x, K)
  BY StilleTimer, StillIst DEF Ist, TimerNamen
<1> HIDE DEF x
<1>5. Ist(e, y, Y)
  BY <1>4, IstMehr
<1> HIDE DEF y, Y
<1>6. Ist(e, z, Z)
  BY <1>5, IstFelder DEF LSAZustand
<1> HIDE DEF z, Z
<1>7. Ist(e, senden(z, "CMD_LED_Q1_AUS"), W)
  BY <1>6, LeiseSignale, IstSenden
<1> QED
  BY <1>2, <1>3, <1>7
  DEF Gut, Ist, NaechsteWSErlaubt_s_lsa1_ub, BeginnSortierprozessF1_entry, x, y, z

\* Plant 2 takes a workpiece in.
LEMMA GutEinlass2 ==
  ASSUME NEW e, NEW g, NEW K, Ist(e, g, K), Sort(K), Richtig(K), Frisch(K), K.a = 2
  PROVE  Gut(e, "S_LSA2_UB", K, WartenAufWSBeiLSA_s_lsa2_ub(g))
<1> DEFINE s == "S_LSA2_UB"
           x == starte(g, "lsh")
           h == addWS_F2(x)
           H == KMehr2(K)
           v == senden(h, "S_FESTO1_STOPPEN")
           V == KSende(H, "S_FESTO1_STOPPEN")
<1>1. K \in Kerne /\ K.n \in Int
  BY DEF Ist, Kerne
<1>2. Ist(e, x, K)
  BY StilleTimer, StillIst DEF Ist, TimerNamen
<1>3. WartenAufWSBeiLSA_s_lsa2_ub(g)
        = BeginnSortierprozessF2_entry(IF h.d.festo1Frei THEN v ELSE h)
  BY DEF WartenAufWSBeiLSA_s_lsa2_ub
<1> HIDE DEF x
<1>4. Ist(e, h, H)
  BY <1>2, IstMehr
<1>5. Sort(H) /\ Richtig(H) /\ H.f1 = K.f1 /\ H.a = 2
  <2> DEFINE A == [K EXCEPT !.n = K.n + 1]
             B == KSende(A, "S_FESTO2_NFREI")
             C == KSende(B, "S_FESTO2_NBEREIT")
  <2>1. B \in Kerne /\ B.a = 2 /\ B.f1 = K.f1 /\ B.n = K.n + 1 /\ Sort(B)
    <3>1. A \in Kerne /\ A.a = 2 /\ A.f1 = K.f1 /\ A.n = K.n + 1 /\ Sort(A)
      BY <1>1 DEF Kerne, Sort
    <3> HIDE DEF A
    <3> QED
      BY <3>1, KSendeFelder DEF Sort
  <2>2. /\ EigeneRegionen(B) /\ WartenBekannt(B) /\ StehtRichtig(B) /\ LampeRichtig(B)
        /\ WartetZuRecht(B) /\ RuhtLeer(B) /\ OhneFehler(B)
    BY <1>1 DEF KSende, Kerne, Sort, Ruht, Richtig, EigeneRegionen, WartenBekannt,
         StehtRichtig, LampeRichtig, WartetZuRecht, RuhtLeer, OhneFehler, Frei, NichtFrei
  <2>3. B.frei = "aus"
    BY <1>1 DEF KSende, Kerne, Frei, NichtFrei
  <2> HIDE DEF B
  <2>4. CASE K.n + 1 >= 2
    <3>1. H = C
      BY <2>4 DEF KMehr2, B
    <3>2. Sort(C) /\ Richtig(C) /\ C.f1 = B.f1 /\ C.a = 2
      BY <2>1, <2>2, <2>3 DEF KSende, Kerne, Sort, Ruht, Richtig, EigeneRegionen, WartenBekannt,
         StehtRichtig, LampeRichtig, BereitRichtig, WartetZuRecht, FreiRichtig, RuhtLeer, OhneFehler,
         Frei, NichtFrei
    <3> QED
      BY <2>1, <3>1, <3>2
  <2>5. CASE ~(K.n + 1 >= 2)
    <3>1. H = B
      BY <2>5 DEF KMehr2, B
    <3>2. Richtig(B)
      BY <2>1, <2>2, <2>3, <2>5, <1>1 DEF Richtig, BereitRichtig, FreiRichtig
    <3> QED
      BY <2>1, <3>1, <3>2
  <2> QED
    BY <2>4, <2>5
<1>6. Wirkung(s, K, H)
  BY <1>1 DEF KMehr2, KSende, Kerne, Wirkung, Bleiben, NurEigene, MeldetFrei, ZaehltAmEingang,
       Frisch, Eingang, Wichtig, Sensoren
<1> HIDE DEF h, H
<1>7. Ist(e, v, V) /\ H \in Kerne
  BY <1>4, LeiseSignale, IstSenden DEF Ist
<1>8. Sort(V) /\ Richtig(V)
  BY <1>5, <1>7 DEF KSende, Kerne, Sort, Ruht, Richtig, EigeneRegionen, WartenBekannt,
       StehtRichtig, LampeRichtig, BereitRichtig, WartetZuRecht, FreiRichtig, RuhtLeer, OhneFehler,
       Frei, NichtFrei
<1>9. K.f1 = "an" => Wirkung(s, K, V)
  BY <1>6, <1>7 DEF KSende, Kerne, Wirkung, Bleiben, NurEigene, MeldetFrei, ZaehltAmEingang,
       Wichtig, Sensoren
<1>10. h.d.festo1Frei <=> K.f1 = "an"
  BY <1>4, <1>5, IstTyp
<1> HIDE DEF V, v
<1>11. Gut(e, s, K, IF h.d.festo1Frei THEN v ELSE h)
  BY <1>4, <1>5, <1>6, <1>7, <1>8, <1>9, <1>10 DEF Gut, Ist
<1> QED
  BY <1>3, <1>11, GutLSA2

-----------------------------------------------------------------------------
(***************************************************************************)
(* Leaving the regions.                                                    *)
(***************************************************************************)
\* The belt stands or not, nobody waits any more.
KVerlassen(K, x) ==
  [K EXCEPT !.steht = x,
            !.wart = IF K.lse = "WartenAufErlaubnisVonF2" THEN "aus" ELSE K.wart]

LEMMA IstVerlassen ==
  ASSUME NEW e, NEW g, NEW K, Ist(e, g, K)
  PROVE  \E x \in Schalter : Ist(e, SortierungVerlassen(g), KVerlassen(K, x))
<1> DEFINE h == LSWbisLSE_verlassen(g)
<1>1. K \in Kerne /\ g \in Maschine /\ g.lse = K.lse
  BY IstTyp
<1>2. ASSUME NEW sig \in {"CMD_MTR_RECHTS_S", "CMD_MTR_RECHTS_L"}
      PROVE  Ist(e, senden(g, sig), [K EXCEPT !.steht = "aus"])
  <2>1. KSende(K, sig) = [K EXCEPT !.steht = "aus"]
    <3>1. {sig} \cap Wichtig = {} /\ sig # Frei(K.a) /\ sig # NichtFrei(K.a)
      BY DEF Wichtig, Frei, NichtFrei
    <3>2. K.sig \cup ({sig} \cap Wichtig) = K.sig
      BY <3>1
    <3> QED
      BY <1>1, <3>1, <3>2 DEF KSende, Kerne
  <2>2. Ist(e, senden(g, sig), KSende(K, sig))
    BY LeiseSignale, IstSenden
  <2> QED
    BY <2>1, <2>2
<1>3. \E x \in Schalter : Ist(e, h, KVerlassen(K, x))
  <2>1. CASE g.lse = "WartenAufErlaubnisVonF2"
    <3> DEFINE sig == IF g.d.enteredHoheMessen THEN "CMD_MTR_RECHTS_L" ELSE "CMD_MTR_RECHTS_S"
               x == senden(g, sig)
               X == [K EXCEPT !.steht = "aus"]
               y == starte(x, "lsa")
               z == [y EXCEPT !.d.enteredWartenAufErlaubnisVonF2 = FALSE]
               Z == [X EXCEPT !.wart = "aus"]
    <3>1. h = fortsetzen(z, BandTimer)
      BY <2>1 DEF LSWbisLSE_verlassen, WartenAufErlaubnisVonF2_exit, MotorLangsam, MotorSchnell
    <3>2. Z = KVerlassen(K, "aus") /\ "aus" \in Schalter
      BY <1>1, <2>1 DEF KVerlassen, Kerne, Schalter
    <3>3. Ist(e, x, X)
      BY <1>2
    <3> HIDE DEF x, X, h
    <3>4. Ist(e, y, X)
      BY <3>3, StilleTimer, StillIst DEF Ist, TimerNamen
    <3> HIDE DEF y
    <3>5. Ist(e, z, Z)
      BY <3>4, IstDaten DEF An
    <3> HIDE DEF z, Z
    <3>6. Ist(e, h, Z)
      BY <3>1, <3>5, StilleTimer, StillIst DEF Ist, BandTimer
    <3> QED
      BY <3>2, <3>6
  <2>2. CASE g.lse = "WartenBisWSEntfernt"
    <3> DEFINE x == senden(g, "CMD_MTR_RECHTS_S")
               X == [K EXCEPT !.steht = "aus"]
    <3>1. h = [x EXCEPT !.d.enteredWartenBisWSEntfernt = FALSE]
      BY <2>2 DEF LSWbisLSE_verlassen, WartenBisWSEntfernt_exit, MotorSchnell
    <3>2. X = KVerlassen(K, "aus") /\ "aus" \in Schalter
      BY <1>1, <2>2 DEF KVerlassen, Kerne, Schalter
    <3>3. Ist(e, x, X)
      BY <1>2
    <3> HIDE DEF x, X, h
    <3>4. Still(x, [x EXCEPT !.d.enteredWartenBisWSEntfernt = FALSE])
      BY <3>3, StilleMerker DEF Ist
    <3>5. Ist(e, h, X)
      BY <3>1, <3>3, <3>4, StillIst
    <3> QED
      BY <3>2, <3>5
  <2>3. CASE g.lse \notin {"WartenAufErlaubnisVonF2", "WartenBisWSEntfernt"}
    <3>1. h = g
      BY <2>3 DEF LSWbisLSE_verlassen
    <3>2. K = KVerlassen(K, K.steht) /\ K.steht \in Schalter
      BY <1>1, <2>3 DEF KVerlassen, Kerne
    <3> QED
      BY <3>1, <3>2
  <2> QED
    BY <2>1, <2>2, <2>3
<1>4. PICK x \in Schalter : Ist(e, h, KVerlassen(K, x))
  BY <1>3
<1> HIDE DEF h
<1>5. Ist(e, Warnung_verlassen(h), KVerlassen(K, x))
  BY <1>4, IstBelanglos DEF Warnung_verlassen, WarnsignalAktivieren_exit, Belanglos
<1> QED
  BY <1>5 DEF SortierungVerlassen, h

LEMMA IstBetriebVerlassen ==
  ASSUME NEW e, NEW g, NEW K, Ist(e, g, K),
         K.wart = "an" => K.bz = "Sortierung" /\ K.lse = "WartenAufErlaubnisVonF2"
  PROVE  Ist(e, BetriebVerlassen(g), [K EXCEPT !.steht = "an", !.wart = "aus"])
<1> DEFINE h == IF g.bz = "Sortierung" THEN SortierungVerlassen(g) ELSE g
<1>1. K \in Kerne /\ g.bz = K.bz /\ K.wart \in Schalter
  BY IstTyp DEF Kerne
<1>2. \E x \in Schalter : Ist(e, h, [K EXCEPT !.steht = x, !.wart = "aus"])
  <2>1. CASE K.bz = "Sortierung"
    <3>1. PICK x \in Schalter : Ist(e, SortierungVerlassen(g), KVerlassen(K, x))
      BY IstVerlassen
    <3>2. (IF K.lse = "WartenAufErlaubnisVonF2" THEN "aus" ELSE K.wart) = "aus"
      BY <1>1 DEF Schalter
    <3>3. KVerlassen(K, x) = [K EXCEPT !.steht = x, !.wart = "aus"]
      BY <3>2 DEF KVerlassen
    <3>4. h = SortierungVerlassen(g)
      BY <1>1, <2>1
    <3> QED
      BY <3>1, <3>3, <3>4
  <2>2. CASE K.bz # "Sortierung"
    <3>1. K = [K EXCEPT !.steht = K.steht, !.wart = "aus"] /\ K.steht \in Schalter
      BY <1>1, <2>2 DEF Kerne, Schalter
    <3> QED
      BY <1>1, <2>2, <3>1
  <2> QED
    BY <2>1, <2>2
<1>3. PICK x \in Schalter : Ist(e, h, [K EXCEPT !.steht = x, !.wart = "aus"])
  BY <1>2
<1> HIDE DEF h
<1> DEFINE L == [K EXCEPT !.steht = x, !.wart = "aus"]
<1>4. KSende(L, "CMD_MTR_STOP") = [K EXCEPT !.steht = "an", !.wart = "aus"]
  <2>1. {"CMD_MTR_STOP"} \cap Wichtig = {} /\ "CMD_MTR_STOP" # Frei(K.a)
        /\ "CMD_MTR_STOP" # NichtFrei(K.a)
    BY DEF Wichtig, Frei, NichtFrei
  <2>2. K.sig \cup ({"CMD_MTR_STOP"} \cap Wichtig) = K.sig
    BY <2>1
  <2> QED
    BY <1>1, <2>1, <2>2 DEF KSende, Kerne
<1>5. Ist(e, senden(h, "CMD_MTR_STOP"), KSende(L, "CMD_MTR_STOP"))
  BY <1>3, LeiseSignale, IstSenden
<1> QED
  BY <1>4, <1>5 DEF BetriebVerlassen, h

LEMMA IstStop ==
  ASSUME NEW e, NEW g, NEW K, Ist(e, g, K)
  PROVE  Ist(e, senden(g, "CMD_MTR_STOP"), [K EXCEPT !.steht = "an"])
<1>1. K \in Kerne
  BY DEF Ist
<1>2. {"CMD_MTR_STOP"} \cap Wichtig = {} /\ "CMD_MTR_STOP" # Frei(K.a)
      /\ "CMD_MTR_STOP" # NichtFrei(K.a)
  BY DEF Wichtig, Frei, NichtFrei
<1>3. K.sig \cup ({"CMD_MTR_STOP"} \cap Wichtig) = K.sig
  BY <1>2
<1>4. KSende(K, "CMD_MTR_STOP") = [K EXCEPT !.steht = "an"]
  BY <1>1, <1>2, <1>3 DEF KSende, Kerne
<1>5. Ist(e, senden(g, "CMD_MTR_STOP"), KSende(K, "CMD_MTR_STOP"))
  BY LeiseSignale, IstSenden
<1> QED
  BY <1>4, <1>5

\* The plant stops with an error.
LEMMA IstFehlerhalt ==
  ASSUME NEW e, NEW g, NEW K, Ist(e, g, K),
         K.wart = "an" => K.bz = "Sortierung" /\ K.lse = "WartenAufErlaubnisVonF2"
  PROVE  LET h == [senden(BetriebVerlassen(g), "CMD_MTR_STOP") EXCEPT
                     !.zustand = "Fehlerbehandlung"]
         IN  /\ Ist(e, h, [K EXCEPT !.steht = "an", !.wart = "aus", !.zu = "Fehlerbehandlung"])
             /\ Ist(e, [h EXCEPT !.exit = FALSE],
                    [K EXCEPT !.steht = "an", !.wart = "aus", !.zu = "Fehlerbehandlung",
                              !.exit = "aus"])
<1> DEFINE x == BetriebVerlassen(g)
           X == [K EXCEPT !.steht = "an", !.wart = "aus"]
           y == senden(x, "CMD_MTR_STOP")
           z == [y EXCEPT !.zustand = "Fehlerbehandlung"]
           Z == [X EXCEPT !.zu = "Fehlerbehandlung"]
<1>1. Ist(e, x, X)
  BY IstBetriebVerlassen
<1> HIDE DEF x
<1>2. Ist(e, y, [X EXCEPT !.steht = "an"])
  BY <1>1, IstStop
<1>3. [X EXCEPT !.steht = "an"] = X
  BY <1>1 DEF Ist, Kerne
<1> HIDE DEF y
<1>4. Ist(e, z, Z)
  BY <1>2, <1>3, IstFelder
<1>5. Ist(e, [z EXCEPT !.exit = FALSE], [Z EXCEPT !.exit = "aus"])
  BY <1>4, IstFelder DEF An
<1> QED
  BY <1>4, <1>5 DEF x, y

\* A machine that has handled the signal s; its core was K before.
Erledigt(e, s, K, h) ==
  \E L \in Kerne : Ist(e, h, L) /\ Richtig(L) /\ L.exit = "aus" /\ Wirkung(s, K, L)

LEMMA ErledigtSelbst ==
  ASSUME NEW e, NEW g, NEW K, NEW s, Ist(e, g, K), Richtig(K), Frisch(K)
  PROVE  Erledigt(e, s, K, g)
<1>1. K \in Kerne
  BY DEF Ist
<1>2. Wirkung(s, K, K)
  BY DEF Wirkung, Bleiben, NurEigene, MeldetFrei, ZaehltAmEingang, Frisch
<1> QED
  BY <1>1, <1>2 DEF Erledigt, Frisch

\* A core that has been left for Fehlerbehandlung.
KFehlerhalt(K) ==
  [K EXCEPT !.steht = "an", !.wart = "aus", !.zu = "Fehlerbehandlung", !.exit = "aus"]

LEMMA FehlerhaltRichtig ==
  ASSUME NEW K \in Kerne, Richtig(K), NEW L, NEW s, Wirkung(s, L, K)
  PROVE  /\ Richtig(KFehlerhalt(K)) /\ Wirkung(s, L, KFehlerhalt(K))
         /\ KFehlerhalt(K).exit = "aus" /\ KFehlerhalt(K) \in Kerne
<1> DEFINE M == KFehlerhalt(K)
<1>1. /\ M.a = K.a /\ M.bz = K.bz /\ M.lsa = K.lsa /\ M.lse = K.lse /\ M.ort = K.ort /\ M.n = K.n
      /\ M.verl = K.verl /\ M.f2b = K.f2b /\ M.f1 = K.f1 /\ M.f2 = K.f2 /\ M.q1 = K.q1
      /\ M.bereit = K.bereit /\ M.frei = K.frei /\ M.sig = K.sig
      /\ M.steht = "an" /\ M.wart = "aus" /\ M.zu = "Fehlerbehandlung" /\ M.exit = "aus"
  BY DEF Kerne, KFehlerhalt
<1>2. M \in Kerne
  BY DEF Kerne, KFehlerhalt, Schalter
<1> HIDE DEF M
<1>3. Richtig(M)
  BY <1>1 DEF Richtig, Sort, Ruht, EigeneRegionen, WartenBekannt, StehtRichtig, LampeRichtig,
              BereitRichtig, WartetZuRecht, FreiRichtig, RuhtLeer, OhneFehler
<1>4. Wirkung(s, L, M)
  BY <1>1 DEF Wirkung, Bleiben, NurEigene, MeldetFrei, ZaehltAmEingang
<1> QED
  BY <1>1, <1>2, <1>3, <1>4 DEF M

\* The end of a handler of Sortierung.
LEMMA GutFertig ==
  ASSUME NEW e, NEW h, NEW K \in Kerne, NEW s, Gut(e, s, K, h)
  PROVE  LET r == BetriebszustandExit(RegionenFertig(h))
         IN  /\ Erledigt(e, s, K, r)
             /\ ~h.d.enteredWartenAufErlaubnisVonF2 => ~r.d.enteredWartenAufErlaubnisVonF2
<1>1. PICK L \in Kerne : Ist(e, h, L) /\ Sort(L) /\ Richtig(L) /\ Wirkung(s, K, L)
  BY DEF Gut
<1>2. CASE ~h.exit
  <2>1. BetriebszustandExit(RegionenFertig(h)) = h
    BY <1>2 DEF BetriebszustandExit, RegionenFertig
  <2>2. L.exit = "aus"
    BY <1>1, <1>2, IstTyp DEF Kerne, Schalter
  <2> QED
    BY <1>1, <2>1, <2>2 DEF Erledigt
<1>3. CASE h.exit
  <2> DEFINE r == SortierungVerlassen(h)
             p == pausiere(r, TimerNamen)
             q == senden(p, "S_PARTNER_FEHLER")
             z == [senden(BetriebVerlassen(q), "CMD_MTR_STOP") EXCEPT
                     !.zustand = "Fehlerbehandlung"]
  <2>1. PICK x \in Schalter : Ist(e, r, KVerlassen(L, x))
    BY <1>1, IstVerlassen
  <2> DEFINE R == KVerlassen(L, x)
             M == KFehlerhalt(R)
  <2>2. R.wart = "aus" /\ L.exit = "an"
    BY <1>1, <1>3, IstTyp DEF KVerlassen, Kerne, Schalter, Richtig, WartenBekannt, Sort
  <2>3. r.exit
    <3>1. R.exit = "an"
      BY <2>2, <1>1 DEF KVerlassen, Kerne
    <3> HIDE DEF R, r
    <3> QED
      BY <2>1, <3>1, IstTyp DEF R
  <2>4. BetriebszustandExit(RegionenFertig(h)) = [z EXCEPT !.exit = FALSE]
    BY <1>3, <2>3 DEF BetriebszustandExit, RegionenFertig
  <2>5. M = KFehlerhalt(L)
    BY <1>1 DEF KVerlassen, KFehlerhalt, Kerne
  <2> HIDE DEF r
  <2>6. Ist(e, p, R)
    BY <2>1, StilleTimer, StillIst DEF Ist
  <2> HIDE DEF p
  <2>7. Ist(e, q, R)
    BY <2>6, IstBelanglos DEF Belanglos
  <2> HIDE DEF q, R
  <2>8. Ist(e, [z EXCEPT !.exit = FALSE], M)
    BY <2>2, <2>7, IstFehlerhalt DEF KFehlerhalt
  <2> HIDE DEF z
  <2>9. M \in Kerne /\ Richtig(M) /\ Wirkung(s, K, M) /\ M.exit = "aus"
    BY <1>1, <2>5, FehlerhaltRichtig
  <2>10. M.wart = "aus"
    BY <1>1, <2>5 DEF KFehlerhalt, Kerne
  <2> HIDE DEF M
  <2>11. ~[z EXCEPT !.exit = FALSE].d.enteredWartenAufErlaubnisVonF2
    BY <2>8, <2>10, IstTyp
  <2> QED
    BY <2>4, <2>8, <2>9, <2>11 DEF Erledigt
<1>4. h.exit \in BOOLEAN
  BY <1>1 DEF Ist, Maschine
<1> QED
  BY <1>2, <1>3, <1>4

LEMMA PartnerErledigt ==
  ASSUME NEW e, NEW g, NEW K, NEW s, Ist(e, g, K), Richtig(K), Frisch(K)
  PROVE  Erledigt(e, s, K, s_partner_fehler(g))
<1> DEFINE q == senden(g, "S_PARTNER_FEHLER")
           p == pausiere(q, TimerNamen)
           M == [K EXCEPT !.steht = "an", !.wart = "aus", !.zu = "Fehlerbehandlung"]
           z == [senden(BetriebVerlassen(p), "CMD_MTR_STOP") EXCEPT !.zustand = "Fehlerbehandlung"]
<1>1. s_partner_fehler(g) = z
  BY DEF s_partner_fehler
<1>2. Ist(e, q, K)
  BY IstBelanglos DEF Belanglos
<1> HIDE DEF q
<1>3. Ist(e, p, K)
  BY <1>2, StilleTimer, StillIst DEF Ist
<1> HIDE DEF p
<1>4. K.wart = "an" => K.bz = "Sortierung" /\ K.lse = "WartenAufErlaubnisVonF2"
  BY DEF Richtig, WartenBekannt, Sort
<1>5. Ist(e, z, M)
  BY <1>3, <1>4, IstFehlerhalt
<1> HIDE DEF z
<1>6. K \in Kerne
  BY DEF Ist
<1>7. M = KFehlerhalt(K)
  BY <1>6 DEF Frisch, Kerne, KFehlerhalt
<1>8. Wirkung(s, K, K)
  BY DEF Wirkung, Bleiben, NurEigene, MeldetFrei, ZaehltAmEingang, Frisch
<1> HIDE DEF M
<1>9. Richtig(M) /\ Wirkung(s, K, M) /\ M.exit = "aus" /\ M \in Kerne
  BY <1>6, <1>7, <1>8, FehlerhaltRichtig
<1> QED
  BY <1>1, <1>5, <1>9 DEF Erledigt

-----------------------------------------------------------------------------
(***************************************************************************)
(* The handlers of Sortierung.                                             *)
(***************************************************************************)
LEMMA AufWSWartenErledigt ==
  ASSUME NEW e, NEW g, NEW K, NEW s, Ist(e, g, K), Sort(K), Richtig(K), Frisch(K), K.n = 0
  PROVE  Erledigt(e, s, K, BetriebszustandExit(AufWSWartenBetreten(g)))
<1> DEFINE r == SortierungVerlassen(g)
           p == [r EXCEPT !.bz = "AufWSWarten"]
           q == senden(p, "CMD_MTR_STOP")
           w == senden(q, "CMD_LED_Q1_AN")
<1>1. PICK x \in Schalter : Ist(e, r, KVerlassen(K, x))
  BY IstVerlassen
<1> DEFINE R == KVerlassen(K, x)
           P == [R EXCEPT !.bz = "AufWSWarten"]
           Q == [P EXCEPT !.steht = "an"]
           W == KSende(Q, "CMD_LED_Q1_AN")
<1>2. AufWSWartenBetreten(g) = w
  BY DEF AufWSWartenBetreten, AufWSWarten_entry
<1>3. K \in Kerne
  BY DEF Ist
<1>4. R.wart = "aus"
  BY <1>3 DEF KVerlassen, Kerne, Schalter, Richtig, WartenBekannt, Sort
<1>5. /\ Q \in Kerne /\ Q.a = K.a /\ Q.zu = K.zu /\ Q.bz = "AufWSWarten" /\ Q.lsa = K.lsa
      /\ Q.lse = K.lse /\ Q.exit = K.exit /\ Q.ort = K.ort /\ Q.n = K.n /\ Q.wart = "aus"
      /\ Q.verl = K.verl /\ Q.f2b = K.f2b /\ Q.f1 = K.f1 /\ Q.f2 = K.f2 /\ Q.steht = "an"
      /\ Q.bereit = K.bereit /\ Q.frei = K.frei /\ Q.sig = K.sig
  BY <1>3, <1>4, ZenonT(60) DEF KVerlassen, Kerne, Schalter
<1> HIDE DEF r
<1>6. Ist(e, p, P)
  BY <1>1, IstFelder
<1> HIDE DEF p, P
<1>7. Ist(e, q, Q)
  BY <1>6, IstStop
<1> HIDE DEF q, Q
<1>8. Ist(e, w, W)
  BY <1>7, LeiseSignale, IstSenden
<1>9. W.exit = "aus" /\ W \in Kerne
  BY <1>5, <1>8, KSendeFelder DEF Frisch, Ist
<1>10. Richtig(W)
  BY <1>5 DEF KSende, Kerne, Sort, Ruht, Richtig, EigeneRegionen, WartenBekannt, StehtRichtig,
              LampeRichtig, BereitRichtig, WartetZuRecht, FreiRichtig, RuhtLeer, OhneFehler,
              Frei, NichtFrei
<1>11. Wirkung(s, K, W)
  BY <1>5 DEF KSende, Kerne, Wirkung, Bleiben, NurEigene, MeldetFrei, ZaehltAmEingang, Frisch,
              Wichtig, Sensoren
<1> HIDE DEF w, W
<1>12. ~w.exit
  BY <1>8, <1>9, IstTyp
<1>13. BetriebszustandExit(w) = w
  BY <1>12 DEF BetriebszustandExit
<1> QED
  BY <1>2, <1>8, <1>9, <1>10, <1>11, <1>13 DEF Erledigt

\* The light barriers.
LEMMA LSA1Erledigt ==
  ASSUME NEW e, NEW g, NEW K, Ist(e, g, K), Sort(K), Richtig(K), Frisch(K), Kommt("S_LSA1_UB", K)
  PROVE  Erledigt(e, "S_LSA1_UB", K, BetriebszustandExit(s_lsa1_ub(g)))
<1>1. Gut(e, "S_LSA1_UB", K, g) /\ K \in Kerne
  BY GutSelbst DEF Ist
<1>2. g.lsa = K.lsa /\ g.d.festo = K.a /\ K.a \in Anlagen
  BY <1>1, IstTyp DEF Kerne
<1>3. CASE K.a = 1
  <2>1. g.lsa = "NaechsteWSErlaubt"
    BY <1>2, <1>3 DEF Kommt
  <2>2. s_lsa1_ub(g) = RegionenFertig(NaechsteWSErlaubt_s_lsa1_ub(g))
    BY <2>1 DEF s_lsa1_ub
  <2>3. Gut(e, "S_LSA1_UB", K, NaechsteWSErlaubt_s_lsa1_ub(g))
    BY <1>3, GutEinlass1
  <2> QED
    BY <1>1, <2>2, <2>3, GutFertig
<1>4. CASE K.a = 2
  <2>1. g.lsa \in {"WartenAufLSA", "BeginnSortierprozessF2", "WartenAufWSBeiLSA"}
    BY <1>1, <1>4, GutTyp
  <2>2. s_lsa1_ub(g) = RegionenFertig(g)
    BY <1>2, <1>4, <2>1 DEF s_lsa1_ub, WartenAufLSA_s_lsa1_ub, gFesto1
  <2> QED
    BY <1>1, <2>2, GutFertig
<1> QED
  BY <1>2, <1>3, <1>4 DEF Anlagen

LEMMA LSA2Erledigt ==
  ASSUME NEW e, NEW g, NEW K, Ist(e, g, K), Sort(K), Richtig(K), Frisch(K)
  PROVE  Erledigt(e, "S_LSA2_UB", K, BetriebszustandExit(s_lsa2_ub(g)))
<1>1. Gut(e, "S_LSA2_UB", K, g) /\ K \in Kerne
  BY GutSelbst DEF Ist
<1>2. g.lsa = K.lsa /\ g.d.festo = K.a /\ K.a \in Anlagen
  BY <1>1, IstTyp DEF Kerne
<1>3. CASE K.a = 1
  <2>1. g.lsa \in {"BeginnSortierprozessF1", "NaechsteWSErlaubt"}
    BY <1>1, <1>3, GutTyp
  <2>2. s_lsa2_ub(g) = RegionenFertig(g)
    BY <2>1 DEF s_lsa2_ub
  <2> QED
    BY <1>1, <2>2, GutFertig
<1>4. CASE K.a = 2
  <2>1. Gut(e, "S_LSA2_UB", K, WartenAufLSA_s_lsa2_ub(g))
        /\ Gut(e, "S_LSA2_UB", K, BeginnSortierprozessF2_s_lsa2_ub(g))
    BY <1>1, GutFehler DEF WartenAufLSA_s_lsa2_ub, BeginnSortierprozessF2_s_lsa2_ub, Fehlerart,
                           FehlerOrt
  <2>2. Gut(e, "S_LSA2_UB", K, WartenAufWSBeiLSA_s_lsa2_ub(g))
    BY <1>4, GutEinlass2
  <2>3. \/ s_lsa2_ub(g) = RegionenFertig(WartenAufLSA_s_lsa2_ub(g))
        \/ s_lsa2_ub(g) = RegionenFertig(BeginnSortierprozessF2_s_lsa2_ub(g))
        \/ s_lsa2_ub(g) = RegionenFertig(WartenAufWSBeiLSA_s_lsa2_ub(g))
        \/ s_lsa2_ub(g) = RegionenFertig(g)
    BY DEF s_lsa2_ub
  <2> QED
    BY <1>1, <2>1, <2>2, <2>3, GutFertig
<1> QED
  BY <1>2, <1>3, <1>4 DEF Anlagen

LEMMA SensorErledigt ==
  ASSUME NEW e, NEW g, NEW K, Ist(e, g, K), Sort(K), Richtig(K), Frisch(K),
         NEW s \in SensorSignale, Kommt(s, K)
  PROVE  Erledigt(e, s, K, BetriebszustandExit(SensorTrigger(g, s)))
<1>1. Gut(e, s, K, g) /\ K \in Kerne
  BY GutSelbst DEF Ist
<1>2. /\ g.lsa = K.lsa /\ g.d.festo = K.a /\ K.a \in Anlagen
      /\ (g.d.enteredWartenAufErlaubnisVonF2 <=> K.wart = "an")
  BY <1>1, IstTyp DEF Kerne
<1>3. CASE s = "S_LSA1_UB"
  BY <1>3, LSA1Erledigt DEF SensorTrigger
<1>4. CASE s = "S_LSA2_UB"
  BY <1>4, LSA2Erledigt DEF SensorTrigger
<1>5. CASE s = "S_LSH_UB"
  <2>1. SensorTrigger(g, s) = s_lsh_ub(g)
    BY <1>5 DEF SensorTrigger
  <2>2. ~g.d.enteredWartenAufErlaubnisVonF2
    BY <1>1, <1>2, <1>5, GutTyp DEF Kommt, Anlagen
  <2>3. Gut(e, s, K, WartenAufLSH_s_lsh_ub(g)) /\ Gut(e, s, K, WartenAufWSBeiLSH_s_lsh_ub(g))
    BY <1>1, <2>2, GutLSH
  <2>4. \/ s_lsh_ub(g) = RegionenFertig(WartenAufLSH_s_lsh_ub(g))
        \/ s_lsh_ub(g) = RegionenFertig(WartenAufWSBeiLSH_s_lsh_ub(g))
        \/ s_lsh_ub(g) = RegionenFertig(g)
    BY DEF s_lsh_ub
  <2> QED
    BY <1>1, <2>1, <2>3, <2>4, GutFertig
<1>6. CASE s = "S_LSH_NUB"
  <2>1. SensorTrigger(g, s) = s_lsh_nub(g)
    BY <1>6 DEF SensorTrigger
  <2>2. Gut(e, s, K, HoeheMessen_s_lsh_nub(g))
    BY <1>1, GutLSH
  <2>3. \/ s_lsh_nub(g) = RegionenFertig(HoeheMessen_s_lsh_nub(g))
        \/ s_lsh_nub(g) = RegionenFertig(g)
    BY DEF s_lsh_nub
  <2> QED
    BY <1>1, <2>1, <2>2, <2>3, GutFertig
<1>7. CASE s = "S_LSW_UB"
  <2>1. SensorTrigger(g, s) = s_lsw_ub(g)
    BY <1>7 DEF SensorTrigger
  <2>2. Gut(e, s, K, WartenAufLSW_s_lsw_ub(g)) /\ Gut(e, s, K, WartenAufWSBeiLSW_s_lsw_ub(g))
    BY <1>1, GutLSW
  <2>3. \/ s_lsw_ub(g) = RegionenFertig(WartenAufLSW_s_lsw_ub(g))
        \/ s_lsw_ub(g) = RegionenFertig(WartenAufWSBeiLSW_s_lsw_ub(g))
        \/ s_lsw_ub(g) = RegionenFertig(g)
    BY DEF s_lsw_ub
  <2> QED
    BY <1>1, <2>1, <2>2, <2>3, GutFertig
<1>8. CASE s = "S_LSR_UB"
  <2>1. SensorTrigger(g, s) = s_lsr_ub(g)
    BY <1>8 DEF SensorTrigger
  <2>2. Gut(e, s, K, WSAussortieren_s_lsr_ub(g))
    BY <1>1, <1>8, GutLSW
  <2>3. \/ s_lsr_ub(g) = RegionenFertig(WSAussortieren_s_lsr_ub(g))
        \/ s_lsr_ub(g) = RegionenFertig(g)
    BY DEF s_lsr_ub
  <2> QED
    BY <1>1, <2>1, <2>2, <2>3, GutFertig
<1>9. CASE s = "S_LSE1_UB"
  <2> DEFINE h == IF g.lsa = "WartenAufLSA" THEN WartenAufLSA_s_lse1_ub(g) ELSE g
  <2>1. SensorTrigger(g, s) = s_lse1_ub(g)
    BY <1>9 DEF SensorTrigger
  <2>2. Gut(e, s, K, h)
    <3>1. CASE g.lsa = "WartenAufLSA" /\ gFesto2(g) /\ ~g.d.f2_voll
      <4>1. K.a = 2 /\ ~g.d.enteredWartenAufErlaubnisVonF2
        BY <1>1, <1>2, <3>1, GutTyp DEF gFesto2
      <4>2. h = BeginnSortierprozessF2_entry(MotorSchnell(g))
        BY <3>1 DEF WartenAufLSA_s_lse1_ub
      <4> QED
        BY <1>1, <4>1, <4>2, GutMotor, GutLSA2
    <3>2. CASE ~(g.lsa = "WartenAufLSA" /\ gFesto2(g) /\ ~g.d.f2_voll)
      BY <1>1, <3>2 DEF WartenAufLSA_s_lse1_ub
    <3> QED
      BY <3>1, <3>2
  <2>3. \/ s_lse1_ub(g) = RegionenFertig(WartenAufLSE_s_lse1_ub(h))
        \/ /\ h.lse = "WartenAufWSBeiLSE"
           /\ s_lse1_ub(g) = RegionenFertig(WartenAufWSBeiLSE_s_lse1_ub(h))
        \/ s_lse1_ub(g) = RegionenFertig(h)
    BY DEF s_lse1_ub
  <2> HIDE DEF h
  <2>4. /\ Gut(e, s, K, WartenAufLSE_s_lse1_ub(h))
        /\ h.lse = "WartenAufWSBeiLSE" => Gut(e, s, K, WartenAufWSBeiLSE_s_lse1_ub(h))
    BY <2>2, GutLSEHandler
  <2> QED
    BY <1>1, <2>1, <2>2, <2>3, <2>4, GutFertig
<1>10. CASE s = "S_LSE2_UB"
  <2>1. SensorTrigger(g, s) = s_lse2_ub(g)
    BY <1>10 DEF SensorTrigger
  <2>2. Gut(e, s, K, WartenAufLSE_s_lse2_ub(g)) /\ Gut(e, s, K, WartenAufWSBeiLSE_s_lse2_ub(g))
    BY <1>1, GutLSEHandler
  <2>3. \/ s_lse2_ub(g) = RegionenFertig(WartenAufLSE_s_lse2_ub(g))
        \/ s_lse2_ub(g) = RegionenFertig(WartenAufWSBeiLSE_s_lse2_ub(g))
        \/ s_lse2_ub(g) = RegionenFertig(g)
    BY DEF s_lse2_ub
  <2> QED
    BY <1>1, <2>1, <2>2, <2>3, GutFertig
<1>11. CASE s = "S_LSE2_NUB"
  <2>1. SensorTrigger(g, s) = s_lse2_nub(g)
    BY <1>11 DEF SensorTrigger
  <2>2. g.lse = "WartenBisWSEntfernt" => Gut(e, s, K, WartenBisWSEntfernt_s_lse2_nub(g))
    BY <1>1, <1>11, GutLSEHandler
  <2>3. \/ /\ g.lse = "WartenBisWSEntfernt"
           /\ s_lse2_nub(g) = RegionenFertig(WartenBisWSEntfernt_s_lse2_nub(g))
        \/ s_lse2_nub(g) = RegionenFertig(g)
    BY DEF s_lse2_nub
  <2> QED
    BY <1>1, <2>1, <2>2, <2>3, GutFertig
<1> QED
  BY <1>3, <1>4, <1>5, <1>6, <1>7, <1>8, <1>9, <1>10, <1>11 DEF SensorSignale

\* The region timers.
LEMMA TimerErledigt ==
  ASSUME NEW e, NEW g, NEW K, Ist(e, g, K), Sort(K), Richtig(K), Frisch(K), NEW s \in TimerSignale
  PROVE  Erledigt(e, s, K, BetriebszustandExit(TimerTrigger(g, s)))
<1>1. Gut(e, s, K, g) /\ K \in Kerne
  BY GutSelbst DEF Ist
<1>2. /\ g.lsa = K.lsa /\ g.d.festo = K.a /\ K.a \in Anlagen
      /\ (g.lse = "WartenAufErlaubnisVonF2" <=> g.d.enteredWartenAufErlaubnisVonF2)
  BY <1>1, IstTyp, GutTyp DEF Kerne
<1>3. CASE s = "T_LSA_LSH"
  <2> DEFINE h == IF g.lsa = "BeginnSortierprozessF1" THEN NaechsteWSErlaubt_entry(g) ELSE g
  <2>1. TimerTrigger(g, s) = t_lsa_lsh(g)
    BY <1>3 DEF TimerTrigger
  <2>2. g.lsa = "BeginnSortierprozessF1" => K.a = 1
    BY <1>1, <1>2, GutTyp DEF Anlagen
  <2>3. Gut(e, s, K, h)
    BY <1>1, <2>2, GutLampe
  <2>4. \/ t_lsa_lsh(g) = RegionenFertig(WartenAufWSBeiLSH_entry(h))
        \/ t_lsa_lsh(g) = RegionenFertig(h)
    BY DEF t_lsa_lsh
  <2> HIDE DEF h
  <2>5. Gut(e, s, K, WartenAufWSBeiLSH_entry(h))
    BY <2>3, GutLSH
  <2> QED
    BY <1>1, <2>1, <2>3, <2>4, <2>5, GutFertig
<1>4. CASE s = "T_LSH_LSM"
  <2>1. TimerTrigger(g, s) = t_lsh_lsw(g)
    BY <1>4 DEF TimerTrigger
  <2>2. Gut(e, s, K, WartenAufWSBeiLSW_entry(g))
    BY <1>1, GutLSW
  <2>3. \/ t_lsh_lsw(g) = RegionenFertig(WartenAufWSBeiLSW_entry(g))
        \/ t_lsh_lsw(g) = RegionenFertig(g)
    BY DEF t_lsh_lsw
  <2> QED
    BY <1>1, <2>1, <2>2, <2>3, GutFertig
<1>5. CASE s = "T_LSW_LSE"
  <2>1. TimerTrigger(g, s) = t_lsw_lse(g)
    BY <1>5 DEF TimerTrigger
  <2>2. g.lse = "WartenAufLSE" => Gut(e, s, K, WartenAufWSBeiLSE_entry(g))
    BY <1>1, <1>2, GutLSE
  <2>3. \/ /\ g.lse = "WartenAufLSE"
           /\ t_lsw_lse(g) = RegionenFertig(WartenAufWSBeiLSE_entry(g))
        \/ t_lsw_lse(g) = RegionenFertig(g)
    BY DEF t_lsw_lse
  <2> QED
    BY <1>1, <2>1, <2>2, <2>3, GutFertig
<1>6. CASE s = "T_LSW_LSR"
  <2>1. TimerTrigger(g, s) = t_lsw_lsr(g)
    BY <1>6 DEF TimerTrigger
  <2>2. Gut(e, s, K, WSAussortieren_t_lsw_lsr(g))
    BY <1>1, GutLSW
  <2>3. \/ t_lsw_lsr(g) = RegionenFertig(WSAussortieren_t_lsw_lsr(g))
        \/ t_lsw_lsr(g) = RegionenFertig(g)
    BY DEF t_lsw_lsr
  <2> QED
    BY <1>1, <2>1, <2>2, <2>3, GutFertig
<1>7. CASE s = "T_LSE1_LSA2"
  <2>1. TimerTrigger(g, s) = t_lse1_lsa2(g)
    BY <1>7 DEF TimerTrigger
  <2>2. g.lsa = "BeginnSortierprozessF2" => K.a = 2
    BY <1>1, <1>2, GutTyp DEF Anlagen
  <2>3. K.a = 2 => Gut(e, s, K, BeginnSortierprozessF2_t_lse1_lsa2(g))
    BY <1>1, GutLSA2 DEF BeginnSortierprozessF2_t_lse1_lsa2
  <2>4. \/ /\ g.lsa = "BeginnSortierprozessF2"
           /\ t_lse1_lsa2(g) = RegionenFertig(BeginnSortierprozessF2_t_lse1_lsa2(g))
        \/ t_lse1_lsa2(g) = RegionenFertig(g)
    BY DEF t_lse1_lsa2
  <2> QED
    BY <1>1, <2>1, <2>2, <2>3, <2>4, GutFertig
<1>8. CASE s = "T_TOLERANZZEIT_LSA"
  <2>1. TimerTrigger(g, s) = t_toleranzzeit_lsa(g)
    BY <1>8 DEF TimerTrigger
  <2>2. Gut(e, s, K, WartenAufWSBeiLSA_t_toleranzzeit_lsa(g))
    BY <1>1, GutFehler DEF WartenAufWSBeiLSA_t_toleranzzeit_lsa, Fehlerart, FehlerOrt
  <2>3. \/ t_toleranzzeit_lsa(g) = RegionenFertig(WartenAufWSBeiLSA_t_toleranzzeit_lsa(g))
        \/ t_toleranzzeit_lsa(g) = RegionenFertig(g)
    BY DEF t_toleranzzeit_lsa
  <2> QED
    BY <1>1, <2>1, <2>2, <2>3, GutFertig
<1>9. CASE s = "T_TOLERANZZEIT_LSH"
  <2>1. TimerTrigger(g, s) = t_toleranzzeit_lsh(g)
    BY <1>9 DEF TimerTrigger
  <2>2. Gut(e, s, K, WartenAufWSBeiLSH_t_toleranzzeit_lsh(g))
    BY <1>1, GutLSH
  <2>3. \/ t_toleranzzeit_lsh(g) = RegionenFertig(WartenAufWSBeiLSH_t_toleranzzeit_lsh(g))
        \/ t_toleranzzeit_lsh(g) = RegionenFertig(g)
    BY DEF t_toleranzzeit_lsh
  <2> QED
    BY <1>1, <2>1, <2>2, <2>3, GutFertig
<1>10. CASE s = "T_TOLERANZZEIT_LSW"
  <2>1. TimerTrigger(g, s) = t_toleranzzeit_lsw(g)
    BY <1>10 DEF TimerTrigger
  <2>2. Gut(e, s, K, WartenAufWSBeiLSW_t_toleranzzeit_lsw(g))
    BY <1>1, GutLSW
  <2>3. \/ t_toleranzzeit_lsw(g) = RegionenFertig(WartenAufWSBeiLSW_t_toleranzzeit_lsw(g))
        \/ t_toleranzzeit_lsw(g) = RegionenFertig(g)
    BY DEF t_toleranzzeit_lsw
  <2> QED
    BY <1>1, <2>1, <2>2, <2>3, GutFertig
<1>11. CASE s = "T_TOLERANZZEIT_LSE"
  <2>1. TimerTrigger(g, s) = t_toleranzzeit_lse(g)
    BY <1>11 DEF TimerTrigger
  <2>2. Gut(e, s, K, WartenAufWSBeiLSE_t_toleranzzeit_lse(g))
    BY <1>1, GutLSEHandler
  <2>3. \/ t_toleranzzeit_lse(g) = RegionenFertig(WartenAufWSBeiLSE_t_toleranzzeit_lse(g))
        \/ t_toleranzzeit_lse(g) = RegionenFertig(g)
    BY DEF t_toleranzzeit_lse
  <2> QED
    BY <1>1, <2>1, <2>2, <2>3, GutFertig
<1>12. s \in {"T_LSA_LSH", "T_LSH_LSM", "T_LSW_LSE", "T_LSW_LSR", "T_LSE1_LSA2",
              "T_TOLERANZZEIT_LSA", "T_TOLERANZZEIT_LSH", "T_TOLERANZZEIT_LSW", "T_TOLERANZZEIT_LSE"}
  BY DEF TimerSignale, TimerNamen, BandTimer, ZeitPuls, ToleranzPuls
<1> QED
  BY <1>3, <1>4, <1>5, <1>6, <1>7, <1>8, <1>9, <1>10, <1>11, <1>12

\* The other plant and the slides.
LEMMA UebergabeErledigt ==
  ASSUME NEW e, NEW g, NEW K, Ist(e, g, K), Sort(K), Richtig(K), Frisch(K),
         NEW s, s \notin SensorSignale, Kommt(s, K)
  PROVE  Erledigt(e, s, K, BetriebszustandExit(UebergabeTrigger(g, s)))
<1>1. Gut(e, s, K, g) /\ K \in Kerne
  BY GutSelbst DEF Ist
<1>2. g.d.festo = K.a /\ K.a \in Anlagen
  BY <1>1, IstTyp DEF Kerne
<1>3. Erledigt(e, s, K, BetriebszustandExit(RegionenFertig(g)))
  BY <1>1, GutFertig
<1>4. Erledigt(e, s, K, BetriebszustandExit(g))
  <2>1. ~g.exit
    BY IstTyp DEF Frisch
  <2>2. RegionenFertig(g) = g
    BY <2>1 DEF RegionenFertig
  <2> QED
    BY <1>3, <2>2
<1>5. K.n = 0 => Erledigt(e, s, K, BetriebszustandExit(AufWSWartenBetreten(g)))
  BY AufWSWartenErledigt
<1>6. CASE s \in {"S_UEBERGABE_WS", "S_FESTO2_NBEREIT"}
  BY <1>3, <1>6 DEF UebergabeTrigger, s_uebergabe_ws, s_festo2_nbereit
<1>7. CASE s = "S_FESTO2_BEREIT"
  <2>1. UebergabeTrigger(g, s) = s_festo2_bereit(g)
    BY <1>7 DEF UebergabeTrigger
  <2>2. g.lse = "WartenAufErlaubnisVonF2" =>
          Gut(e, s, K, WartenAufErlaubnisVonF2_s_festo2_bereit(g))
    BY <1>1, GutLSEHandler
  <2>3. \/ /\ g.lse = "WartenAufErlaubnisVonF2"
           /\ s_festo2_bereit(g) = RegionenFertig(WartenAufErlaubnisVonF2_s_festo2_bereit(g))
        \/ s_festo2_bereit(g) = RegionenFertig(g)
    BY DEF s_festo2_bereit
  <2> QED
    BY <1>1, <2>1, <2>2, <2>3, GutFertig
<1>8. CASE s = "S_FESTO2_FREI"
  BY <1>2, <1>4, <1>5, <1>8 DEF UebergabeTrigger, s_festo2_frei, gFesto2, Kommt
<1>9. CASE s = "S_FESTO1_STOPPEN"
  BY <1>2, <1>4, <1>5, <1>9 DEF UebergabeTrigger, s_festo1_stoppen, gFesto1, Kommt
<1>10. CASE s = "CMD_FESTOS_FREI"
  BY <1>5, <1>10 DEF UebergabeTrigger, cmd_festos_frei, Kommt
<1>11. CASE s = "EC_RTSCH_VOLL"
  <2>1. UebergabeTrigger(g, s) = ec_rtsch_voll(g)
    BY <1>11 DEF UebergabeTrigger
  <2>2. Gut(e, s, K, WartenAufWarnung_ec_rtsch_voll(g))
    BY <1>1, GutWarnung
  <2>3. \/ ec_rtsch_voll(g) = RegionenFertig(WartenAufWarnung_ec_rtsch_voll(g))
        \/ ec_rtsch_voll(g) = RegionenFertig(g)
    BY DEF ec_rtsch_voll
  <2> QED
    BY <1>1, <2>1, <2>2, <2>3, GutFertig
<1>12. CASE s = "CMD_RTSCH_NV"
  <2>1. UebergabeTrigger(g, s) = cmd_rtsch_nv(g)
    BY <1>12 DEF UebergabeTrigger
  <2>2. Gut(e, s, K, WarnsignalAktivieren_cmd_rtsch_nv(g))
    BY <1>1, GutWarnung
  <2>3. \/ cmd_rtsch_nv(g) = RegionenFertig(WarnsignalAktivieren_cmd_rtsch_nv(g))
        \/ cmd_rtsch_nv(g) = RegionenFertig(g)
    BY DEF cmd_rtsch_nv
  <2> QED
    BY <1>1, <2>1, <2>2, <2>3, GutFertig
<1>13. CASE s \notin {"S_UEBERGABE_WS", "S_FESTO2_NBEREIT", "S_FESTO2_BEREIT", "S_FESTO2_FREI",
                     "S_FESTO1_STOPPEN", "CMD_FESTOS_FREI", "EC_RTSCH_VOLL", "CMD_RTSCH_NV"}
  BY <1>4, <1>13 DEF UebergabeTrigger
<1> QED
  BY <1>6, <1>7, <1>8, <1>9, <1>10, <1>11, <1>12, <1>13

LEMMA SortierungErledigt ==
  ASSUME NEW e, NEW g, NEW K, Ist(e, g, K), Sort(K), Richtig(K), Frisch(K), NEW s, Kommt(s, K)
  PROVE  Erledigt(e, s, K, BetriebszustandExit(SortierungTrigger(g, s)))
<1>1. CASE s \in SensorSignale
  <2>1. SortierungTrigger(g, s) = SensorTrigger(g, s)
    BY <1>1 DEF SortierungTrigger, SensorSignale, TimerSignale, TimerNamen, BandTimer, ZeitPuls,
                ToleranzPuls
  <2> QED
    BY <1>1, <2>1, SensorErledigt
<1>2. CASE s \notin SensorSignale /\ s \in TimerSignale
  BY <1>2, TimerErledigt DEF SortierungTrigger
<1>3. CASE s \notin SensorSignale /\ s \notin TimerSignale
  BY <1>3, UebergabeErledigt DEF SortierungTrigger
<1> QED
  BY <1>1, <1>2, <1>3

-----------------------------------------------------------------------------
(***************************************************************************)
(* A plant that rests begins to sort.                                      *)
(***************************************************************************)
LEMMA IstWarnung ==
  ASSUME NEW e, NEW g, NEW K, Ist(e, g, K)
  PROVE  Ist(e, WartenAufWarnung_entry(g), K)
<1>1. ASSUME NEW h, Ist(e, h, K)
      PROVE  /\ Ist(e, senden(h, "CMD_LED_AMP_GLB_B"), K)
             /\ Ist(e, WarnsignalAktivieren_exit(h), K)
             /\ \A z \in WarnZustand : Ist(e, [h EXCEPT !.warn = z], K)
  BY <1>1, IstBelanglos, IstTyp, StillIst, StilleRegionen DEF Belanglos, WarnsignalAktivieren_exit
<1>2. Ist(e, WarnsignalAktivieren_entry(g), K)
  BY <1>1 DEF WarnsignalAktivieren_entry, WarnZustand
<1> QED
  BY <1>1, <1>2 DEF WartenAufWarnung_entry, WarnZustand

\* Either belt may be started, ...
KSortiert(K, x) == [K EXCEPT !.bz = "Sortierung", !.steht = x]

\* ... plant 1 counts the workpiece it takes in, ...
KBeginn1(K, x) ==
  LET h == KMehr1(KSortiert(K, x))
      g == KSende([h EXCEPT !.lsa = "BeginnSortierprozessF1"], "CMD_LED_Q1_AUS")
  IN  [g EXCEPT !.lse = "WartenAufLSE"]

\* ... plant 2 waits for it.
KBeginn2(K, x, z) == [KSortiert(K, x) EXCEPT !.lsa = z, !.lse = "WartenAufLSE"]

LEMMA IstMotor ==
  ASSUME NEW e, NEW g, NEW K, Ist(e, g, K)
  PROVE  Ist(e, MotorSchnell(g), [K EXCEPT !.steht = "aus"])
<1>1. K \in Kerne
  BY DEF Ist
<1>2. {"CMD_MTR_RECHTS_S"} \cap Wichtig = {} /\ "CMD_MTR_RECHTS_S" # Frei(K.a)
      /\ "CMD_MTR_RECHTS_S" # NichtFrei(K.a)
  BY DEF Wichtig, Frei, NichtFrei
<1>3. K.sig \cup ({"CMD_MTR_RECHTS_S"} \cap Wichtig) = K.sig
  BY <1>2
<1>4. KSende(K, "CMD_MTR_RECHTS_S") = [K EXCEPT !.steht = "aus"]
  BY <1>1, <1>2, <1>3 DEF KSende, Kerne
<1>5. Ist(e, senden(g, "CMD_MTR_RECHTS_S"), KSende(K, "CMD_MTR_RECHTS_S"))
  BY LeiseSignale, IstSenden
<1> QED
  BY <1>4, <1>5 DEF MotorSchnell

LEMMA IstBetreten ==
  ASSUME NEW e, NEW g, NEW K, Ist(e, g, K)
  PROVE  /\ K.a = 1 => \E x \in Schalter : Ist(e, SortierungBetreten(g), KBeginn1(K, x))
         /\ K.a = 2 =>
              \E x \in Schalter, z \in {"BeginnSortierprozessF2", "WartenAufLSA"} :
                Ist(e, SortierungBetreten(g), KBeginn2(K, x, z))
<1> DEFINE p == Sortierung_entry([g EXCEPT !.bz = "Sortierung"])
           q == WartenAufLSA_entry(p)
           Weiter(y) == WartenAufWarnung_entry(
                          WartenAufLSE_entry(WartenAufLSW_entry(WartenAufLSH_entry(y))))
<1>1. SortierungBetreten(g) = Weiter(q)
  BY DEF SortierungBetreten
<1>2. K \in Kerne /\ K.steht \in Schalter
  BY DEF Ist, Kerne
<1>3. \E x \in Schalter : Ist(e, p, KSortiert(K, x))
  <2> DEFINE y == [g EXCEPT !.bz = "Sortierung"]
             Y == [K EXCEPT !.bz = "Sortierung"]
  <2>1. Ist(e, y, Y)
    BY IstFelder
  <2>2. Y = KSortiert(K, K.steht) /\ [Y EXCEPT !.steht = "aus"] = KSortiert(K, "aus")
    BY <1>2 DEF KSortiert, Kerne
  <2> HIDE DEF y, Y
  <2>3. p = MotorSchnell(y) \/ p = y
    BY DEF Sortierung_entry, y
  <2>4. Ist(e, MotorSchnell(y), [Y EXCEPT !.steht = "aus"])
    BY <2>1, IstMotor
  <2> QED
    BY <1>2, <2>1, <2>2, <2>3, <2>4 DEF Schalter
<1>4. PICK x \in Schalter : Ist(e, p, KSortiert(K, x))
  BY <1>3
<1> DEFINE P == KSortiert(K, x)
<1>5. P.a = K.a
  BY <1>2 DEF KSortiert, Kerne
<1>6. ASSUME NEW y, NEW Y, Ist(e, y, Y)
      PROVE  Ist(e, Weiter(y), [Y EXCEPT !.lse = "WartenAufLSE"])
  <2> DEFINE u == WartenAufLSH_entry(y)
             v == [u EXCEPT !.lsw = "WartenAufLSW"]
             w == [v EXCEPT !.d.enteredAussortieren = FALSE]
  <2>1. Ist(e, u, Y)
    BY <1>6, IstTyp, StillIst, StilleRegionen DEF WartenAufLSH_entry, LSHZustand
  <2> HIDE DEF u
  <2>2. Ist(e, v, Y)
    BY <2>1, IstTyp, StillIst, StilleRegionen DEF LSWZustand
  <2>3. WartenAufLSW_entry(u) = w
    BY DEF WartenAufLSW_entry
  <2> HIDE DEF v
  <2>4. Ist(e, w, Y)
    BY <2>2, IstTyp, StillIst, StilleMerker
  <2> HIDE DEF w
  <2>5. Ist(e, WartenAufLSE_entry(w), [Y EXCEPT !.lse = "WartenAufLSE"])
    BY <2>4, IstFelder DEF WartenAufLSE_entry, LSEZustand
  <2> QED
    BY <2>3, <2>5, IstWarnung DEF u
<1> HIDE DEF p, P, Weiter
<1>7. CASE K.a = 1
  <2> DEFINE u == starte(p, "lsh")
             v == addWS_F1(u)
             V == KMehr1(P)
             w == [v EXCEPT !.lsa = "BeginnSortierprozessF1"]
             W == [V EXCEPT !.lsa = "BeginnSortierprozessF1"]
             k == senden(w, "CMD_LED_Q1_AUS")
             L == KSende(W, "CMD_LED_Q1_AUS")
  <2>1. p.d.festo = 1
    BY <1>4, <1>5, <1>7, IstTyp DEF P
  <2>2. q = k
    BY <2>1 DEF WartenAufLSA_entry, BeginnSortierprozessF1_entry, gFesto1, gFesto2
  <2>3. Ist(e, u, P)
    BY <1>4, StilleTimer, StillIst DEF Ist, TimerNamen, P
  <2> HIDE DEF u
  <2>4. Ist(e, v, V)
    BY <2>3, IstMehr
  <2>5. KBeginn1(K, x) = [L EXCEPT !.lse = "WartenAufLSE"]
    BY DEF KBeginn1, P
  <2> HIDE DEF v, V
  <2>6. Ist(e, w, W)
    BY <2>4, IstFelder DEF LSAZustand
  <2> HIDE DEF w, W
  <2>7. Ist(e, k, L)
    BY <2>6, LeiseSignale, IstSenden
  <2> HIDE DEF k, L, q
  <2>8. Ist(e, Weiter(q), KBeginn1(K, x))
    BY <1>6, <2>2, <2>5, <2>7
  <2> QED
    BY <1>1, <1>7, <2>8
<1>8. CASE K.a = 2
  <2>1. p.d.festo = 2 /\ P \in Kerne
    BY <1>4, <1>5, <1>8, IstTyp DEF P
  <2>2. CASE ~p.d.f2_voll
    <3> DEFINE u == MotorSchnell(p)
               U == [P EXCEPT !.steht = "aus"]
               v == [u EXCEPT !.lsa = "BeginnSortierprozessF2"]
               V == [U EXCEPT !.lsa = "BeginnSortierprozessF2"]
    <3>1. q = v
      BY <2>1, <2>2 DEF WartenAufLSA_entry, BeginnSortierprozessF2_entry, gFesto1, gFesto2
    <3>2. Ist(e, u, U)
      BY <1>4, IstMotor DEF P
    <3>3. [V EXCEPT !.lse = "WartenAufLSE"] = KBeginn2(K, "aus", "BeginnSortierprozessF2")
      BY <1>2 DEF KBeginn2, KSortiert, P, Kerne
    <3> HIDE DEF u, U
    <3>4. Ist(e, v, V)
      BY <3>2, IstFelder DEF LSAZustand
    <3> HIDE DEF v, V, q
    <3>5. Ist(e, Weiter(q), KBeginn2(K, "aus", "BeginnSortierprozessF2"))
      BY <1>6, <3>1, <3>3, <3>4
    <3> QED
      BY <1>1, <1>8, <3>5 DEF Schalter
  <2>3. CASE p.d.f2_voll
    <3> DEFINE v == [p EXCEPT !.lsa = "WartenAufLSA"]
               V == [P EXCEPT !.lsa = "WartenAufLSA"]
    <3>1. q = v
      BY <2>1, <2>3 DEF WartenAufLSA_entry, gFesto1, gFesto2
    <3>2. [V EXCEPT !.lse = "WartenAufLSE"] = KBeginn2(K, x, "WartenAufLSA")
      BY <1>2 DEF KBeginn2, KSortiert, P, Kerne
    <3>3. Ist(e, v, V)
      BY <1>4, IstFelder DEF LSAZustand, P
    <3> HIDE DEF v, V, q
    <3>4. Ist(e, Weiter(q), KBeginn2(K, x, "WartenAufLSA"))
      BY <1>6, <3>1, <3>2, <3>3
    <3> QED
      BY <1>1, <1>8, <3>4
  <2> QED
    BY <2>2, <2>3
<1> QED
  BY <1>2, <1>7, <1>8 DEF Kerne, Anlagen

LEMMA RuheErledigt ==
  ASSUME NEW e, NEW g, NEW K, Ist(e, g, K), Ruht(K), Richtig(K), Frisch(K), NEW s
  PROVE  Erledigt(e, s, K, AufWSWartenTrigger(g, s))
<1>1. K \in Kerne /\ g.d.festo = K.a /\ K.a \in Anlagen
  BY IstTyp DEF Kerne
<1>2. K.wart = "aus" /\ K.n = 0
  BY <1>1 DEF Richtig, WartenBekannt, RuhtLeer, Ruht, Sort, Kerne, Schalter
<1>3. CASE s = "S_LSA1_UB" /\ K.a = 1
  <2> DEFINE h == starte(g, "lsh")
  <2>1. AufWSWartenTrigger(g, s) = SortierungBetreten(h)
    BY <1>1, <1>3 DEF AufWSWartenTrigger, AufWSWarten_s_lsa1_ub, gFesto1
  <2>2. Ist(e, h, K)
    BY StilleTimer, StillIst DEF Ist, TimerNamen
  <2> HIDE DEF h
  <2>3. PICK x \in Schalter : Ist(e, SortierungBetreten(h), KBeginn1(K, x))
    BY <1>3, <2>2, IstBetreten
  <2> DEFINE P == KSortiert(K, x)
             V == KMehr1(P)
             W == [V EXCEPT !.lsa = "BeginnSortierprozessF1"]
             L == KBeginn1(K, x)
  <2>4. /\ P \in Kerne /\ P.a = 1 /\ P.n = 0 /\ P.f2b = K.f2b /\ P.f1 = K.f1 /\ P.f2 = K.f2
        /\ P.zu = "Betriebszustand" /\ P.bz = "Sortierung" /\ P.wart = "aus"
        /\ P.sig = {} /\ P.exit = "aus" /\ P.verl = K.verl /\ P.ort = K.ort
    BY <1>1, <1>2, <1>3 DEF KSortiert, Kerne, Ruht, Frisch
  <2>5. L = [KSende(W, "CMD_LED_Q1_AUS") EXCEPT !.lse = "WartenAufLSE"]
    BY DEF KBeginn1
  <2>6. K.verl = "aus" /\ K.ort # "LSA1"
    BY DEF Richtig, OhneFehler
  <2> HIDE DEF P
  <2>7. V \in Kerne /\ V.a = 1 /\ V.n = 1 /\ V.f2b = K.f2b /\ V.f1 = K.f1 /\ V.f2 = K.f2
        /\ V.zu = "Betriebszustand" /\ V.bz = "Sortierung" /\ V.wart = "aus" /\ V.frei = "aus"
        /\ V.sig = {"S_FESTO1_NFREI"} /\ V.exit = "aus" /\ V.verl = K.verl /\ V.ort = K.ort
    <3> DEFINE A == [P EXCEPT !.n = P.n + 1]
    <3>1. /\ A \in Kerne /\ A.a = 1 /\ A.n = 1 /\ A.f2b = K.f2b /\ A.f1 = K.f1 /\ A.f2 = K.f2
          /\ A.zu = "Betriebszustand" /\ A.bz = "Sortierung" /\ A.wart = "aus"
          /\ A.sig = {} /\ A.exit = "aus" /\ A.verl = K.verl /\ A.ort = K.ort
      BY <2>4 DEF Kerne
    <3> HIDE DEF A
    <3>2. V = KSende(A, "S_FESTO1_NFREI")
      BY DEF KMehr1, A
    <3>3. V.sig = {"S_FESTO1_NFREI"} /\ V.frei = "aus"
      BY <3>1, <3>2 DEF KSende, Kerne, Wichtig, Frei, NichtFrei
    <3> HIDE DEF V
    <3> QED
      BY <3>1, <3>2, <3>3, KSendeFelder
  <2> HIDE DEF V
  <2>8. Richtig(L) /\ L.exit = "aus"
    BY <2>5, <2>6, <2>7 DEF KSende, Kerne, Sort, Ruht, Richtig, EigeneRegionen, WartenBekannt,
         StehtRichtig, LampeRichtig, BereitRichtig, WartetZuRecht, FreiRichtig, RuhtLeer, OhneFehler,
         Frei, NichtFrei
  <2>9. Wirkung(s, K, L)
    BY <1>3, <2>5, <2>7 DEF KSende, Kerne, Wirkung, Bleiben, NurEigene, MeldetFrei,
         ZaehltAmEingang, Eingang, Wichtig, Sensoren
  <2> HIDE DEF L
  <2> QED
    BY <2>1, <2>3, <2>8, <2>9 DEF Erledigt, Ist, L
<1>4. CASE s = "S_WS_AN_FESTO2" /\ K.a = 2
  <2>1. AufWSWartenTrigger(g, s) = SortierungBetreten(g)
    BY <1>1, <1>4 DEF AufWSWartenTrigger, AufWSWarten_s_ws_an_festo2, gFesto2
  <2>2. PICK x \in Schalter, z \in {"BeginnSortierprozessF2", "WartenAufLSA"} :
          Ist(e, SortierungBetreten(g), KBeginn2(K, x, z))
    BY <1>4, IstBetreten
  <2> DEFINE L == KBeginn2(K, x, z)
  <2>3. Richtig(L) /\ L.exit = "aus"
    BY <1>1, <1>2, <1>4 DEF KBeginn2, KSortiert, Kerne, Sort, Ruht, Richtig, EigeneRegionen,
         WartenBekannt, StehtRichtig, LampeRichtig, BereitRichtig, WartetZuRecht, FreiRichtig,
         RuhtLeer, OhneFehler, Frisch
  <2>4. Wirkung(s, K, L)
    BY <1>1, <1>2, <1>4 DEF KBeginn2, KSortiert, Kerne, Wirkung, Bleiben, NurEigene, MeldetFrei,
         ZaehltAmEingang, Frisch
  <2> HIDE DEF L
  <2> QED
    BY <2>1, <2>2, <2>3, <2>4 DEF Erledigt, Ist, L
<1>5. CASE ~(s = "S_LSA1_UB" /\ K.a = 1) /\ ~(s = "S_WS_AN_FESTO2" /\ K.a = 2)
  <2>1. AufWSWartenTrigger(g, s) = g
    BY <1>1, <1>5 DEF AufWSWartenTrigger, AufWSWarten_s_lsa1_ub, AufWSWarten_s_ws_an_festo2,
                      gFesto1, gFesto2, Anlagen
  <2> QED
    BY <2>1, ErledigtSelbst
<1> QED
  BY <1>3, <1>4, <1>5

-----------------------------------------------------------------------------
(***************************************************************************)
(* The root machine and Context::handleEvent.                              *)
(***************************************************************************)
LEMMA TriggerErledigt ==
  ASSUME NEW e, NEW g, NEW K, Ist(e, g, K), Richtig(K), Frisch(K), NEW s, Kommt(s, K)
  PROVE  Erledigt(e, s, K, trigger(g, s))
<1>1. g.zustand = K.zu /\ g.bz = K.bz /\ K.bz \in {"AufWSWarten", "Sortierung"}
  BY IstTyp DEF Kerne
<1>2. CASE g.zustand # "Betriebszustand"
  BY <1>2, ErledigtSelbst DEF trigger
<1>3. CASE g.zustand = "Betriebszustand" /\ s = "S_PARTNER_FEHLER"
  <2>1. trigger(g, s) = s_partner_fehler(g)
    BY <1>3 DEF trigger
  <2> QED
    BY <2>1, PartnerErledigt
<1>4. CASE g.zustand = "Betriebszustand" /\ g.bz = "Sortierung" /\ s # "S_PARTNER_FEHLER"
  <2>1. trigger(g, s) = BetriebszustandExit(SortierungTrigger(g, s))
    BY <1>4 DEF trigger
  <2>2. Sort(K)
    BY <1>1, <1>4 DEF Sort
  <2> QED
    BY <2>1, <2>2, SortierungErledigt
<1>5. CASE g.zustand = "Betriebszustand" /\ g.bz # "Sortierung" /\ s # "S_PARTNER_FEHLER"
  <2>1. trigger(g, s) = AufWSWartenTrigger(g, s)
    BY <1>5 DEF trigger
  <2>2. Ruht(K)
    BY <1>1, <1>5 DEF Ruht
  <2> QED
    BY <2>1, <2>2, RuheErledigt
<1> QED
  BY <1>2, <1>3, <1>4, <1>5

\* Plant 1 does not wait for a permission that it has been given.
LEMMA BereitWartetNicht ==
  ASSUME NEW e, NEW g, NEW K, Ist(e, g, K), Richtig(K), Frisch(K)
  PROVE  ~trigger(g, "S_FESTO2_BEREIT").d.enteredWartenAufErlaubnisVonF2
<1>1. /\ g.zustand = K.zu /\ g.bz = K.bz /\ K.bz \in {"AufWSWarten", "Sortierung"} /\ K \in Kerne
      /\ (g.d.enteredWartenAufErlaubnisVonF2 <=> K.wart = "an")
  BY IstTyp DEF Kerne
<1>2. CASE ~Sort(K)
  <2>1. trigger(g, "S_FESTO2_BEREIT") = g
    BY <1>1, <1>2 DEF trigger, AufWSWartenTrigger, Sort
  <2>2. K.wart # "an"
    BY <1>2 DEF Richtig, WartenBekannt
  <2> QED
    BY <1>1, <2>1, <2>2
<1>3. CASE Sort(K)
  <2> DEFINE s == "S_FESTO2_BEREIT"
             w == WartenAufErlaubnisVonF2_s_festo2_bereit(g)
  <2>1. trigger(g, s) = BetriebszustandExit(s_festo2_bereit(g))
    <3>1. trigger(g, s) = BetriebszustandExit(SortierungTrigger(g, s))
      BY <1>1, <1>3 DEF trigger, Sort
    <3>2. s \notin SensorSignale /\ s \notin TimerSignale
      BY DEF SensorSignale, TimerSignale, TimerNamen, BandTimer, ZeitPuls, ToleranzPuls
    <3>3. SortierungTrigger(g, s) = s_festo2_bereit(g)
      BY <3>2 DEF SortierungTrigger, UebergabeTrigger
    <3> QED
      BY <3>1, <3>3
  <2>2. Gut(e, s, K, g)
    BY <1>3, GutSelbst
  <2>3. CASE g.lse = "WartenAufErlaubnisVonF2"
    <3>1. Gut(e, s, K, w) /\ ~w.d.enteredWartenAufErlaubnisVonF2
      BY <2>2, <2>3, GutLSEHandler
    <3>2. s_festo2_bereit(g) = RegionenFertig(w)
      BY <2>3 DEF s_festo2_bereit
    <3> HIDE DEF w
    <3> QED
      BY <1>1, <2>1, <3>1, <3>2, GutFertig
  <2>4. CASE g.lse # "WartenAufErlaubnisVonF2"
    <3>1. ~g.d.enteredWartenAufErlaubnisVonF2
      BY <2>2, <2>4, GutTyp
    <3>2. s_festo2_bereit(g) = RegionenFertig(g)
      BY <2>4 DEF s_festo2_bereit
    <3> QED
      BY <1>1, <2>1, <2>2, <3>1, <3>2, GutFertig
  <2> QED
    BY <2>3, <2>4
<1> QED
  BY <1>2, <1>3

\* What the plant takes from the pulse s.
Gewusst(s, K, L) ==
  /\ L.a = K.a
  /\ L.f2b = IF s = "S_FESTO2_BEREIT" THEN "an"
             ELSE IF s = "S_FESTO2_NBEREIT" THEN "aus" ELSE K.f2b
  /\ L.f1 = IF s = "S_FESTO1_FREI" THEN "an" ELSE IF s = "S_FESTO1_NFREI" THEN "aus" ELSE K.f1
  /\ L.f2 = IF s = "S_FESTO2_FREI" THEN "an" ELSE IF s = "S_FESTO2_NFREI" THEN "aus" ELSE K.f2

Folgen(s, K, L) ==
  /\ Gewusst(s, K, L) /\ NurEigene(K, L) /\ MeldetFrei(s, K, L) /\ ZaehltAmEingang(s, K, L)

\* A plant whose core was K has handled the pulse s and is h now.
Verarbeitet(e, s, K, h) ==
  \E L \in Kerne : Ist(e, h, L) /\ Richtig(L) /\ L.exit = "aus" /\ Folgen(s, K, L)

Nachrichten == {"S_FESTO2_BEREIT", "S_FESTO2_NBEREIT", "S_FESTO1_FREI", "S_FESTO1_NFREI",
                "S_FESTO2_FREI", "S_FESTO2_NFREI"}

LEMMA ErledigtVerarbeitet ==
  ASSUME NEW e, NEW h, NEW K, NEW s, s \notin Nachrichten, Erledigt(e, s, K, h)
  PROVE  Verarbeitet(e, s, K, h)
  BY DEF Erledigt, Verarbeitet, Wirkung, Folgen, Bleiben, Gewusst, Nachrichten

LEMMA ErledigtAnders ==
  ASSUME NEW e, NEW h, NEW K, NEW s, s \notin Sensoren, NEW x, x \notin Sensoren,
         Erledigt(e, s, K, h)
  PROVE  Erledigt(e, x, K, h)
<1>1. PICK L \in Kerne : Ist(e, h, L) /\ Richtig(L) /\ L.exit = "aus" /\ Wirkung(s, K, L)
  BY DEF Erledigt
<1>2. Eingang(K.a) \in Sensoren
  BY DEF Eingang, Sensoren
<1>3. MeldetFrei(x, K, L)
  BY <1>1 DEF Wirkung, MeldetFrei, Sensoren
<1>4. ZaehltAmEingang(x, K, L)
  <2>1. s # Eingang(K.a) /\ s # "S_LSA1_UB"
    BY <1>2 DEF Sensoren
  <2> QED
    BY <1>1, <2>1 DEF Wirkung, ZaehltAmEingang
<1> QED
  BY <1>1, <1>3, <1>4 DEF Erledigt, Wirkung

LEMMA StillErledigt ==
  ASSUME NEW e, NEW g, NEW h, NEW K, Ist(e, g, K), Richtig(K), Frisch(K), Still(g, h), NEW s
  PROVE  Erledigt(e, s, K, h)
<1>1. Ist(e, h, K)
  BY StillIst
<1> QED
  BY <1>1, ErledigtSelbst

LEMMA StillTrigger ==
  ASSUME NEW e, NEW g, NEW h, NEW K, Ist(e, g, K), Richtig(K), Frisch(K), Still(g, h),
         NEW s, Kommt(s, K)
  PROVE  Erledigt(e, s, K, trigger(h, s))
<1>1. Ist(e, h, K)
  BY StillIst
<1> QED
  BY <1>1, TriggerErledigt

LEMMA SensorVerarbeitet ==
  ASSUME NEW e, NEW g, NEW K, Ist(e, g, K), Richtig(K), Frisch(K),
         NEW m \in Puls, m.sig \in SensorSignale \cup {"S_METAL_AN"}, Kommt(m.sig, K)
  PROVE  Erledigt(e, m.sig, K, handleSensor(g, m))
<1>1. g \in Maschine /\ Still(g, g)
  BY IstTyp, StillSelbst
<1>2. Still(g, registerId1(g)) /\ Still(g, registerId3(g))
  BY <1>1, StilleListe
<1>3. handleSensor(g, m) \in {trigger(registerId1(g), m.sig), registerId3(g), trigger(g, m.sig)}
  BY DEF handleSensor
<1>4. Erledigt(e, m.sig, K, trigger(registerId1(g), m.sig))
  BY <1>2, StillTrigger
<1>5. Erledigt(e, m.sig, K, trigger(g, m.sig))
  BY TriggerErledigt
<1>6. Erledigt(e, m.sig, K, registerId3(g))
  BY <1>2, StillErledigt
<1> QED
  BY <1>3, <1>4, <1>5, <1>6

LEMMA RutscheVerarbeitet ==
  ASSUME NEW e, NEW g, NEW K, Ist(e, g, K), Richtig(K), Frisch(K),
         NEW m \in Puls, m.sig \in RutscheSignale
  PROVE  Erledigt(e, m.sig, K, handleRutsche(g, m))
<1> DEFINE voll == m.sig \in {"EC_RTSCH1_VOLL", "EC_RTSCH2_VOLL"}
           sig == IF voll THEN "EC_RTSCH_VOLL" ELSE "CMD_RTSCH_NV"
           zweite == m.sig \in {"EC_RTSCH2_VOLL", "CMD_RTSCH2_NV"}
           h == IF zweite THEN [g EXCEPT !.d.rutsche2_voll = voll] ELSE g
           k == [h EXCEPT !.d.rutsche_voll = voll]
<1>1. g \in Maschine /\ Still(g, g)
  BY IstTyp, StillSelbst
<1>2. voll \in BOOLEAN
  OBVIOUS
<1>3. sig \notin Sensoren /\ m.sig \notin Sensoren /\ Kommt(sig, K)
  BY DEF Sensoren, RutscheSignale, Kommt
<1>4. \/ handleRutsche(g, m) = h
      \/ handleRutsche(g, m) = trigger(k, sig)
  BY DEF handleRutsche
<1> HIDE DEF voll, sig, zweite
<1>5. Still(g, h) /\ h \in Maschine
  <2>1. Still(g, [g EXCEPT !.d.rutsche2_voll = voll])
    BY <1>1, <1>2, StilleMerker
  <2> QED
    BY <1>1, <2>1 DEF Still
<1> HIDE DEF h
<1>6. Still(h, k)
  BY <1>2, <1>5, StilleMerker
<1> HIDE DEF k
<1>7. Still(g, k)
  BY <1>5, <1>6, StillWeiter
<1>8. Erledigt(e, sig, K, trigger(k, sig))
  BY <1>3, <1>7, StillTrigger
<1>9. Erledigt(e, m.sig, K, trigger(k, sig))
  BY <1>3, <1>8, ErledigtAnders
<1>10. Erledigt(e, m.sig, K, h)
  BY <1>5, StillErledigt
<1> QED
  BY <1>4, <1>9, <1>10

\* A plant notes whether a plant is free before it handles the pulse, ...
Merkt1(g, s) == [g EXCEPT !.d.festo1Frei = (s = "S_FESTO1_FREI")]
Merkt2(g, s) == [g EXCEPT !.d.festo2Frei = (s = "S_FESTO2_FREI")]

LEMMA FreiVerarbeitet ==
  ASSUME NEW e, NEW g, NEW K, Ist(e, g, K), Richtig(K), Frisch(K),
         NEW s \in {"S_FESTO1_FREI", "S_FESTO1_NFREI", "S_FESTO2_FREI", "S_FESTO2_NFREI"},
         Kommt(s, K)
  PROVE  /\ s \in {"S_FESTO1_FREI", "S_FESTO1_NFREI"} =>
              Verarbeitet(e, s, K, trigger(Merkt1(g, s), s))
         /\ s \in {"S_FESTO2_FREI", "S_FESTO2_NFREI"} =>
              Verarbeitet(e, s, K, trigger(Merkt2(g, s), s))
<1>1. K \in Kerne
  BY DEF Ist
<1>2. ASSUME NEW h, NEW L, Ist(e, h, L), L.a = K.a, L.f2b = K.f2b,
             L.f1 = IF s = "S_FESTO1_FREI" THEN "an"
                    ELSE IF s = "S_FESTO1_NFREI" THEN "aus" ELSE K.f1,
             L.f2 = IF s = "S_FESTO2_FREI" THEN "an"
                    ELSE IF s = "S_FESTO2_NFREI" THEN "aus" ELSE K.f2,
             Rest([L EXCEPT !.f1 = K.f1, !.f2 = K.f2]) = Rest(K),
             L.n = K.n, L.bereit = K.bereit, L.frei = K.frei, L.sig = K.sig
      PROVE  Verarbeitet(e, s, K, trigger(h, s))
  <2>1. L \in Kerne
    BY <1>2 DEF Ist
  <2>2. /\ L.zu = K.zu /\ L.bz = K.bz /\ L.lsa = K.lsa /\ L.lse = K.lse /\ L.exit = K.exit
        /\ L.ort = K.ort /\ L.wart = K.wart /\ L.verl = K.verl /\ L.steht = K.steht /\ L.q1 = K.q1
    BY <1>1, <1>2, <2>1 DEF Rest, Kerne
  <2>3. Frisch(L)
    BY <1>2, <2>2 DEF Frisch
  <2>4. Kommt(s, L)
    BY <1>2, <2>2 DEF Kommt, Sort
  <2>5. Richtig(L)
    BY <1>2, <2>2 DEF Richtig, EigeneRegionen, WartenBekannt, StehtRichtig, LampeRichtig,
          BereitRichtig, WartetZuRecht, FreiRichtig, RuhtLeer, OhneFehler, Sort, Ruht
  <2>6. Erledigt(e, s, L, trigger(h, s))
    BY <1>2, <2>3, <2>4, <2>5, TriggerErledigt
  <2>7. PICK M \in Kerne :
          Ist(e, trigger(h, s), M) /\ Richtig(M) /\ M.exit = "aus" /\ Wirkung(s, L, M)
    BY <2>6 DEF Erledigt
  <2>8. Gewusst(s, K, M)
    BY <1>2, <2>7 DEF Gewusst, Wirkung, Bleiben
  <2>9. NurEigene(K, M)
    BY <1>2, <2>7 DEF NurEigene, Wirkung
  <2>10. MeldetFrei(s, K, M)
    BY <1>2, <2>7 DEF MeldetFrei, Wirkung
  <2>11. ZaehltAmEingang(s, K, M)
    BY <1>2, <2>7 DEF ZaehltAmEingang, Wirkung
  <2> QED
    BY <2>7, <2>8, <2>9, <2>10, <2>11 DEF Verarbeitet, Folgen
<1>3. CASE s \in {"S_FESTO1_FREI", "S_FESTO1_NFREI"}
  <2> DEFINE b == s = "S_FESTO1_FREI"
             h == [g EXCEPT !.d.festo1Frei = b]
             L == [K EXCEPT !.f1 = An(b)]
  <2>1. b \in BOOLEAN
    OBVIOUS
  <2>2. An(b) = IF s = "S_FESTO1_FREI" THEN "an" ELSE "aus"
    BY DEF An
  <2> HIDE DEF b
  <2>3. Ist(e, h, L)
    BY <2>1, IstDaten
  <2>4. /\ L.a = K.a /\ L.f2b = K.f2b /\ L.f1 = An(b) /\ L.f2 = K.f2 /\ L.n = K.n
        /\ L.bereit = K.bereit /\ L.frei = K.frei /\ L.sig = K.sig
        /\ Rest([L EXCEPT !.f1 = K.f1, !.f2 = K.f2]) = Rest(K)
    BY <1>1 DEF Kerne, Rest
  <2> HIDE DEF h, L
  <2>5. Verarbeitet(e, s, K, trigger(h, s))
    BY <1>2, <1>3, <2>2, <2>3, <2>4
  <2> QED
    BY <1>3, <2>5 DEF h, b, Merkt1
<1>4. CASE s \in {"S_FESTO2_FREI", "S_FESTO2_NFREI"}
  <2> DEFINE b == s = "S_FESTO2_FREI"
             h == [g EXCEPT !.d.festo2Frei = b]
             L == [K EXCEPT !.f2 = An(b)]
  <2>1. b \in BOOLEAN
    OBVIOUS
  <2>2. An(b) = IF s = "S_FESTO2_FREI" THEN "an" ELSE "aus"
    BY DEF An
  <2> HIDE DEF b
  <2>3. Ist(e, h, L)
    BY <2>1, IstDaten
  <2>4. /\ L.a = K.a /\ L.f2b = K.f2b /\ L.f2 = An(b) /\ L.f1 = K.f1 /\ L.n = K.n
        /\ L.bereit = K.bereit /\ L.frei = K.frei /\ L.sig = K.sig
        /\ Rest([L EXCEPT !.f1 = K.f1, !.f2 = K.f2]) = Rest(K)
    BY <1>1 DEF Kerne, Rest
  <2> HIDE DEF h, L
  <2>5. Verarbeitet(e, s, K, trigger(h, s))
    BY <1>2, <1>4, <2>2, <2>3, <2>4
  <2> QED
    BY <1>4, <2>5 DEF h, b, Merkt2
<1> QED
  BY <1>3, <1>4

\* ... whether plant 2 is ready after it.
LEMMA BereitVerarbeitet ==
  ASSUME NEW e, NEW g, NEW K, Ist(e, g, K), Richtig(K), Frisch(K),
         NEW b \in BOOLEAN, NEW s, s = IF b THEN "S_FESTO2_BEREIT" ELSE "S_FESTO2_NBEREIT"
  PROVE  Verarbeitet(e, s, K, [trigger([g EXCEPT !.d.f2_voll = ~b], s) EXCEPT !.d.f2_bereit = b])
<1> DEFINE h == [g EXCEPT !.d.f2_voll = ~b]
           r == trigger(h, s)
<1>1. g \in Maschine /\ (~b) \in BOOLEAN
  BY IstTyp
<1>2. Still(g, h)
  BY <1>1, StilleMerker
<1> HIDE DEF h
<1>3. Ist(e, h, K)
  BY <1>2, StillIst
<1>4. Kommt(s, K)
  BY DEF Kommt
<1>5. Erledigt(e, s, K, r)
  BY <1>3, <1>4, TriggerErledigt
<1>6. b => ~r.d.enteredWartenAufErlaubnisVonF2
  BY <1>3, BereitWartetNicht
<1> HIDE DEF r
<1>7. PICK L \in Kerne : Ist(e, r, L) /\ Richtig(L) /\ L.exit = "aus" /\ Wirkung(s, K, L)
  BY <1>5 DEF Erledigt
<1> DEFINE M == [L EXCEPT !.f2b = An(b)]
<1>8. Ist(e, [r EXCEPT !.d.f2_bereit = b], M)
  BY <1>7, IstDaten
<1>9. b => L.wart = "aus"
  BY <1>6, <1>7, IstTyp DEF Kerne, Schalter
<1>10. /\ M \in Kerne /\ M.f2b = An(b) /\ M.a = L.a /\ M.zu = L.zu /\ M.bz = L.bz /\ M.lsa = L.lsa
       /\ M.lse = L.lse /\ M.exit = L.exit /\ M.ort = L.ort /\ M.n = L.n /\ M.wart = L.wart
       /\ M.verl = L.verl /\ M.f1 = L.f1 /\ M.f2 = L.f2 /\ M.steht = L.steht /\ M.q1 = L.q1
       /\ M.bereit = L.bereit /\ M.frei = L.frei /\ M.sig = L.sig
  BY <1>8 DEF Ist, Kerne
<1> HIDE DEF M
<1>11. Richtig(M)
  BY <1>7, <1>9, <1>10 DEF Richtig, EigeneRegionen, WartenBekannt, StehtRichtig, LampeRichtig,
          BereitRichtig, WartetZuRecht, FreiRichtig, RuhtLeer, OhneFehler, Sort, Ruht, An
<1>12. Gewusst(s, K, M)
  BY <1>7, <1>10 DEF Gewusst, Wirkung, Bleiben, An
<1>13. NurEigene(K, M) /\ MeldetFrei(s, K, M) /\ ZaehltAmEingang(s, K, M)
  BY <1>7, <1>10 DEF NurEigene, MeldetFrei, ZaehltAmEingang, Wirkung
<1> QED
  BY <1>7, <1>8, <1>10, <1>11, <1>12, <1>13 DEF Verarbeitet, Folgen, h, r

LEMMA UebergabeVerarbeitet ==
  ASSUME NEW e, NEW g, NEW K, Ist(e, g, K), Richtig(K), Frisch(K),
         NEW m \in Puls, m.sig \in UebergabeSignale, Kommt(m.sig, K)
  PROVE  Verarbeitet(e, m.sig, K, handleUebergabe(g, m))
<1>1. g \in Maschine /\ Still(g, g)
  BY IstTyp, StillSelbst
<1>2. CASE m.sig = "S_UEBERGABE_WS"
  <2> DEFINE h == IF gFesto2(g) THEN empfangeTypVonF1(g, m.wert) ELSE g
  <2>1. m.wert \in WerkstueckTyp
    BY <1>2 DEF Puls
  <2>2. Still(g, h)
    BY <1>1, <2>1, StilleFolge
  <2>3. handleUebergabe(g, m) = trigger(h, m.sig)
    BY <1>2 DEF handleUebergabe
  <2> HIDE DEF h
  <2>4. Erledigt(e, m.sig, K, trigger(h, m.sig))
    BY <2>2, StillTrigger
  <2>5. m.sig \notin Nachrichten
    BY <1>2 DEF Nachrichten
  <2> QED
    BY <2>3, <2>4, <2>5, ErledigtVerarbeitet
<1>3. CASE m.sig = "S_FESTO2_BEREIT"
  <2>1. handleUebergabe(g, m)
          = [trigger([g EXCEPT !.d.f2_voll = FALSE], m.sig) EXCEPT !.d.f2_bereit = TRUE]
    BY <1>3 DEF handleUebergabe
  <2>2. Verarbeitet(e, m.sig, K,
          [trigger([g EXCEPT !.d.f2_voll = ~TRUE], m.sig) EXCEPT !.d.f2_bereit = TRUE])
    BY <1>3, BereitVerarbeitet
  <2> QED
    BY <2>1, <2>2
<1>4. CASE m.sig = "S_FESTO2_NBEREIT"
  <2>1. handleUebergabe(g, m)
          = [trigger([g EXCEPT !.d.f2_voll = TRUE], m.sig) EXCEPT !.d.f2_bereit = FALSE]
    BY <1>4 DEF handleUebergabe
  <2>2. Verarbeitet(e, m.sig, K,
          [trigger([g EXCEPT !.d.f2_voll = ~FALSE], m.sig) EXCEPT !.d.f2_bereit = FALSE])
    BY <1>4, BereitVerarbeitet
  <2> QED
    BY <2>1, <2>2
<1>5. CASE m.sig \in {"S_FESTO1_FREI", "S_FESTO1_NFREI"}
  <2>1. handleUebergabe(g, m)
          = trigger([g EXCEPT !.d.festo1Frei = (m.sig = "S_FESTO1_FREI")], m.sig)
    BY <1>5 DEF handleUebergabe
  <2>2. handleUebergabe(g, m) = trigger(Merkt1(g, m.sig), m.sig)
    BY <2>1 DEF Merkt1
  <2> QED
    BY <1>5, <2>2, FreiVerarbeitet
<1>6. CASE m.sig \in {"S_FESTO2_FREI", "S_FESTO2_NFREI"}
  <2>1. handleUebergabe(g, m)
          = trigger([g EXCEPT !.d.festo2Frei = (m.sig = "S_FESTO2_FREI")], m.sig)
    BY <1>6 DEF handleUebergabe
  <2>2. handleUebergabe(g, m) = trigger(Merkt2(g, m.sig), m.sig)
    BY <2>1 DEF Merkt2
  <2> QED
    BY <1>6, <2>2, FreiVerarbeitet
<1>7. CASE m.sig \notin Nachrichten \cup {"S_UEBERGABE_WS"}
  <2>1. handleUebergabe(g, m) = trigger(g, m.sig)
    BY <1>7 DEF handleUebergabe, Nachrichten
  <2> QED
    BY <1>7, <2>1, TriggerErledigt, ErledigtVerarbeitet
<1> QED
  BY <1>2, <1>3, <1>4, <1>5, <1>6, <1>7 DEF Nachrichten

\* Whatever pulse comes, a plant as it should be remains so.
LEMMA EventVerarbeitet ==
  ASSUME NEW e, NEW g, NEW K, Ist(e, g, K), Richtig(K), Frisch(K),
         NEW m \in Puls, Kommt(m.sig, K)
  PROVE  Verarbeitet(e, m.sig, K, handleEvent(g, m))
<1>1. g \in Maschine /\ Still(g, g)
  BY IstTyp, StillSelbst
<1>2. /\ RutscheSignale \cap (SensorSignale \cup {"S_METAL_AN"} \cup UebergabeSignale) = {}
      /\ (SensorSignale \cup {"S_METAL_AN"}) \cap UebergabeSignale = {}
      /\ Nachrichten \subseteq UebergabeSignale
  BY DEF RutscheSignale, SensorSignale, UebergabeSignale, Nachrichten
<1>3. CASE m.sig \in SensorSignale \cup {"S_METAL_AN"}
  <2>1. handleEvent(g, m) = handleSensor(g, m)
    BY <1>2, <1>3
       DEF handleEvent, SensorSignale, UebergabeSignale, RutscheSignale, WerkstueckSignale
  <2> QED
    BY <1>2, <1>3, <2>1, SensorVerarbeitet, ErledigtVerarbeitet
<1>4. CASE m.sig \in UebergabeSignale
  <2>1. handleEvent(g, m) = handleUebergabe(g, m)
    BY <1>2, <1>4
       DEF handleEvent, SensorSignale, UebergabeSignale, RutscheSignale, WerkstueckSignale
  <2> QED
    BY <1>4, <2>1, UebergabeVerarbeitet
<1>5. CASE m.sig \in RutscheSignale
  <2>1. handleEvent(g, m) = handleRutsche(g, m)
    BY <1>2, <1>5
       DEF handleEvent, SensorSignale, UebergabeSignale, RutscheSignale, WerkstueckSignale
  <2> QED
    BY <1>2, <1>5, <2>1, RutscheVerarbeitet, ErledigtVerarbeitet
<1>6. CASE m.sig \notin SensorSignale \cup {"S_METAL_AN"} \cup UebergabeSignale \cup RutscheSignale
  <2>1. handleEvent(g, m) \in
          {registerId2(g, m.sig), WerkstueckAnders(g), trigger(g, m.sig)}
    BY <1>6 DEF handleEvent
  <2>2. Still(g, registerId2(g, m.sig)) /\ Still(g, WerkstueckAnders(g))
    BY <1>1, StilleListe, StilleFolge
  <2>3. Erledigt(e, m.sig, K, registerId2(g, m.sig)) /\ Erledigt(e, m.sig, K, WerkstueckAnders(g))
    BY <2>2, StillErledigt
  <2>4. Erledigt(e, m.sig, K, trigger(g, m.sig))
    BY TriggerErledigt
  <2> QED
    BY <1>2, <1>6, <2>1, <2>3, <2>4, ErledigtVerarbeitet
<1> QED
  BY <1>3, <1>4, <1>5, <1>6

-----------------------------------------------------------------------------
(***************************************************************************)
(* The HAL: the belt and the lamp of the start button once all commands    *)
(* that wait have been carried out.                                        *)
(***************************************************************************)
EndSteht(k) == Steht(An(k.motor = "stop"), k.wartend)
EndQ1(k) == Nach(An(k.q1), k.wartend, "CMD_LED_Q1_AN", "CMD_LED_Q1_AUS")

BandNach(m, v) ==
  IF m.sig = "CMD_MTR_STOP" THEN "an"
  ELSE IF m.sig \in {"CMD_MTR_RECHTS_L", "CMD_MTR_RECHTS_S"} THEN "aus" ELSE v
LampeNach(m, v) ==
  IF m.sig = "CMD_LED_Q1_AN" THEN "an" ELSE IF m.sig = "CMD_LED_Q1_AUS" THEN "aus" ELSE v

LEMMA EndTyp ==
  ASSUME NEW k \in Aktor
  PROVE  /\ k.wartend \in Seq(Puls) /\ EndSteht(k) \in Schalter /\ EndQ1(k) \in Schalter
         /\ k.wartend = <<>> => EndSteht(k) = An(k.motor = "stop") /\ EndQ1(k) = An(k.q1)
<1>1. k.wartend \in Seq(Puls)
  BY WartendTyp
<1>2. \A b \in BOOLEAN : An(b) \in Schalter
  BY DEF An, Schalter
<1>3. An(k.motor = "stop") \in Schalter /\ An(k.q1) \in Schalter
  BY DEF An, Schalter
<1>4. EndSteht(k) \in Schalter /\ EndQ1(k) \in Schalter
  BY DEF EndSteht, EndQ1, Steht, Nach, An, Schalter
<1> QED
  BY <1>1, <1>3, <1>4, NachNichts DEF EndSteht, EndQ1

LEMMA BefehlEnde ==
  ASSUME NEW a \in Anlagen, NEW k \in Aktor, NEW m \in Puls, FuerHAL(m), Bereit(a, k)
  PROVE  /\ EndSteht(Befehl(a, k, m)) = BandNach(m, EndSteht(k))
         /\ EndQ1(Befehl(a, k, m)) = LampeNach(m, EndQ1(k))
<1> DEFINE h == Befehl(a, k, m)
           v == An(k.motor = "stop")
           w == An(k.q1)
<1>1. k.wartend \in Seq(Puls) /\ v \in Schalter /\ w \in Schalter
  BY WartendTyp DEF An, Schalter
<1>2. CASE Blockiert(a, k)
  <2>1. h = [k EXCEPT !.wartend = Append(@, m)]
    BY <1>2 DEF Befehl
  <2>2. h.wartend = Append(k.wartend, m) /\ h.motor = k.motor /\ h.q1 = k.q1
    BY <2>1 DEF Aktor
  <2> HIDE DEF h
  <2>3. EndSteht(h) = Steht(v, Append(k.wartend, m)) /\ EndSteht(k) = Steht(v, k.wartend)
    BY <2>2 DEF EndSteht
  <2>4. /\ EndQ1(h) = Nach(w, Append(k.wartend, m), "CMD_LED_Q1_AN", "CMD_LED_Q1_AUS")
        /\ EndQ1(k) = Nach(w, k.wartend, "CMD_LED_Q1_AN", "CMD_LED_Q1_AUS")
    BY <2>2 DEF EndQ1
  <2> HIDE DEF v, w
  <2>5. EndSteht(h) = BandNach(m, EndSteht(k))
    BY <1>1, <2>3, StehtSenden DEF BandNach
  <2>6. EndQ1(h) = LampeNach(m, EndQ1(k))
    BY <1>1, <2>4, NachSenden DEF LampeNach
  <2> QED
    BY <2>5, <2>6 DEF h
<1>3. CASE ~Blockiert(a, k)
  <2>1. k.wartend = <<>>
    BY <1>3 DEF Bereit
  <2>2. m.sig \in BefehlSignale
    BY DEF FuerHAL
  <2>3. /\ h.wartend = <<>>
        /\ h.motor = IF m.sig = "CMD_MTR_STOP" THEN "stop"
                     ELSE IF m.sig = "CMD_MTR_RECHTS_L" THEN "langsam"
                     ELSE IF m.sig = "CMD_MTR_RECHTS_S" THEN "schnell" ELSE k.motor
        /\ h.q1 = IF m.sig = "CMD_LED_Q1_AN" THEN TRUE
                  ELSE IF m.sig = "CMD_LED_Q1_AUS" THEN FALSE ELSE k.q1
    BY <1>3, <2>1, <2>2
       DEF Befehl, BefehlSignale, Aktor, durchlassenWeiche, durchlassenAuswerfer,
           aussortierenWeiche, aussortierenAuswerfer
  <2> HIDE DEF h
  <2>4. /\ EndSteht(k) = v /\ EndQ1(k) = w
        /\ EndSteht(h) = An(h.motor = "stop") /\ EndQ1(h) = An(h.q1)
    <3>1. h \in Aktor
      BY BefehlTyp DEF h
    <3> QED
      BY <2>1, <2>3, <3>1, EndTyp
  <2>5. EndSteht(h) = BandNach(m, EndSteht(k))
    BY <2>3, <2>4 DEF BandNach, An
  <2>6. EndQ1(h) = LampeNach(m, EndQ1(k))
    BY <2>3, <2>4 DEF LampeNach, An
  <2> QED
    BY <2>5, <2>6 DEF h
<1> QED
  BY <1>2, <1>3

StehtBis(v, s, i) ==
  An(/\ Letztes(v = "an", s, i, "CMD_MTR_STOP", "CMD_MTR_RECHTS_L")
     /\ Letztes(v = "an", s, i, "CMD_MTR_STOP", "CMD_MTR_RECHTS_S"))
LampeBis(v, s, i) == An(Letztes(v = "an", s, i, "CMD_LED_Q1_AN", "CMD_LED_Q1_AUS"))

LEMMA StehtBisWeiter ==
  ASSUME NEW v \in Schalter, NEW s, NEW i \in Nat
  PROVE  StehtBis(v, s, 0) = v /\ StehtBis(v, s, i + 1) = BandNach(s[i + 1], StehtBis(v, s, i))
<1> DEFINE w == v = "an"
<1>1. w \in BOOLEAN /\ v = An(w)
  BY DEF An, Schalter
<1> HIDE DEF w
<1>2. ASSUME NEW x, NEW y, x # y
      PROVE  /\ Letztes(w, s, 0, x, y) <=> w
             /\ Letztes(w, s, i + 1, x, y)
                  <=> s[i + 1].sig = x \/ (s[i + 1].sig # y /\ Letztes(w, s, i, x, y))
  BY <1>1, <1>2, LetztesAnfang, LetztesWeiter
<1>3. StehtBis(v, s, 0) = v
  BY <1>1, <1>2 DEF StehtBis, w, An
<1>4. StehtBis(v, s, i + 1) = BandNach(s[i + 1], StehtBis(v, s, i))
  <2> DEFINE P(j, x) == Letztes(w, s, j, "CMD_MTR_STOP", x)
  <2>1. /\ StehtBis(v, s, i) = An(P(i, "CMD_MTR_RECHTS_L") /\ P(i, "CMD_MTR_RECHTS_S"))
        /\ StehtBis(v, s, i + 1) = An(P(i + 1, "CMD_MTR_RECHTS_L") /\ P(i + 1, "CMD_MTR_RECHTS_S"))
    BY DEF StehtBis, w
  <2>2. P(i + 1, "CMD_MTR_RECHTS_L")
          <=> s[i + 1].sig = "CMD_MTR_STOP"
              \/ (s[i + 1].sig # "CMD_MTR_RECHTS_L" /\ P(i, "CMD_MTR_RECHTS_L"))
    BY <1>2
  <2>3. P(i + 1, "CMD_MTR_RECHTS_S")
          <=> s[i + 1].sig = "CMD_MTR_STOP"
              \/ (s[i + 1].sig # "CMD_MTR_RECHTS_S" /\ P(i, "CMD_MTR_RECHTS_S"))
    BY <1>2
  <2> HIDE DEF P
  <2> QED
    BY <2>1, <2>2, <2>3 DEF BandNach, An
<1> QED
  BY <1>3, <1>4

LEMMA LampeBisWeiter ==
  ASSUME NEW v \in Schalter, NEW s, NEW i \in Nat
  PROVE  LampeBis(v, s, 0) = v /\ LampeBis(v, s, i + 1) = LampeNach(s[i + 1], LampeBis(v, s, i))
<1> DEFINE w == v = "an"
           P(j) == Letztes(w, s, j, "CMD_LED_Q1_AN", "CMD_LED_Q1_AUS")
<1>1. w \in BOOLEAN /\ v = An(w)
  BY DEF An, Schalter
<1>2. LampeBis(v, s, 0) = An(P(0)) /\ LampeBis(v, s, i + 1) = An(P(i + 1))
      /\ LampeBis(v, s, i) = An(P(i))
  BY DEF LampeBis
<1> HIDE DEF w
<1>3. P(0) <=> w
  BY <1>1, LetztesAnfang
<1>4. P(i + 1) <=> s[i + 1].sig = "CMD_LED_Q1_AN" \/ (s[i + 1].sig # "CMD_LED_Q1_AUS" /\ P(i))
  BY <1>1, LetztesWeiter
<1> HIDE DEF P
<1> QED
  BY <1>1, <1>2, <1>3, <1>4 DEF An, LampeNach

\* After the commands of s belt and lamp are as the last ones for them say.
LEMMA BefehleEnde ==
  ASSUME NEW a \in Anlagen, NEW k \in Aktor, NEW s \in Seq(Puls), Bereit(a, k)
  PROVE  /\ EndSteht(Befehle(a, k, s)) = Steht(EndSteht(k), s)
         /\ EndQ1(Befehle(a, k, s)) = Nach(EndQ1(k), s, "CMD_LED_Q1_AN", "CMD_LED_Q1_AUS")
<1> DEFINE n == Len(s)
           B(i) == StehtBis(EndSteht(k), s, i)
           Q(i) == LampeBis(EndQ1(k), s, i)
<1>1. PICK h \in [0..n -> Aktor] :
           /\ h[0] = k
           /\ \A i \in 1..n : h[i] = Ausgefuehrt(a, h[i - 1], s[i])
           /\ Befehle(a, k, s) = h[n]
  BY BefehleLauf
<1>2. n \in Nat /\ \A i \in 1..n : s[i] \in Puls
  OBVIOUS
<1>3. EndSteht(k) \in Schalter /\ EndQ1(k) \in Schalter
  BY EndTyp
<1>4. /\ B(0) = EndSteht(k) /\ Q(0) = EndQ1(k)
      /\ \A i \in Nat : B(i + 1) = BandNach(s[i + 1], B(i)) /\ Q(i + 1) = LampeNach(s[i + 1], Q(i))
  <2>1. ASSUME NEW i \in Nat
        PROVE  B(0) = EndSteht(k) /\ B(i + 1) = BandNach(s[i + 1], B(i))
    BY <1>3, StehtBisWeiter
  <2>2. ASSUME NEW i \in Nat
        PROVE  Q(0) = EndQ1(k) /\ Q(i + 1) = LampeNach(s[i + 1], Q(i))
    BY <1>3, LampeBisWeiter
  <2>3. 0 \in Nat
    OBVIOUS
  <2> HIDE DEF B, Q
  <2> QED
    BY <2>1, <2>2, <2>3
<1>5. B(n) = Steht(EndSteht(k), s)
      /\ Q(n) = Nach(EndQ1(k), s, "CMD_LED_Q1_AN", "CMD_LED_Q1_AUS")
  BY DEF StehtBis, Steht, LampeBis, Nach
<1> HIDE DEF n, B, Q
<1> DEFINE Gut_(i) == /\ Bereit(a, h[i]) /\ EndSteht(h[i]) = B(i) /\ EndQ1(h[i]) = Q(i)
           T == {i \in Nat : i <= n => Gut_(i)}
<1>6. 0 \in T
  BY <1>1, <1>4
<1>7. ASSUME NEW i \in Nat, i \in T PROVE i + 1 \in T
  <2> SUFFICES ASSUME i + 1 <= n PROVE Gut_(i + 1)
    OBVIOUS
  <2>1. i + 1 \in 1..n /\ i \in 0..n /\ i <= n /\ (i + 1) - 1 = i
    BY <1>2
  <2>2. Gut_(i)
    BY <1>7, <2>1
  <2>3. h[i] \in Aktor /\ s[i + 1] \in Puls /\ h[i + 1] = Ausgefuehrt(a, h[i], s[i + 1])
    BY <1>1, <1>2, <2>1
  <2>4. B(i + 1) = BandNach(s[i + 1], B(i)) /\ Q(i + 1) = LampeNach(s[i + 1], Q(i))
    BY <1>4
  <2>5. CASE FuerHAL(s[i + 1])
    BY <2>2, <2>3, <2>4, <2>5, BefehlEnde, BefehlGelb DEF Ausgefuehrt
  <2>6. CASE ~FuerHAL(s[i + 1])
    <3>1. h[i + 1] = h[i]
      BY <2>3, <2>6 DEF Ausgefuehrt
    <3>2. BandNach(s[i + 1], B(i)) = B(i) /\ LampeNach(s[i + 1], Q(i)) = Q(i)
      BY <2>6 DEF FuerHAL, BefehlSignale, BandNach, LampeNach
    <3> QED
      BY <2>2, <2>4, <3>1, <3>2
  <2> QED
    BY <2>5, <2>6
<1>8. Gut_(n)
  <2>1. Nat \subseteq T
    <3> HIDE DEF T
    <3> QED
      BY <1>6, <1>7, Induktion
  <2> QED
    BY <1>2, <2>1
<1> QED
  BY <1>1, <1>5, <1>8

\* The HAL wakes up without forgetting a command.
LEMMA GeschlafenEnde ==
  ASSUME NEW a \in Anlagen, NEW k \in Aktor, Bereit(a, k)
  PROVE  LET h == RutscheGezaehlt(Geschlafen(a, k))
         IN  EndSteht(h) = EndSteht(k) /\ EndQ1(h) = EndQ1(k)
<1> DEFINE wach == [k EXCEPT !.uhren = {u - 1 : u \in k.uhren \ {1}}]
           zu == [wach EXCEPT !.offen = FALSE]
           auf == [durchlassenAuswerfer(wach) EXCEPT !.wartend = <<>>]
           Gleich_(h) == h \in Aktor /\ EndSteht(h) = EndSteht(k) /\ EndQ1(h) = EndQ1(k)
<1>1. wach \in Aktor
  BY WachBleibt DEF HALBleibt
<1>2. /\ 1 \notin k.uhren => Geschlafen(a, k) = wach
      /\ 1 \in k.uhren /\ a = 1 => Geschlafen(a, k) = zu
      /\ 1 \in k.uhren /\ a = 2 => Geschlafen(a, k) = Befehle(2, auf, k.wartend)
  BY DEF Geschlafen, Anlagen
<1>3. wach.motor = k.motor /\ wach.q1 = k.q1 /\ wach.wartend = k.wartend
  BY DEF Aktor
<1> HIDE DEF wach
<1>4. Gleich_(wach)
  BY <1>1, <1>3 DEF EndSteht, EndQ1
<1>5. Gleich_(zu)
  <2>1. zu \in Aktor /\ zu.motor = k.motor /\ zu.q1 = k.q1 /\ zu.wartend = k.wartend
    BY <1>1, <1>3 DEF Aktor
  <2> HIDE DEF zu
  <2> QED
    BY <2>1 DEF EndSteht, EndQ1
<1>6. Gleich_(Befehle(2, auf, k.wartend))
  <2>1. auf \in Aktor /\ auf.motor = k.motor /\ auf.q1 = k.q1 /\ auf.wartend = <<>>
    <3>1. <<>> \in Seq(Befehlspuls)
      OBVIOUS
    <3> QED
      BY <1>1, <1>3, <3>1 DEF durchlassenAuswerfer, Aktor
  <2> HIDE DEF auf
  <2>2. Bereit(2, auf)
    BY <2>1 DEF Bereit
  <2>3. k.wartend \in Seq(Puls) /\ 2 \in Anlagen
    BY WartendTyp DEF Anlagen
  <2>4. EndSteht(auf) = An(k.motor = "stop") /\ EndQ1(auf) = An(k.q1)
    BY <2>1, EndTyp
  <2>5. Befehle(2, auf, k.wartend) \in Aktor
    BY <2>1, <2>3, BefehleTyp
  <2>6. /\ EndSteht(Befehle(2, auf, k.wartend)) = Steht(EndSteht(auf), k.wartend)
        /\ EndQ1(Befehle(2, auf, k.wartend))
             = Nach(EndQ1(auf), k.wartend, "CMD_LED_Q1_AN", "CMD_LED_Q1_AUS")
    BY <2>1, <2>2, <2>3, BefehleEnde
  <2> QED
    BY <2>4, <2>5, <2>6 DEF EndSteht, EndQ1
<1> DEFINE f == Geschlafen(a, k)
<1>7. Gleich_(f)
  <2> HIDE DEF Gleich_, zu, auf
  <2> QED
    BY <1>2, <1>4, <1>5, <1>6 DEF Anlagen
<1> HIDE DEF f
<1>8. EndSteht(RutscheGezaehlt(f)) = EndSteht(f) /\ EndQ1(RutscheGezaehlt(f)) = EndQ1(f)
  <2> DEFINE r == [f EXCEPT !.rutsche = f.rutsche + 1]
  <2>1. RutscheGezaehlt(f) = f \/ RutscheGezaehlt(f) = r
    BY DEF RutscheGezaehlt
  <2>2. r.motor = f.motor /\ r.q1 = f.q1 /\ r.wartend = f.wartend
    BY <1>7 DEF Aktor
  <2> HIDE DEF r
  <2>3. EndSteht(r) = EndSteht(f) /\ EndQ1(r) = EndQ1(f)
    BY <2>2 DEF EndSteht, EndQ1
  <2> QED
    BY <2>1, <2>3
<1> QED
  BY <1>7, <1>8 DEF f

-----------------------------------------------------------------------------
(***************************************************************************)
(* The channels: what a plant will believe once all pulses have been       *)
(* handled.                                                                *)
(***************************************************************************)
LEMMA NachrichtenArt ==
  \A x \in Nachrichten : bestimmtPrioritaet(x) = 5 /\ x \notin BefehlSignale
  BY DEF Nachrichten, bestimmtPrioritaet, WerkstueckSignale, BefehlSignale

LEMMA EingereihtLetztes ==
  ASSUME NEW w \in BOOLEAN, NEW a \in Anlagen, NEW z \in Anlagen, NEW k \in Seq(Puls),
         NEW m \in Puls, NEW ein \in Nachrichten, NEW aus \in Nachrichten, ein # aus,
         m.sig \in {ein, aus} => z \in Ziele(a, m.sig)
  PROVE  LET h == Eingereiht(z, a, k, m)
         IN  /\ h \in Seq(Puls)
             /\ Letztes(w, h, Len(h), ein, aus)
                  <=> m.sig = ein \/ (m.sig # aus /\ Letztes(w, k, Len(k), ein, aus))
<1> DEFINE drin == ~FuerHAL(m) /\ z \in Ziele(a, m.sig)
<1>1. m.sig \in {ein, aus} => drin
  BY NachrichtenArt DEF FuerHAL
<1>2. CASE drin
  <2>1. Eingereiht(z, a, k, m) = Einreihen(k, m)
    BY <1>2 DEF Eingereiht
  <2>2. Einreihen(k, m) \in Seq(Puls)
    BY EinreihenTeilt
  <2>3. \A x \in {ein, aus} : bestimmtPrioritaet(x) = 5
    BY NachrichtenArt
  <2>4. Letztes(w, Einreihen(k, m), Len(Einreihen(k, m)), ein, aus)
          <=> m.sig = ein \/ (m.sig # aus /\ Letztes(w, k, Len(k), ein, aus))
    BY <2>3, EinreihenLetztes
  <2> QED
    BY <2>1, <2>2, <2>4
<1>3. CASE ~drin
  <2>1. Eingereiht(z, a, k, m) = k
    BY <1>3 DEF Eingereiht
  <2> QED
    BY <1>1, <1>3, <2>1
<1> QED
  BY <1>2, <1>3

\* All that plant a sends of a kind reaches plant z: then plant z will believe
\* what it was last told.
LEMMA KanalLetztes ==
  ASSUME NEW w \in BOOLEAN, NEW a \in Anlagen, NEW z \in Anlagen, NEW k \in Seq(Puls),
         NEW s \in Seq(Puls), NEW ein \in Nachrichten, NEW aus \in Nachrichten, ein # aus,
         \A i \in 1..Len(s) : s[i].sig \in {ein, aus} => z \in Ziele(a, s[i].sig)
  PROVE  LET r == KanalNach(z, k, a, s)
         IN  Letztes(w, r, Len(r), ein, aus)
               <=> Letztes(Letztes(w, k, Len(k), ein, aus), s, Len(s), ein, aus)
<1> DEFINE n == Len(s)
           u == Letztes(w, k, Len(k), ein, aus)
           Danach(i) == Letztes(u, s, i, ein, aus)
           Jetzt(x) == Letztes(w, x, Len(x), ein, aus)
<1>1. PICK h : Gang(h, z, k, a, s)
  BY KanalLauf
<1>2. /\ h \in [0..n -> Seq(Puls)]
      /\ h[0] = k
      /\ \A i \in 1..n : h[i] = Eingereiht(z, a, h[i - 1], s[i])
      /\ KanalNach(z, k, a, s) = h[n]
  BY <1>1 DEF Gang
<1>3. /\ n \in Nat /\ \A i \in 1..n : s[i] \in Puls
      /\ \A i \in 1..n : s[i].sig \in {ein, aus} => z \in Ziele(a, s[i].sig)
  OBVIOUS
<1>4. u \in BOOLEAN /\ Jetzt(h[0]) = u
  BY <1>2 DEF Letztes
<1> HIDE DEF n, u
<1>5. (Danach(0) <=> u)
      /\ \A i \in Nat : Danach(i + 1) <=> s[i + 1].sig = ein \/ (s[i + 1].sig # aus /\ Danach(i))
  BY <1>4, LetztesAnfang, LetztesWeiter
<1>6. ASSUME NEW x \in Seq(Puls), NEW m \in Puls,
             m.sig \in {ein, aus} => z \in Ziele(a, m.sig)
      PROVE  Jetzt(Eingereiht(z, a, x, m)) <=> m.sig = ein \/ (m.sig # aus /\ Jetzt(x))
  BY <1>6, EingereihtLetztes
<1> HIDE DEF Danach, Jetzt
<1> DEFINE T == {i \in Nat : i <= n => (Jetzt(h[i]) <=> Danach(i))}
<1>7. 0 \in T
  BY <1>4, <1>5
<1>8. ASSUME NEW i \in Nat, i \in T PROVE i + 1 \in T
  <2> SUFFICES ASSUME i + 1 <= n PROVE Jetzt(h[i + 1]) <=> Danach(i + 1)
    OBVIOUS
  <2>1. i + 1 \in 1..n /\ i \in 0..n /\ i <= n /\ (i + 1) - 1 = i
    BY <1>3
  <2>2. Jetzt(h[i]) <=> Danach(i)
    BY <1>8, <2>1
  <2>3. /\ h[i] \in Seq(Puls) /\ s[i + 1] \in Puls /\ h[i + 1] = Eingereiht(z, a, h[i], s[i + 1])
        /\ s[i + 1].sig \in {ein, aus} => z \in Ziele(a, s[i + 1].sig)
    BY <1>2, <1>3, <2>1
  <2>4. Jetzt(h[i + 1])
          <=> s[i + 1].sig = ein \/ (s[i + 1].sig # aus /\ Jetzt(h[i]))
    BY <1>6, <2>3
  <2> QED
    BY <1>5, <2>2, <2>4
<1>9. Jetzt(h[n]) <=> Danach(n)
  <2>1. Nat \subseteq T
    <3> HIDE DEF T
    <3> QED
      BY <1>7, <1>8, Induktion
  <2> QED
    BY <1>3, <2>1
<1> QED
  BY <1>2, <1>9 DEF Danach, Jetzt, u, n

\* A channel holds only what was in it and what was sent to it.
LEMMA KanalInhalt ==
  ASSUME NEW a \in Anlagen, NEW z \in Anlagen, NEW k \in Seq(Puls), NEW s \in Seq(Puls), NEW x
  PROVE  LET r == KanalNach(z, k, a, s)
         IN  /\ r \in Seq(Puls)
             /\ Hat(r, x) => Hat(k, x) \/ (Hat(s, x) /\ z \in Ziele(a, x))
<1> DEFINE n == Len(s)
           Erlaubt(t) == t \in Seq(Puls) /\ (Hat(t, x) => Hat(k, x) \/ (Hat(s, x) /\ z \in Ziele(a, x)))
<1>1. PICK h : Gang(h, z, k, a, s)
  BY KanalLauf
<1>2. /\ h \in [0..n -> Seq(Puls)]
      /\ h[0] = k
      /\ \A i \in 1..n : h[i] = Eingereiht(z, a, h[i - 1], s[i])
      /\ KanalNach(z, k, a, s) = h[n]
  BY <1>1 DEF Gang
<1>3. n \in Nat /\ \A i \in 1..n : s[i] \in Puls /\ Hat(s, s[i].sig)
  BY DEF Hat
<1> HIDE DEF n
<1> DEFINE T == {i \in Nat : i <= n => Erlaubt(h[i])}
<1>4. 0 \in T
  BY <1>2
<1>5. ASSUME NEW i \in Nat, i \in T PROVE i + 1 \in T
  <2> SUFFICES ASSUME i + 1 <= n PROVE Erlaubt(h[i + 1])
    OBVIOUS
  <2>1. i + 1 \in 1..n /\ i \in 0..n /\ i <= n /\ (i + 1) - 1 = i
    BY <1>3
  <2> DEFINE t == h[i]
             m == s[i + 1]
  <2>2. Erlaubt(t) /\ m \in Puls /\ Hat(s, m.sig) /\ h[i + 1] = Eingereiht(z, a, t, m)
    BY <1>2, <1>3, <1>5, <2>1
  <2> HIDE DEF t, m
  <2>3. CASE ~FuerHAL(m) /\ z \in Ziele(a, m.sig)
    <3>1. h[i + 1] = Einreihen(t, m)
      BY <2>2, <2>3 DEF Eingereiht
    <3>2. t \in Seq(Puls)
      BY <2>2
    <3> DEFINE r == Einreihen(t, m)
    <3>3. r \in Seq(Puls)
      BY <2>2, <3>2, EinreihenTeilt
    <3>4. PICK p \in 0..Len(t) :
            /\ Len(r) = Len(t) + 1
            /\ \A j \in 1..p : r[j] = t[j]
            /\ r[p + 1] = m
            /\ \A j \in (p + 1)..Len(t) : r[j + 1] = t[j]
      BY <2>2, <3>2, EinreihenTeilt
    <3> HIDE DEF r
    <3>5. ASSUME NEW j \in 1..Len(r) PROVE r[j] = m \/ \E i_ \in 1..Len(t) : r[j] = t[i_]
      <4>1. CASE j <= p
        BY <3>2, <3>4, <4>1
      <4>2. CASE j = p + 1
        BY <3>4, <4>2
      <4>3. CASE j > p + 1
        <5>1. j - 1 \in (p + 1)..Len(t) /\ j - 1 \in 1..Len(t) /\ (j - 1) + 1 = j
          BY <3>2, <3>4, <4>3
        <5> QED
          BY <3>4, <5>1
      <4> QED
        BY <3>2, <3>4, <4>1, <4>2, <4>3
    <3>6. Hat(r, x) => x = m.sig \/ Hat(t, x)
      BY <3>5 DEF Hat
    <3> QED
      BY <2>2, <2>3, <3>1, <3>3, <3>6 DEF r
  <2>4. CASE ~(~FuerHAL(m) /\ z \in Ziele(a, m.sig))
    BY <2>2, <2>4 DEF Eingereiht
  <2> QED
    BY <2>3, <2>4
<1>6. Erlaubt(h[n])
  <2>1. Nat \subseteq T
    <3> HIDE DEF T
    <3> QED
      BY <1>4, <1>5, Induktion
  <2> QED
    BY <1>3, <2>1
<1> QED
  BY <1>2, <1>6

LEMMA KanalKurz ==
  ASSUME NEW a \in Anlagen, NEW z \in Anlagen
  PROVE  /\ \A k \in Seq(Puls) : KanalNach(z, k, a, <<>>) = k
         /\ \A m \in Puls : KanalNach(z, <<>>, a, <<m>>)
              = IF ~FuerHAL(m) /\ z \in Ziele(a, m.sig) THEN <<m>> ELSE <<>>
<1>1. ASSUME NEW k \in Seq(Puls) PROVE KanalNach(z, k, a, <<>>) = k
  <2>1. <<>> \in Seq(Puls) /\ Len(<<>>) = 0
    OBVIOUS
  <2>2. PICK h : Gang(h, z, k, a, <<>>)
    BY <2>1, KanalLauf
  <2> QED
    BY <2>1, <2>2 DEF Gang
<1>2. ASSUME NEW m \in Puls
      PROVE  KanalNach(z, <<>>, a, <<m>>)
               = IF ~FuerHAL(m) /\ z \in Ziele(a, m.sig) THEN <<m>> ELSE <<>>
  <2> DEFINE s == <<m>>
             k == <<>>
             r == Einreihen(k, m)
  <2>1. k \in Seq(Puls) /\ s \in Seq(Puls) /\ Len(s) = 1 /\ s[1] = m /\ Len(k) = 0
    OBVIOUS
  <2>2. PICK h : Gang(h, z, k, a, s)
    BY <2>1, KanalLauf
  <2>3. h[0] = k /\ h[1] = Eingereiht(z, a, h[0], m) /\ KanalNach(z, k, a, s) = h[1]
    BY <2>1, <2>2 DEF Gang
  <2>4. r = <<m>>
    <3> HIDE DEF k
    <3>1. r \in Seq(Puls) /\ \E p \in 0..Len(k) : Len(r) = Len(k) + 1 /\ r[p + 1] = m
      BY <2>1, EinreihenTeilt, ZenonT(60)
    <3> HIDE DEF r
    <3>2. Len(r) = 1 /\ r[1] = m
      BY <2>1, <3>1
    <3>3. r = [i \in 1..1 |-> m]
      <4>1. r = [i \in 1..Len(r) |-> r[i]] /\ \A i \in 1..1 : i = 1
        BY <3>1
      <4> QED
        BY <3>2, <4>1
    <3>4. <<m>> = [i \in 1..1 |-> m]
      OBVIOUS
    <3> QED
      BY <3>3, <3>4
  <2> HIDE DEF r
  <2> QED
    BY <2>3, <2>4 DEF Eingereiht, r
<1> QED
  BY <1>1, <1>2

LEMMA NachKanal ==
  ASSUME NEW v \in Schalter, NEW a \in Anlagen, NEW z \in Anlagen, NEW k \in Seq(Puls),
         NEW s \in Seq(Puls), NEW ein \in Nachrichten, NEW aus \in Nachrichten, ein # aus,
         \A x \in {ein, aus} : Hat(s, x) => z \in Ziele(a, x)
  PROVE  Nach(v, KanalNach(z, k, a, s), ein, aus) = Nach(Nach(v, k, ein, aus), s, ein, aus)
<1> DEFINE w == v = "an"
           r == KanalNach(z, k, a, s)
           u == Letztes(w, k, Len(k), ein, aus)
<1>1. w \in BOOLEAN /\ u \in BOOLEAN
  BY DEF Letztes
<1>2. \A i \in 1..Len(s) : s[i].sig \in {ein, aus} => z \in Ziele(a, s[i].sig)
  BY DEF Hat
<1>3. Nach(v, r, ein, aus) = An(Letztes(w, r, Len(r), ein, aus)) /\ Nach(v, k, ein, aus) = An(u)
  BY DEF Nach
<1> HIDE DEF w
<1>4. Letztes(w, r, Len(r), ein, aus) <=> Letztes(u, s, Len(s), ein, aus)
  BY <1>1, <1>2, KanalLetztes
<1> HIDE DEF u, r
<1>5. Nach(An(u), s, ein, aus) = An(Letztes(u, s, Len(s), ein, aus))
  <2>1. u = TRUE \/ u = FALSE
    BY <1>1
  <2> QED
    BY <2>1 DEF Nach, An
<1> QED
  BY <1>3, <1>4, <1>5 DEF An, r

LEMMA NachTail ==
  ASSUME NEW v \in Schalter, NEW w \in Schalter, NEW k \in Seq(Puls), k # <<>>,
         NEW ein, NEW aus, ein # aus,
         w = IF Head(k).sig = ein THEN "an" ELSE IF Head(k).sig = aus THEN "aus" ELSE v
  PROVE  Nach(w, Tail(k), ein, aus) = Nach(v, k, ein, aus)
<1> DEFINE x == v = "an"
           y == w = "an"
<1>1. x \in BOOLEAN /\ y \in BOOLEAN
  OBVIOUS
<1>2. y <=> Head(k).sig = ein \/ (Head(k).sig # aus /\ x)
  BY DEF Schalter
<1>3. /\ Nach(w, Tail(k), ein, aus) = An(Letztes(y, Tail(k), Len(Tail(k)), ein, aus))
      /\ Nach(v, k, ein, aus) = An(Letztes(x, k, Len(k), ein, aus))
  BY DEF Nach
<1> HIDE DEF x, y
<1>4. Letztes(y, Tail(k), Len(Tail(k)), ein, aus) <=> Letztes(x, k, Len(k), ein, aus)
  BY <1>1, <1>2, TailLetztes
<1> QED
  BY <1>3, <1>4 DEF An

LEMMA NachNeutral ==
  ASSUME NEW v \in Schalter, NEW s \in Seq(Puls), NEW ein, NEW aus,
         ~Hat(s, ein), ~Hat(s, aus)
  PROVE  Nach(v, s, ein, aus) = v
<1> DEFINE w == v = "an"
<1>1. w \in BOOLEAN /\ v = An(w)
  BY DEF An, Schalter
<1>2. Len(s) \in Nat /\ \A i \in 1..Len(s) : s[i].sig # ein /\ s[i].sig # aus
  BY DEF Hat
<1>3. Nach(v, s, ein, aus) = An(Letztes(w, s, Len(s), ein, aus))
  BY DEF Nach
<1> HIDE DEF w
<1>4. Letztes(w, s, Len(s), ein, aus) <=> w
  BY <1>1, <1>2, LetztesNeutral
<1> QED
  BY <1>1, <1>3, <1>4 DEF An

\* A belief that nothing in the channel contradicts will last.
LEMMA NachBleibtAn ==
  ASSUME NEW s \in Seq(Puls), NEW ein, NEW aus, ~Hat(s, aus)
  PROVE  Nach("an", s, ein, aus) = "an"
<1>1. Len(s) \in Nat /\ \A i \in 1..Len(s) : s[i].sig # aus
  BY DEF Hat
<1>2. 0 \in 0..Len(s) /\ \A j \in (0 + 1)..Len(s) : j \in 1..Len(s)
  BY <1>1
<1>3. Letztes(TRUE, s, Len(s), ein, aus)
  BY <1>1, <1>2 DEF Letztes
<1> QED
  BY <1>3 DEF Nach, An

LEMMA TailInhalt ==
  ASSUME NEW k \in Seq(Puls), k # <<>>, NEW x
  PROVE  /\ Head(k) \in Puls /\ Tail(k) \in Seq(Puls) /\ Hat(k, Head(k).sig)
         /\ Hat(Tail(k), x) => Hat(k, x) /\ Len(k) # 1
<1>1. /\ Tail(k) \in Seq(Puls) /\ Len(Tail(k)) = Len(k) - 1 /\ Len(k) \in Nat /\ Len(k) > 0
      /\ k[1] = Head(k) /\ \A i \in 1..Len(Tail(k)) : Tail(k)[i] = k[i + 1]
  OBVIOUS
<1>2. Head(k) \in Puls /\ Hat(k, Head(k).sig)
  <2>1. 1 \in 1..Len(k)
    BY <1>1
  <2> QED
    BY <1>1, <2>1 DEF Hat
<1>3. ASSUME Hat(Tail(k), x) PROVE Hat(k, x) /\ Len(k) # 1
  <2>1. PICK i \in 1..Len(Tail(k)) : Tail(k)[i].sig = x
    BY <1>3 DEF Hat
  <2>2. i + 1 \in 1..Len(k) /\ k[i + 1].sig = x /\ Len(k) # 1
    BY <1>1, <2>1
  <2> QED
    BY <2>2 DEF Hat
<1> QED
  BY <1>1, <1>2, <1>3

-----------------------------------------------------------------------------
(***************************************************************************)
(* The inductive invariant.                                                *)
(***************************************************************************)
\* What machine g will believe once the pulses in its channel k are handled.
EndBereit(g, k) == Nach(An(g.d.f2_bereit), k, "S_FESTO2_BEREIT", "S_FESTO2_NBEREIT")
WeissFrei(g, a) == An(IF a = 1 THEN g.d.festo1Frei ELSE g.d.festo2Frei)
EndFrei(g, k, a) == Nach(WeissFrei(g, a), k, Frei(a), NichtFrei(a))

\* The switches of plant a, whose actuators are h, as machine g with the channel
\* k will see them.
Lage(h, g, k, a) == [steht |-> EndSteht(h), q1 |-> EndQ1(h),
                     bereit |-> EndBereit(g, k), frei |-> EndFrei(g, k, a)]

\* The core of plant a, as plant z will see it.
KernVon(G, K, H, a, z) == Kern(Lage(H[a], G[z], K[z], a), G[a])

AllesRichtig(G, K, H) == \A a \in Anlagen, z \in Anlagen : Richtig(KernVon(G, K, H, a, z))

Einig(G, K) == EndBereit(G[1], K[1]) = EndBereit(G[2], K[2])

\* A workpiece at a first light barrier meets plants that have nothing else to
\* handle, ...
EingangZuerst(K) ==
  \A a \in Anlagen : Hat(K[a], Eingang(a)) =>
    Len(K[a]) = 1 /\ \A i \in 1..Len(K[3 - a]) : K[3 - a][i].sig = "S_LSA1_UB"
EingangErlaubt(G, K) ==
  Hat(K[1], "S_LSA1_UB") /\ G[1].zustand = "Betriebszustand" =>
    G[1].bz = "AufWSWarten" \/ G[1].lsa = "NaechsteWSErlaubt"
\* ... plant 2 has heard that plant 1 is in use before one leaves plant 2, ...
BelegtVorAbgang(K) ==
  Hat(K[2], "S_FESTO1_NFREI") => ~Hat(K[2], "S_LSR_UB") /\ ~Hat(K[2], "S_LSE2_NUB")
\* ... who sends a plant to rest knows that it is empty, ...
RuheZuRecht(G, K) ==
  /\ \A z \in Anlagen : Hat(K[z], "CMD_FESTOS_FREI") => G[z].d.anzahlWS = 0
  /\ Hat(K[1], "S_FESTO1_STOPPEN") => G[1].d.anzahlWS = 0
  /\ Hat(K[2], "S_FESTO2_FREI") => G[2].d.anzahlWS = 0
\* ... and a workpiece gets to the height sensor only while the belt runs.
HoeheImLauf(G, K) ==
  Hat(K[1], "S_LSH_UB") =>
    Len(K[1]) = 1 /\ K[2] = <<>> /\ ~G[1].d.enteredWartenAufErlaubnisVonF2

Ordnung(G, K) ==
  /\ EingangZuerst(K) /\ EingangErlaubt(G, K) /\ BelegtVorAbgang(K) /\ RuheZuRecht(G, K)
  /\ HoeheImLauf(G, K)

BInv ==
  AllesRichtig(anlage, kanal, aktor) /\ Einig(anlage, kanal) /\ Ordnung(anlage, kanal)

LEMMA EndeTyp ==
  ASSUME NEW g, NEW k, NEW h \in Aktor, NEW a \in Anlagen
  PROVE  /\ An(g.d.f2_bereit) \in Schalter /\ WeissFrei(g, a) \in Schalter
         /\ EndBereit(g, k) \in Schalter /\ EndFrei(g, k, a) \in Schalter
         /\ Lage(h, g, k, a) \in Vorher
<1>1. \A b : An(b) \in Schalter
  BY DEF An, Schalter
<1>2. EndBereit(g, k) \in Schalter /\ EndFrei(g, k, a) \in Schalter
  BY <1>1 DEF EndBereit, EndFrei, Nach
<1>3. EndSteht(h) \in Schalter /\ EndQ1(h) \in Schalter
  BY EndTyp
<1> QED
  BY <1>1, <1>2, <1>3 DEF WeissFrei, Lage, Vorher

\* A machine between two pulses.
LEMMA KernRuhig ==
  ASSUME NEW a \in Anlagen, NEW g \in Maschine, Fertig(a, g), NEW e \in Vorher,
         NEW K, K = Kern(e, g)
  PROVE  /\ Ist(e, g, K) /\ Frisch(K)
         /\ K.a = a /\ K.steht = e.steht /\ K.q1 = e.q1 /\ K.bereit = e.bereit /\ K.frei = e.frei
<1>1. Ist(e, g, K)
  BY KernTyp
<1>2. g.aus = <<>> /\ ~g.exit /\ g.d.festo = a
  BY DEF Fertig
<1>3. e.steht \in Schalter /\ e.q1 \in Schalter /\ e.bereit \in Schalter /\ e.frei \in Schalter
  BY DEF Vorher
<1>4. K.steht = e.steht /\ K.q1 = e.q1 /\ K.bereit = e.bereit /\ K.frei = e.frei
  BY <1>2, <1>3, NachNichts DEF Kern
<1>5. K.sig = {} /\ K.exit = "aus" /\ K.a = a
  BY <1>2, GesendetLeer DEF Kern, An
<1> QED
  BY <1>1, <1>4, <1>5 DEF Frisch

\* The machine passes on what it has sent.
LEMMA RichtigUebernommen ==
  ASSUME NEW e, NEW g, NEW L, Ist(e, g, L), Richtig(L), NEW f \in Vorher,
         f.steht = L.steht, f.q1 = L.q1, f.bereit = L.bereit \/ L.a = 1, f.frei = L.frei
  PROVE  Richtig(Kern(f, [g EXCEPT !.aus = <<>>]))
<1> DEFINE h == [g EXCEPT !.aus = <<>>]
           M == Kern(f, h)
<1>1. g \in Maschine /\ L = Kern(e, g)
  BY DEF Ist
<1>2. /\ h.aus = <<>> /\ h.d = g.d /\ h.zustand = g.zustand /\ h.bz = g.bz /\ h.lsa = g.lsa
      /\ h.lse = g.lse
  BY <1>1 DEF Maschine
<1>3. f.steht \in Schalter /\ f.q1 \in Schalter /\ f.bereit \in Schalter /\ f.frei \in Schalter
  BY DEF Vorher
<1> HIDE DEF h
<1>4. M.steht = f.steht /\ M.q1 = f.q1 /\ M.bereit = f.bereit /\ M.frei = f.frei
  BY <1>2, <1>3, NachNichts DEF Kern
<1>5. /\ M.a = L.a /\ M.zu = L.zu /\ M.bz = L.bz /\ M.lsa = L.lsa /\ M.lse = L.lse
      /\ M.ort = L.ort /\ M.n = L.n /\ M.wart = L.wart /\ M.verl = L.verl /\ M.f2b = L.f2b
  BY <1>1, <1>2 DEF Kern
<1> HIDE DEF M
<1>6. Richtig(M)
  BY <1>4, <1>5 DEF Richtig, EigeneRegionen, WartenBekannt, StehtRichtig, LampeRichtig,
       BereitRichtig, WartetZuRecht, FreiRichtig, RuhtLeer, OhneFehler, Sort, Ruht
<1> QED
  BY <1>6 DEF M, h

\* What a machine knows when a pulse comes.
LEMMA KommtRecht ==
  ASSUME IInv, BInv, NEW a \in Anlagen, NEW z \in Anlagen, kanal[a] # <<>>,
         NEW K, K = KernVon(anlage, kanal, aktor, a, z)
  PROVE  /\ Ist(Lage(aktor[a], anlage[z], kanal[z], a), anlage[a], K)
         /\ Richtig(K) /\ Frisch(K) /\ K.a = a
         /\ Head(kanal[a]) \in Puls /\ Kommt(Head(kanal[a]).sig, K)
<1> DEFINE e == Lage(aktor[a], anlage[z], kanal[z], a)
           s == Head(kanal[a]).sig
<1>1. anlage[a] \in Maschine /\ Fertig(a, anlage[a]) /\ aktor[a] \in Aktor /\ kanal[a] \in Seq(Puls)
  BY DEF IInv, Passt
<1>2. e \in Vorher
  BY <1>1, EndeTyp
<1>3. K = Kern(e, anlage[a])
  BY DEF KernVon
<1> HIDE DEF e
<1>4. Ist(e, anlage[a], K) /\ Frisch(K) /\ K.a = a
  BY <1>1, <1>2, <1>3, KernRuhig
<1>5. Richtig(K)
  BY DEF BInv, AllesRichtig
<1>6. Head(kanal[a]) \in Puls /\ Hat(kanal[a], s)
  BY <1>1, TailInhalt
<1> HIDE DEF s
<1>7. /\ K.zu = anlage[a].zustand /\ K.bz = anlage[a].bz /\ K.lsa = anlage[a].lsa
      /\ K.n = anlage[a].d.anzahlWS
      /\ (anlage[a].d.enteredWartenAufErlaubnisVonF2 <=> K.wart = "an")
      /\ K.wart \in Schalter
  BY <1>4, IstTyp DEF Kerne
<1>8. Kommt(s, K)
  <2>1. s = "S_LSH_UB" /\ K.a = 1 => K.wart = "aus"
    BY <1>4, <1>6, <1>7 DEF BInv, Ordnung, HoeheImLauf, Schalter
  <2>2. s = "S_LSA1_UB" /\ K.a = 1 /\ Sort(K) => K.lsa = "NaechsteWSErlaubt"
    BY <1>4, <1>6, <1>7 DEF BInv, Ordnung, EingangErlaubt, Sort
  <2>3. s = "CMD_FESTOS_FREI" => K.n = 0
    BY <1>4, <1>6, <1>7 DEF BInv, Ordnung, RuheZuRecht
  <2>4. s = "S_FESTO1_STOPPEN" /\ K.a = 1 => K.n = 0
    BY <1>4, <1>6, <1>7 DEF BInv, Ordnung, RuheZuRecht
  <2>5. s = "S_FESTO2_FREI" /\ K.a = 2 => K.n = 0
    BY <1>4, <1>6, <1>7 DEF BInv, Ordnung, RuheZuRecht
  <2> QED
    BY <2>1, <2>2, <2>3, <2>4, <2>5 DEF Kommt
<1> QED
  BY <1>4, <1>5, <1>6, <1>8 DEF e, s

-----------------------------------------------------------------------------
(***************************************************************************)
(* A state machine handles a pulse.                                        *)
(***************************************************************************)
\* Plant a handles its first pulse and is r before it passes on what it has sent.
Handelt(a, r) ==
  /\ kanal[a] # <<>> /\ r = handleEvent(anlage[a], Head(kanal[a]))
  /\ anlage' = [anlage EXCEPT ![a] = [r EXCEPT !.aus = <<>>]]
  /\ aktor' = [aktor EXCEPT ![a] = Befehle(a, aktor[a], r.aus)]
  /\ kanal' = Zustellen([kanal EXCEPT ![a] = Tail(kanal[a])], a, r.aus)

\* The core of plant a as plant z will see it: before the pulse, and after it.
KernHier(a, z) == KernVon(anlage, kanal, aktor, a, z)
KernNach(a, z, r) == Kern(Lage(aktor[a], anlage[z], kanal[z], a), r)

Erstes(a) == Head(kanal[a]).sig

LEMMA HandeltRichtig ==
  ASSUME IInv, BInv, NEW a \in Anlagen, NEW r, Handelt(a, r), NEW z \in Anlagen,
         NEW K, K = KernHier(a, z), NEW L, L = KernNach(a, z, r)
  PROVE  /\ K \in Kerne /\ L \in Kerne /\ K.a = a /\ Richtig(K) /\ Richtig(L)
         /\ Ist(Lage(aktor[a], anlage[z], kanal[z], a), anlage[a], K)
         /\ Ist(Lage(aktor[a], anlage[z], kanal[z], a), r, L)
         /\ Folgen(Erstes(a), K, L) /\ Hat(kanal[a], Erstes(a))
<1> DEFINE e == Lage(aktor[a], anlage[z], kanal[z], a)
           m == Head(kanal[a])
<1>1. kanal[a] # <<>> /\ kanal[a] \in Seq(Puls) /\ r = handleEvent(anlage[a], m)
  BY DEF Handelt, IInv, Passt
<1>2. Ist(e, anlage[a], K) /\ Richtig(K) /\ Frisch(K) /\ K.a = a /\ m \in Puls /\ Kommt(m.sig, K)
  BY <1>1, KommtRecht DEF KernHier
<1>3. Hat(kanal[a], m.sig)
  BY <1>1, TailInhalt
<1>4. L = Kern(e, r)
  BY DEF KernNach
<1> HIDE DEF e, m
<1>5. Verarbeitet(e, m.sig, K, r)
  BY <1>1, <1>2, EventVerarbeitet
<1>6. PICK M \in Kerne : Ist(e, r, M) /\ Richtig(M) /\ Folgen(m.sig, K, M)
  BY <1>5 DEF Verarbeitet
<1>7. M = L /\ K \in Kerne
  BY <1>2, <1>4, <1>6 DEF Ist
<1> QED
  BY <1>2, <1>3, <1>6, <1>7 DEF e, m, Erstes

\* What waits for plant z when plant a has taken its first pulse.
Wartend(a, z) == IF z = a THEN Tail(kanal[a]) ELSE kanal[z]

LEMMA HandeltKanal ==
  ASSUME IInv, BInv, NEW a \in Anlagen, NEW r, Handelt(a, r), NEW z \in Anlagen
  PROVE  /\ r \in Maschine /\ r.aus \in Seq(Puls) /\ r.d.festo = a
         /\ kanal[z] \in Seq(Puls) /\ Wartend(a, z) \in Seq(Puls)
         /\ kanal[a] \in Seq(Puls) /\ kanal[a] # <<>>
         /\ kanal'[z] = KanalNach(z, Wartend(a, z), a, r.aus)
<1>1. /\ anlage \in [Anlagen -> Maschine] /\ kanal \in [Anlagen -> Seq(Puls)]
      /\ aktor \in [Anlagen -> Aktor]
      /\ \A b \in Anlagen : Passt(b, anlage[b], kanal[b], aktor[b])
  BY DEF IInv, Typen
<1>2. Ist(Lage(aktor[a], anlage[z], kanal[z], a), r, KernNach(a, z, r))
      /\ Folgen(Erstes(a), KernHier(a, z), KernNach(a, z, r)) /\ KernHier(a, z).a = a
  BY HandeltRichtig
<1>3. r \in Maschine /\ r.aus \in Seq(Gesendet) /\ r.d.festo = a
  BY <1>2, IstTyp DEF Folgen, Gewusst
<1>4. r.aus \in Seq(Puls)
  BY <1>3, GesendetIstPuls
<1>5. kanal[a] \in Seq(Puls) /\ kanal[a] # <<>> /\ Wartend(a, z) \in Seq(Puls)
  BY <1>1, TailInhalt DEF Handelt, Wartend
<1>6. kanal'[z] = KanalNach(z, Wartend(a, z), a, r.aus)
  BY <1>1, <1>5 DEF Handelt, Zustellen, Wartend
<1> QED
  BY <1>1, <1>3, <1>4, <1>5, <1>6

LEMMA HandeltDanach ==
  ASSUME IInv, BInv, NEW a \in Anlagen, NEW r, Handelt(a, r), NEW z \in Anlagen
  PROVE  /\ anlage[z] \in Maschine /\ Fertig(z, anlage[z]) /\ aktor[z] \in Aktor
         /\ Bereit(z, aktor[z])
         /\ z = a => anlage'[z] = [r EXCEPT !.aus = <<>>]
         /\ z # a => anlage'[z] = anlage[z]
         /\ z = a => aktor'[z] = Befehle(a, aktor[a], r.aus)
         /\ z # a => aktor'[z] = aktor[z]
<1>1. /\ anlage \in [Anlagen -> Maschine] /\ kanal \in [Anlagen -> Seq(Puls)]
      /\ aktor \in [Anlagen -> Aktor]
      /\ \A b \in Anlagen : Passt(b, anlage[b], kanal[b], aktor[b])
  BY DEF IInv, Typen
<1>2. /\ z = a => anlage'[z] = [r EXCEPT !.aus = <<>>]
      /\ z # a => anlage'[z] = anlage[z]
      /\ z = a => aktor'[z] = Befehle(a, aktor[a], r.aus)
      /\ z # a => aktor'[z] = aktor[z]
  BY <1>1 DEF Handelt
<1> QED
  BY <1>1, <1>2 DEF Passt

\* What has been sent is in the core.
LEMMA HandeltGesendet ==
  ASSUME IInv, BInv, NEW a \in Anlagen, NEW r, Handelt(a, r), NEW z \in Anlagen,
         NEW x \in Wichtig
  PROVE  Hat(r.aus, x) <=> x \in KernNach(a, z, r).sig
  BY DEF KernNach, Kern

LEMMA HandeltInhalt ==
  ASSUME IInv, BInv, NEW a \in Anlagen, NEW r, Handelt(a, r), NEW z \in Anlagen,
         NEW x \in Wichtig, Hat(kanal'[z], x)
  PROVE  \/ Hat(kanal[z], x) /\ (z = a => Len(kanal[a]) # 1)
         \/ x \in KernNach(a, z, r).sig /\ z \in Ziele(a, x)
<1> DEFINE k == Wartend(a, z)
<1>1. k \in Seq(Puls) /\ r.aus \in Seq(Puls) /\ kanal'[z] = KanalNach(z, k, a, r.aus)
      /\ kanal[a] \in Seq(Puls) /\ kanal[a] # <<>>
  BY HandeltKanal
<1>2. z = a => k = Tail(kanal[a])
  BY DEF Wartend
<1>3. z # a => k = kanal[z]
  BY DEF Wartend
<1> HIDE DEF k
<1>4. Hat(k, x) \/ (Hat(r.aus, x) /\ z \in Ziele(a, x))
  BY <1>1, KanalInhalt
<1>5. Hat(k, x) => Hat(kanal[z], x) /\ (z = a => Len(kanal[a]) # 1)
  BY <1>1, <1>2, <1>3, TailInhalt
<1> QED
  BY <1>4, <1>5, HandeltGesendet

\* Messages that switch ein and aus are sent to both plants.
Paar(ein, aus) ==
  \/ ein = "S_FESTO2_BEREIT" /\ aus = "S_FESTO2_NBEREIT"
  \/ ein = "S_FESTO1_FREI" /\ aus = "S_FESTO1_NFREI"
  \/ ein = "S_FESTO2_FREI" /\ aus = "S_FESTO2_NFREI"

LEMMA PaarTyp ==
  ASSUME NEW ein, NEW aus, Paar(ein, aus)
  PROVE  ein \in Nachrichten /\ aus \in Nachrichten /\ ein # aus /\ ein \in Wichtig /\ aus \in Wichtig
  BY DEF Paar, Nachrichten, Wichtig

LEMMA PaarZiele ==
  ASSUME IInv, BInv, NEW a \in Anlagen, NEW r, Handelt(a, r), NEW z \in Anlagen,
         NEW ein, NEW aus, Paar(ein, aus), NEW x \in {ein, aus}, Hat(r.aus, x)
  PROVE  z \in Ziele(a, x)
<1>1. x \in KernNach(a, z, r).sig
  BY HandeltGesendet, PaarTyp
<1>2. NurEigene(KernHier(a, z), KernNach(a, z, r)) /\ KernHier(a, z).a = a
  BY HandeltRichtig DEF Folgen
<1>3. x \in Nachrichten
  BY PaarTyp
<1>4. CASE a = 1
  <2>1. x \in {"S_FESTO1_FREI", "S_FESTO1_NFREI"}
    BY <1>1, <1>2, <1>3, <1>4 DEF NurEigene, Nachrichten
  <2> QED
    BY <1>4, <2>1 DEF Ziele, istMeinSignal, Anlagen
<1>5. CASE a = 2
  <2>1. x \in {"S_FESTO2_FREI", "S_FESTO2_NFREI", "S_FESTO2_BEREIT", "S_FESTO2_NBEREIT"}
    BY <1>1, <1>2, <1>3, <1>5 DEF NurEigene, Nachrichten
  <2> QED
    BY <1>5, <2>1 DEF Ziele, istMeinSignal, Anlagen
<1> QED
  BY <1>4, <1>5 DEF Anlagen

\* What plant z has heard, v, becomes w when it handles a message itself; what
\* it will have heard of a switch is what it would have heard before, and then
\* what plant a has sent.
LEMMA NachrichtKommtAn ==
  ASSUME IInv, BInv, NEW a \in Anlagen, NEW r, Handelt(a, r), NEW z \in Anlagen,
         NEW ein, NEW aus, Paar(ein, aus), NEW v \in Schalter, NEW w \in Schalter,
         z = a => w = IF Erstes(a) = ein THEN "an" ELSE IF Erstes(a) = aus THEN "aus" ELSE v,
         z # a => w = v
  PROVE  Nach(w, kanal'[z], ein, aus) = Nach(Nach(v, kanal[z], ein, aus), r.aus, ein, aus)
<1> DEFINE k == Wartend(a, z)
<1>1. k \in Seq(Puls) /\ r.aus \in Seq(Puls) /\ kanal'[z] = KanalNach(z, k, a, r.aus)
      /\ kanal[z] \in Seq(Puls) /\ kanal[a] # <<>>
  BY HandeltKanal
<1>2. z = a => k = Tail(kanal[a])
  BY DEF Wartend
<1>3. z # a => k = kanal[z]
  BY DEF Wartend
<1> HIDE DEF k
<1>4. ein \in Nachrichten /\ aus \in Nachrichten /\ ein # aus
  BY PaarTyp
<1>5. Nach(w, k, ein, aus) = Nach(v, kanal[z], ein, aus)
  <2>1. CASE z = a
    <3>1. w = IF Head(kanal[z]).sig = ein THEN "an"
              ELSE IF Head(kanal[z]).sig = aus THEN "aus" ELSE v
      BY <2>1 DEF Erstes
    <3>2. kanal[z] # <<>> /\ k = Tail(kanal[z])
      BY <1>1, <1>2, <2>1
    <3> QED
      BY <1>1, <1>4, <3>1, <3>2, NachTail
  <2>2. CASE z # a
    BY <1>3, <2>2
  <2> QED
    BY <2>1, <2>2
<1>6. \A x \in {ein, aus} : Hat(r.aus, x) => z \in Ziele(a, x)
  BY PaarZiele
<1>7. Nach(w, KanalNach(z, k, a, r.aus), ein, aus) = Nach(Nach(w, k, ein, aus), r.aus, ein, aus)
  BY <1>1, <1>4, <1>6, NachKanal
<1> QED
  BY <1>1, <1>5, <1>7

\* What plant a has sent of its own switches is in its core.
LEMMA HandeltKern ==
  ASSUME NEW a \in Anlagen, NEW r, NEW z \in Anlagen, r.d.festo = a,
         NEW L, L = KernNach(a, z, r)
  PROVE  /\ L.steht = Steht(EndSteht(aktor[a]), r.aus)
         /\ L.q1 = Nach(EndQ1(aktor[a]), r.aus, "CMD_LED_Q1_AN", "CMD_LED_Q1_AUS")
         /\ L.bereit = Nach(EndBereit(anlage[z], kanal[z]), r.aus,
                            "S_FESTO2_BEREIT", "S_FESTO2_NBEREIT")
         /\ L.frei = Nach(EndFrei(anlage[z], kanal[z], a), r.aus, Frei(a), NichtFrei(a))
         /\ L.n = r.d.anzahlWS /\ L.a = a
  BY DEF KernNach, Kern, Lage

\* What plant z knows after the step.
LEMMA HandeltWissen ==
  ASSUME IInv, BInv, NEW a \in Anlagen, NEW r, Handelt(a, r), NEW z \in Anlagen
  PROVE  /\ EndBereit(anlage'[z], kanal'[z])
              = Nach(EndBereit(anlage[z], kanal[z]), r.aus, "S_FESTO2_BEREIT", "S_FESTO2_NBEREIT")
         /\ \A b \in Anlagen :
              EndFrei(anlage'[z], kanal'[z], b)
                = Nach(EndFrei(anlage[z], kanal[z], b), r.aus, Frei(b), NichtFrei(b))
<1> DEFINE d == anlage[z].d
           f == anlage'[z].d
           s == Erstes(a)
           K == KernHier(a, z)
           L == KernNach(a, z, r)
           e == Lage(aktor[a], anlage[z], kanal[z], a)
<1>1. CASE z = a
  <2>1. Gewusst(s, K, L) /\ Ist(e, anlage[a], K) /\ Ist(e, r, L)
    BY HandeltRichtig DEF Folgen
  <2>2. r \in Maschine /\ anlage'[z] = [r EXCEPT !.aus = <<>>]
    BY <1>1, HandeltKanal, HandeltDanach
  <2>3. f = r.d
    BY <2>2 DEF Maschine
  <2>4. /\ (d.f2_bereit <=> K.f2b = "an") /\ (d.festo1Frei <=> K.f1 = "an")
        /\ (d.festo2Frei <=> K.f2 = "an") /\ K \in Kerne
    BY <1>1, <2>1, IstTyp
  <2>5. /\ (f.f2_bereit <=> L.f2b = "an") /\ (f.festo1Frei <=> L.f1 = "an")
        /\ (f.festo2Frei <=> L.f2 = "an") /\ L \in Kerne
    BY <2>1, <2>3, IstTyp
  <2> HIDE DEF d, f, s, K, L, e
  <2>6. An(d.f2_bereit) = K.f2b /\ An(d.festo1Frei) = K.f1 /\ An(d.festo2Frei) = K.f2
    BY <2>4 DEF An, Kerne, Schalter
  <2>7. An(f.f2_bereit) = L.f2b /\ An(f.festo1Frei) = L.f1 /\ An(f.festo2Frei) = L.f2
    BY <2>5 DEF An, Kerne, Schalter
  <2>8. /\ An(f.f2_bereit) = IF s = "S_FESTO2_BEREIT" THEN "an"
                             ELSE IF s = "S_FESTO2_NBEREIT" THEN "aus" ELSE An(d.f2_bereit)
        /\ An(f.festo1Frei) = IF s = "S_FESTO1_FREI" THEN "an"
                              ELSE IF s = "S_FESTO1_NFREI" THEN "aus" ELSE An(d.festo1Frei)
        /\ An(f.festo2Frei) = IF s = "S_FESTO2_FREI" THEN "an"
                              ELSE IF s = "S_FESTO2_NFREI" THEN "aus" ELSE An(d.festo2Frei)
    BY <2>1, <2>6, <2>7 DEF Gewusst
  <2>9. \A b : An(b) \in Schalter
    BY DEF An, Schalter
  <2>10. Nach(An(f.f2_bereit), kanal'[z], "S_FESTO2_BEREIT", "S_FESTO2_NBEREIT")
           = Nach(Nach(An(d.f2_bereit), kanal[z], "S_FESTO2_BEREIT", "S_FESTO2_NBEREIT"), r.aus,
                  "S_FESTO2_BEREIT", "S_FESTO2_NBEREIT")
    BY <1>1, <2>8, <2>9, NachrichtKommtAn DEF s, Paar
  <2>11. Nach(An(f.festo1Frei), kanal'[z], "S_FESTO1_FREI", "S_FESTO1_NFREI")
           = Nach(Nach(An(d.festo1Frei), kanal[z], "S_FESTO1_FREI", "S_FESTO1_NFREI"), r.aus,
                  "S_FESTO1_FREI", "S_FESTO1_NFREI")
    BY <1>1, <2>8, <2>9, NachrichtKommtAn DEF s, Paar
  <2>12. Nach(An(f.festo2Frei), kanal'[z], "S_FESTO2_FREI", "S_FESTO2_NFREI")
           = Nach(Nach(An(d.festo2Frei), kanal[z], "S_FESTO2_FREI", "S_FESTO2_NFREI"), r.aus,
                  "S_FESTO2_FREI", "S_FESTO2_NFREI")
    BY <1>1, <2>8, <2>9, NachrichtKommtAn DEF s, Paar
  <2> QED
    BY <2>10, <2>11, <2>12 DEF EndBereit, EndFrei, WeissFrei, Frei, NichtFrei, Anlagen, d, f
<1>2. CASE z # a
  <2>1. anlage'[z] = anlage[z]
    BY <1>2, HandeltDanach
  <2>2. An(d.f2_bereit) \in Schalter /\ \A b \in Anlagen : WeissFrei(anlage[z], b) \in Schalter
    BY DEF An, Schalter, WeissFrei
  <2>3. \A b \in Anlagen : Paar(Frei(b), NichtFrei(b))
    BY DEF Paar, Frei, NichtFrei, Anlagen
  <2>4. Paar("S_FESTO2_BEREIT", "S_FESTO2_NBEREIT")
    BY DEF Paar
  <2>5. EndBereit(anlage'[z], kanal'[z])
          = Nach(EndBereit(anlage[z], kanal[z]), r.aus, "S_FESTO2_BEREIT", "S_FESTO2_NBEREIT")
    BY <1>2, <2>1, <2>2, <2>4, NachrichtKommtAn DEF EndBereit
  <2>6. ASSUME NEW b \in Anlagen
        PROVE  EndFrei(anlage'[z], kanal'[z], b)
                 = Nach(EndFrei(anlage[z], kanal[z], b), r.aus, Frei(b), NichtFrei(b))
    BY <1>2, <2>1, <2>2, <2>3, NachrichtKommtAn DEF EndFrei
  <2> QED
    BY <2>5, <2>6
<1> QED
  BY <1>1, <1>2

LEMMA HandeltBereit ==
  ASSUME IInv, BInv, NEW a \in Anlagen, NEW r, Handelt(a, r)
  PROVE  Einig(anlage', kanal')
  BY HandeltWissen DEF BInv, Einig, Anlagen

\* Nothing that concerns plant a alone is sent by the other.
LEMMA HandeltFremd ==
  ASSUME IInv, BInv, NEW a \in Anlagen, NEW r, Handelt(a, r), NEW b \in Anlagen, b # a,
         NEW z \in Anlagen
  PROVE  /\ EndFrei(anlage'[z], kanal'[z], b) = EndFrei(anlage[z], kanal[z], b)
         /\ b = 2 => EndBereit(anlage'[z], kanal'[z]) = EndBereit(anlage[z], kanal[z])
<1> DEFINE L == KernNach(a, z, r)
<1>1. NurEigene(KernHier(a, z), L) /\ KernHier(a, z).a = a
  BY HandeltRichtig DEF Folgen
<1>2. Frei(b) \in Wichtig /\ NichtFrei(b) \in Wichtig
  BY DEF Frei, NichtFrei, Wichtig
<1>3. Frei(b) \notin L.sig /\ NichtFrei(b) \notin L.sig
  BY <1>1 DEF NurEigene, Frei, NichtFrei, Anlagen
<1>4. ~Hat(r.aus, Frei(b)) /\ ~Hat(r.aus, NichtFrei(b))
  BY <1>2, <1>3, HandeltGesendet
<1>5. b = 2 => ~Hat(r.aus, "S_FESTO2_BEREIT") /\ ~Hat(r.aus, "S_FESTO2_NBEREIT")
  <2>1. "S_FESTO2_BEREIT" \in Wichtig /\ "S_FESTO2_NBEREIT" \in Wichtig
    BY DEF Wichtig
  <2>2. b = 2 => "S_FESTO2_BEREIT" \notin L.sig /\ "S_FESTO2_NBEREIT" \notin L.sig
    BY <1>1 DEF NurEigene, Anlagen
  <2> QED
    BY <2>1, <2>2, HandeltGesendet
<1>6. r.aus \in Seq(Puls)
  BY HandeltKanal
<1>7. EndFrei(anlage[z], kanal[z], b) \in Schalter /\ EndBereit(anlage[z], kanal[z]) \in Schalter
  BY DEF EndFrei, EndBereit, Nach, An, Schalter
<1>8. EndFrei(anlage'[z], kanal'[z], b)
        = Nach(EndFrei(anlage[z], kanal[z], b), r.aus, Frei(b), NichtFrei(b))
  BY HandeltWissen
<1>9. Nach(EndFrei(anlage[z], kanal[z], b), r.aus, Frei(b), NichtFrei(b))
        = EndFrei(anlage[z], kanal[z], b)
  BY <1>4, <1>6, <1>7, NachNeutral
<1>10. b = 2 => Nach(EndBereit(anlage[z], kanal[z]), r.aus, "S_FESTO2_BEREIT", "S_FESTO2_NBEREIT")
                  = EndBereit(anlage[z], kanal[z])
  BY <1>5, <1>6, <1>7, NachNeutral
<1>11. EndBereit(anlage'[z], kanal'[z])
         = Nach(EndBereit(anlage[z], kanal[z]), r.aus, "S_FESTO2_BEREIT", "S_FESTO2_NBEREIT")
  BY HandeltWissen
<1> QED
  BY <1>8, <1>9, <1>10, <1>11

LEMMA HandeltLage ==
  ASSUME IInv, BInv, NEW a \in Anlagen, NEW r, Handelt(a, r), NEW z \in Anlagen,
         NEW L, L = KernNach(a, z, r)
  PROVE  LET f == Lage(aktor'[a], anlage'[z], kanal'[z], a)
         IN  f \in Vorher /\ f.steht = L.steht /\ f.q1 = L.q1 /\ f.bereit = L.bereit /\ f.frei = L.frei
<1>1. aktor[a] \in Aktor /\ Bereit(a, aktor[a]) /\ aktor'[a] = Befehle(a, aktor[a], r.aus)
  <2>1. aktor[a] \in Aktor /\ Bereit(a, aktor[a])
    BY HandeltDanach
  <2>2. aktor'[a] = Befehle(a, aktor[a], r.aus)
    BY DEF Handelt, IInv, Typen
  <2> QED
    BY <2>1, <2>2
<1>2. r.aus \in Seq(Puls) /\ r.d.festo = a
  BY HandeltKanal
<1>3. /\ EndSteht(aktor'[a]) = Steht(EndSteht(aktor[a]), r.aus)
      /\ EndQ1(aktor'[a]) = Nach(EndQ1(aktor[a]), r.aus, "CMD_LED_Q1_AN", "CMD_LED_Q1_AUS")
  BY <1>1, <1>2, BefehleEnde
<1>4. /\ EndBereit(anlage'[z], kanal'[z])
           = Nach(EndBereit(anlage[z], kanal[z]), r.aus, "S_FESTO2_BEREIT", "S_FESTO2_NBEREIT")
      /\ EndFrei(anlage'[z], kanal'[z], a)
           = Nach(EndFrei(anlage[z], kanal[z], a), r.aus, Frei(a), NichtFrei(a))
  BY HandeltWissen
<1>5. /\ L.steht = EndSteht(aktor'[a]) /\ L.q1 = EndQ1(aktor'[a])
      /\ L.bereit = EndBereit(anlage'[z], kanal'[z])
      /\ L.frei = EndFrei(anlage'[z], kanal'[z], a)
  BY <1>2, <1>3, <1>4, HandeltKern
<1>6. L \in Kerne
  BY HandeltRichtig
<1> QED
  BY <1>5, <1>6 DEF Lage, Vorher, Kerne

LEMMA HandeltAllesRichtig ==
  ASSUME IInv, BInv, NEW a \in Anlagen, NEW r, Handelt(a, r)
  PROVE  AllesRichtig(anlage', kanal', aktor')
<1> SUFFICES ASSUME NEW b \in Anlagen, NEW z \in Anlagen
             PROVE  Richtig(Kern(Lage(aktor'[b], anlage'[z], kanal'[z], b), anlage'[b]))
  BY DEF AllesRichtig, KernVon
<1> DEFINE f == Lage(aktor'[b], anlage'[z], kanal'[z], b)
<1>1. CASE b = a
  <2> DEFINE L == KernNach(a, z, r)
             e == Lage(aktor[a], anlage[z], kanal[z], a)
  <2>1. f \in Vorher /\ f.steht = L.steht /\ f.q1 = L.q1 /\ f.bereit = L.bereit /\ f.frei = L.frei
    BY <1>1, HandeltLage
  <2>2. Ist(e, r, L) /\ Richtig(L)
    BY HandeltRichtig
  <2>3. anlage'[b] = [r EXCEPT !.aus = <<>>]
    BY <1>1, HandeltDanach
  <2> HIDE DEF f, e, L
  <2>4. Richtig(Kern(f, [r EXCEPT !.aus = <<>>]))
    BY <2>1, <2>2, RichtigUebernommen
  <2> QED
    BY <2>3, <2>4 DEF f
<1>2. CASE b # a
  <2> DEFINE e == Lage(aktor[b], anlage[z], kanal[z], b)
             g == anlage[b]
             K == Kern(e, g)
  <2>1. /\ anlage'[b] = g /\ aktor'[b] = aktor[b] /\ g \in Maschine /\ Fertig(b, g)
        /\ aktor[b] \in Aktor
    BY <1>2, HandeltDanach
  <2>2. /\ EndFrei(anlage'[z], kanal'[z], b) = EndFrei(anlage[z], kanal[z], b)
        /\ b = 2 => EndBereit(anlage'[z], kanal'[z]) = EndBereit(anlage[z], kanal[z])
    BY <1>2, HandeltFremd
  <2>3. e \in Vorher
    BY <2>1, EndeTyp
  <2>4. /\ EndBereit(anlage'[z], kanal'[z]) \in Schalter
        /\ EndFrei(anlage'[z], kanal'[z], b) \in Schalter
    BY DEF EndFrei, EndBereit, Nach, An, Schalter
  <2>5. /\ f \in Vorher /\ f.steht = e.steht /\ f.q1 = e.q1 /\ f.frei = e.frei
        /\ f.bereit = e.bereit \/ b = 1
    BY <2>1, <2>2, <2>3, <2>4 DEF Lage, Vorher, Anlagen
  <2>6. Richtig(K)
    BY DEF BInv, AllesRichtig, KernVon
  <2>7. [g EXCEPT !.aus = <<>>] = g
    BY <2>1 DEF Fertig, Maschine
  <2> HIDE DEF f, e, g
  <2>8. Ist(e, g, K) /\ K.a = b /\ K.steht = e.steht /\ K.q1 = e.q1 /\ K.bereit = e.bereit
        /\ K.frei = e.frei
    BY <2>1, <2>3, KernRuhig
  <2> HIDE DEF K
  <2>9. f.steht = K.steht /\ f.q1 = K.q1 /\ (f.bereit = K.bereit \/ K.a = 1) /\ f.frei = K.frei
    BY <2>5, <2>8
  <2>10. Richtig(Kern(f, [g EXCEPT !.aus = <<>>]))
    BY <2>5, <2>6, <2>8, <2>9, RichtigUebernommen
  <2> QED
    BY <2>1, <2>7, <2>10 DEF f
<1> QED
  BY <1>1, <1>2

\* Plant 2 takes no notice of a workpiece at the first light barrier of plant 1.
LEMMA StummBeiLSA1 ==
  ASSUME NEW e, NEW g, NEW K, Ist(e, g, K), Richtig(K), Frisch(K), K.a = 2,
         NEW m, m.sig = "S_LSA1_UB"
  PROVE  handleEvent(g, m) = g
<1>1. /\ ~gFesto1(g) /\ ~g.exit
      /\ g.lsa # "BeginnSortierprozessF1" /\ g.lsa # "NaechsteWSErlaubt"
  <2>1. g.d.festo = 2 /\ ~g.exit /\ g.lsa = K.lsa
    BY IstTyp DEF Frisch
  <2>2. K.lsa # "BeginnSortierprozessF1" /\ K.lsa # "NaechsteWSErlaubt"
    BY DEF Richtig, EigeneRegionen
  <2> QED
    BY <2>1, <2>2 DEF gFesto1
<1>2. handleEvent(g, m) = trigger(g, "S_LSA1_UB")
  <2>1. handleEvent(g, m) = handleSensor(g, m)
    BY DEF handleEvent, SensorSignale, UebergabeSignale, RutscheSignale, WerkstueckSignale
  <2>2. handleSensor(g, m) = trigger(g, "S_LSA1_UB")
    BY <1>1 DEF handleSensor
  <2> QED
    BY <2>1, <2>2
<1>3. s_lsa1_ub(g) = g
  BY <1>1 DEF s_lsa1_ub, RegionenFertig, WartenAufLSA_s_lsa1_ub
<1>4. SortierungTrigger(g, "S_LSA1_UB") = g
  <2>1. SortierungTrigger(g, "S_LSA1_UB") = SensorTrigger(g, "S_LSA1_UB")
    BY DEF SortierungTrigger, SensorSignale, TimerSignale, TimerNamen, BandTimer, ZeitPuls,
           ToleranzPuls
  <2>2. SensorTrigger(g, "S_LSA1_UB") = s_lsa1_ub(g)
    BY DEF SensorTrigger
  <2> QED
    BY <1>3, <2>1, <2>2
<1>5. AufWSWartenTrigger(g, "S_LSA1_UB") = g
  BY <1>1 DEF AufWSWartenTrigger, AufWSWarten_s_lsa1_ub
<1>6. trigger(g, "S_LSA1_UB") = g
  BY <1>1, <1>4, <1>5 DEF trigger, BetriebszustandExit
<1> QED
  BY <1>2, <1>6

LEMMA HandeltSensor ==
  ASSUME IInv, BInv, NEW a \in Anlagen, NEW r, Handelt(a, r), NEW z \in Anlagen,
         NEW x \in Sensoren, Hat(kanal'[z], x)
  PROVE  Hat(kanal[z], x) /\ (z = a => Len(kanal[a]) # 1)
<1>1. x \in Wichtig
  BY DEF Sensoren, Wichtig
<1>2. x \notin KernNach(a, z, r).sig
  BY HandeltRichtig DEF Folgen, NurEigene
<1> QED
  BY <1>1, <1>2, HandeltInhalt

LEMMA HandeltEingang ==
  ASSUME IInv, BInv, NEW a \in Anlagen, NEW r, Handelt(a, r)
  PROVE  EingangZuerst(kanal')
<1> SUFFICES ASSUME NEW b \in Anlagen, Hat(kanal'[b], Eingang(b))
             PROVE  /\ Len(kanal'[b]) = 1
                    /\ \A i \in 1..Len(kanal'[3 - b]) : kanal'[3 - b][i].sig = "S_LSA1_UB"
  BY DEF EingangZuerst
<1>1. Eingang(b) \in Sensoren
  BY DEF Eingang, Sensoren
<1>2. Hat(kanal[b], Eingang(b)) /\ (b = a => Len(kanal[a]) # 1)
  BY <1>1, HandeltSensor
<1>3. EingangZuerst(kanal)
  BY DEF BInv, Ordnung
<1>4. Len(kanal[b]) = 1 /\ \A i \in 1..Len(kanal[3 - b]) : kanal[3 - b][i].sig = "S_LSA1_UB"
  BY <1>2, <1>3 DEF EingangZuerst
<1>5. b # a /\ a = 3 - b /\ 3 - b \in Anlagen
  BY <1>2, <1>4 DEF Anlagen
<1>6. kanal[a] \in Seq(Puls) /\ kanal[a] # <<>> /\ Tail(kanal[a]) \in Seq(Puls)
  <2>1. kanal[a] \in Seq(Puls) /\ kanal[a] # <<>>
    BY HandeltKanal
  <2> QED
    BY <2>1
<1>7. Erstes(a) = "S_LSA1_UB" /\ Hat(kanal[a], "S_LSA1_UB")
  BY <1>4, <1>5, <1>6 DEF Erstes, Hat
<1>8. a = 2
  <2>1. ASSUME a = 1 PROVE FALSE
    <3>1. Len(kanal[b]) = 1 /\ \A i \in 1..Len(kanal[b]) : kanal[b][i].sig = "S_LSA1_UB"
      <4>1. Hat(kanal[1], Eingang(1)) /\ b = 2
        BY <1>5, <1>7, <2>1 DEF Eingang, Anlagen
      <4> QED
        BY <1>3, <1>4, <4>1 DEF EingangZuerst, Anlagen
    <3>2. Eingang(b) = "S_LSA2_UB"
      BY <1>5, <2>1 DEF Eingang
    <3> QED
      BY <1>2, <3>1, <3>2 DEF Hat
  <2> QED
    BY <2>1 DEF Anlagen
<1>9. r = anlage[a]
  <2> DEFINE K == KernHier(a, a)
             e == Lage(aktor[a], anlage[a], kanal[a], a)
             m == Head(kanal[a])
  <2>1. Ist(e, anlage[a], K) /\ Richtig(K) /\ Frisch(K) /\ K.a = 2
    BY <1>6, <1>8, KommtRecht DEF KernHier
  <2>2. m.sig = "S_LSA1_UB" /\ r = handleEvent(anlage[a], m)
    BY <1>7 DEF Erstes, Handelt
  <2> HIDE DEF K, e, m
  <2> QED
    BY <2>1, <2>2, StummBeiLSA1
<1>10. r.aus = <<>>
  BY <1>9, HandeltDanach DEF Fertig
<1>11. \A z \in Anlagen : kanal'[z] = Wartend(a, z)
  <2> SUFFICES ASSUME NEW z \in Anlagen PROVE kanal'[z] = Wartend(a, z)
    OBVIOUS
  <2>1. kanal'[z] = KanalNach(z, Wartend(a, z), a, <<>>) /\ Wartend(a, z) \in Seq(Puls)
    BY <1>10, HandeltKanal
  <2> QED
    BY <2>1, KanalKurz
<1>12. kanal'[b] = kanal[b] /\ kanal'[a] = Tail(kanal[a])
  BY <1>5, <1>11 DEF Wartend
<1>13. \A i \in 1..Len(Tail(kanal[a])) : Tail(kanal[a])[i].sig = "S_LSA1_UB"
  BY <1>4, <1>5, <1>6
<1> QED
  BY <1>4, <1>5, <1>12, <1>13

\* What plant 2 takes plant 1 for when it has not heard the contrary.
LEMMA EinsLeer ==
  ASSUME IInv, BInv, anlage[2].d.festo1Frei, ~Hat(kanal[2], "S_FESTO1_NFREI")
  PROVE  anlage[1].d.anzahlWS = 0
<1>1. kanal[2] \in Seq(Puls)
  BY DEF IInv, Passt, Anlagen
<1>2. EndFrei(anlage[2], kanal[2], 1) = "an"
  BY <1>1, NachBleibtAn DEF EndFrei, WeissFrei, Frei, NichtFrei, An
<1> DEFINE K == KernVon(anlage, kanal, aktor, 1, 2)
           e == Lage(aktor[1], anlage[2], kanal[2], 1)
<1>3. Richtig(K)
  BY DEF BInv, AllesRichtig, Anlagen
<1>4. K = Kern(e, anlage[1]) /\ e.frei = "an"
  BY <1>2 DEF KernVon, Lage
<1>5. e \in Vorher /\ anlage[1] \in Maschine /\ Fertig(1, anlage[1])
  BY EndeTyp DEF IInv, Passt, Anlagen
<1> HIDE DEF e, K
<1>6. Ist(e, anlage[1], K) /\ K.frei = "an"
  BY <1>4, <1>5, KernRuhig DEF Anlagen
<1>7. K.n = anlage[1].d.anzahlWS
  BY <1>6, IstTyp
<1> QED
  BY <1>3, <1>6, <1>7 DEF Richtig, FreiRichtig

LEMMA HandeltErlaubt ==
  ASSUME IInv, BInv, NEW a \in Anlagen, NEW r, Handelt(a, r)
  PROVE  EingangErlaubt(anlage', kanal')
<1> SUFFICES ASSUME Hat(kanal'[1], "S_LSA1_UB"), anlage'[1].zustand = "Betriebszustand"
             PROVE  anlage'[1].bz = "AufWSWarten" \/ anlage'[1].lsa = "NaechsteWSErlaubt"
  BY DEF EingangErlaubt
<1>1. 1 \in Anlagen /\ "S_LSA1_UB" \in Sensoren /\ Eingang(1) = "S_LSA1_UB"
  BY DEF Anlagen, Sensoren, Eingang
<1>2. Hat(kanal[1], "S_LSA1_UB") /\ (1 = a => Len(kanal[a]) # 1)
  BY <1>1, HandeltSensor
<1>3. Len(kanal[1]) = 1
  BY <1>1, <1>2 DEF BInv, Ordnung, EingangZuerst
<1>4. anlage'[1] = anlage[1]
  BY <1>1, <1>2, <1>3, HandeltDanach
<1> QED
  BY <1>2, <1>4 DEF BInv, Ordnung, EingangErlaubt

LEMMA HandeltBelegt ==
  ASSUME IInv, BInv, NEW a \in Anlagen, NEW r, Handelt(a, r)
  PROVE  BelegtVorAbgang(kanal')
<1> DEFINE L == KernNach(a, 2, r)
           K == KernHier(a, 2)
<1> SUFFICES ASSUME Hat(kanal'[2], "S_FESTO1_NFREI")
             PROVE  ~Hat(kanal'[2], "S_LSR_UB") /\ ~Hat(kanal'[2], "S_LSE2_NUB")
  BY DEF BelegtVorAbgang
<1>1. /\ 2 \in Anlagen /\ "S_FESTO1_NFREI" \in Wichtig
      /\ "S_LSR_UB" \in Sensoren /\ "S_LSE2_NUB" \in Sensoren
  BY DEF Anlagen, Wichtig, Sensoren
<1>2. ~Hat(kanal[2], "S_LSR_UB") /\ ~Hat(kanal[2], "S_LSE2_NUB")
  <2>1. CASE Hat(kanal[2], "S_FESTO1_NFREI")
    BY <2>1 DEF BInv, Ordnung, BelegtVorAbgang
  <2>2. CASE "S_FESTO1_NFREI" \in L.sig
    <3>1. NurEigene(K, L) /\ ZaehltAmEingang(Erstes(a), K, L) /\ K.a = a /\ Hat(kanal[a], Erstes(a))
      BY <1>1, HandeltRichtig DEF Folgen
    <3>2. a = 1 /\ Erstes(a) = "S_LSA1_UB"
      BY <2>2, <3>1 DEF NurEigene, ZaehltAmEingang, Anlagen
    <3>3. \A i \in 1..Len(kanal[2]) : kanal[2][i].sig = "S_LSA1_UB"
      <4>1. Hat(kanal[1], Eingang(1))
        BY <3>1, <3>2 DEF Eingang
      <4> QED
        BY <4>1 DEF BInv, Ordnung, EingangZuerst, Anlagen
    <3> QED
      BY <3>3 DEF Hat
  <2> QED
    BY <1>1, <2>1, <2>2, HandeltInhalt
<1> QED
  BY <1>1, <1>2, HandeltSensor

LEMMA HandeltHoehe ==
  ASSUME IInv, BInv, NEW a \in Anlagen, NEW r, Handelt(a, r)
  PROVE  HoeheImLauf(anlage', kanal')
<1> SUFFICES ASSUME Hat(kanal'[1], "S_LSH_UB") PROVE FALSE
  BY DEF HoeheImLauf
<1>1. 1 \in Anlagen /\ "S_LSH_UB" \in Sensoren
  BY DEF Anlagen, Sensoren
<1>2. Hat(kanal[1], "S_LSH_UB") /\ (1 = a => Len(kanal[a]) # 1)
  BY <1>1, HandeltSensor
<1>3. Len(kanal[1]) = 1 /\ kanal[2] = <<>>
  BY <1>2 DEF BInv, Ordnung, HoeheImLauf
<1>4. kanal[a] # <<>>
  BY DEF Handelt
<1> QED
  BY <1>2, <1>3, <1>4 DEF Anlagen

\* A plant that counts no workpiece counts none after another pulse, unless the
\* pulse is its first light barrier's.
LEMMA BleibtLeer ==
  ASSUME IInv, BInv, NEW a \in Anlagen, NEW r, Handelt(a, r), NEW z \in Anlagen,
         anlage[z].d.anzahlWS = 0, z = a => Len(kanal[a]) # 1
  PROVE  anlage'[z].d.anzahlWS = 0
<1>1. CASE z # a
  <2>1. anlage'[z] = anlage[z]
    BY <1>1, HandeltDanach
  <2> QED
    BY <2>1
<1>2. CASE z = a
  <2> DEFINE K == KernHier(a, a)
             L == KernNach(a, a, r)
             e == Lage(aktor[a], anlage[a], kanal[a], a)
  <2>1. /\ Ist(e, anlage[a], K) /\ Ist(e, r, L) /\ K.a = a /\ ZaehltAmEingang(Erstes(a), K, L)
        /\ Hat(kanal[a], Erstes(a))
    BY HandeltRichtig DEF Folgen
  <2>2. Erstes(a) # Eingang(a)
    BY <1>2, <2>1 DEF BInv, Ordnung, EingangZuerst
  <2>3. r \in Maschine /\ anlage'[z] = [r EXCEPT !.aus = <<>>]
    BY <1>2, HandeltKanal, HandeltDanach
  <2>4. anlage'[z].d = r.d
    BY <2>3 DEF Maschine
  <2> HIDE DEF K, L, e
  <2>5. K.n = 0 /\ r.d.anzahlWS = L.n
    BY <1>2, <2>1, IstTyp
  <2>6. L.n = 0
    BY <2>1, <2>2, <2>5 DEF ZaehltAmEingang
  <2> QED
    BY <2>4, <2>5, <2>6
<1> QED
  BY <1>1, <1>2

\* What plant a counts afterwards.
LEMMA HandeltZahl ==
  ASSUME IInv, BInv, NEW a \in Anlagen, NEW r, Handelt(a, r), NEW z \in Anlagen
  PROVE  anlage'[a].d.anzahlWS = KernNach(a, z, r).n
<1>1. r \in Maschine /\ anlage'[a] = [r EXCEPT !.aus = <<>>]
  BY HandeltKanal, HandeltDanach
<1>2. anlage'[a].d = r.d
  BY <1>1 DEF Maschine
<1> QED
  BY <1>2 DEF KernNach, Kern

\* Plant 2 knows that plant 1 is empty when it sends it to rest.
LEMMA EinsGehtLeer ==
  ASSUME IInv, BInv, NEW r, Handelt(2, r), NEW z \in Anlagen,
         \/ "CMD_FESTOS_FREI" \in KernNach(2, z, r).sig
         \/ "S_FESTO1_STOPPEN" \in KernNach(2, z, r).sig
  PROVE  anlage'[1].d.anzahlWS = 0
<1> DEFINE K == KernHier(2, z)
           L == KernNach(2, z, r)
           e == Lage(aktor[2], anlage[z], kanal[z], 2)
           s == Erstes(2)
<1>1. 1 \in Anlagen /\ 2 \in Anlagen
  BY DEF Anlagen
<1>2. K.a = 2 /\ MeldetFrei(s, K, L) /\ Ist(e, anlage[2], K) /\ Hat(kanal[2], s)
  BY <1>1, HandeltRichtig DEF Folgen
<1>3. K.f1 = "an" /\ s \in {"S_LSR_UB", "S_LSE2_NUB", "S_LSA2_UB"}
  BY <1>2 DEF MeldetFrei
<1>4. ~Hat(kanal[2], "S_FESTO1_NFREI")
  <2>1. CASE s \in {"S_LSR_UB", "S_LSE2_NUB"}
    BY <1>2, <2>1 DEF BInv, Ordnung, BelegtVorAbgang
  <2>2. CASE s = "S_LSA2_UB"
    <3>1. Len(kanal[2]) = 1
      BY <1>1, <1>2, <2>2 DEF BInv, Ordnung, EingangZuerst, Eingang
    <3> QED
      BY <1>2, <2>2, <3>1 DEF Hat
  <2> QED
    BY <1>3, <2>1, <2>2
<1>5. anlage[2].d.festo1Frei
  <2> HIDE DEF K, L, e, s
  <2> QED
    BY <1>2, <1>3, IstTyp
<1>6. anlage[1].d.anzahlWS = 0
  BY <1>4, <1>5, EinsLeer
<1>7. anlage'[1] = anlage[1]
  BY <1>1 DEF Handelt, IInv, Typen
<1> QED
  BY <1>6, <1>7

LEMMA HandeltRuhe ==
  ASSUME IInv, BInv, NEW a \in Anlagen, NEW r, Handelt(a, r)
  PROVE  RuheZuRecht(anlage', kanal')
<1>1. RuheZuRecht(anlage, kanal)
  BY DEF BInv, Ordnung
<1>2. 1 \in Anlagen /\ 2 \in Anlagen
  BY DEF Anlagen
<1>3. /\ "CMD_FESTOS_FREI" \in Wichtig /\ "S_FESTO1_STOPPEN" \in Wichtig
      /\ "S_FESTO2_FREI" \in Wichtig
  BY DEF Wichtig
<1>4. ASSUME NEW z \in Anlagen, Hat(kanal'[z], "CMD_FESTOS_FREI")
      PROVE  anlage'[z].d.anzahlWS = 0
  <2> DEFINE L == KernNach(a, z, r)
  <2>1. CASE Hat(kanal[z], "CMD_FESTOS_FREI") /\ (z = a => Len(kanal[a]) # 1)
    BY <1>1, <2>1, BleibtLeer DEF RuheZuRecht
  <2>2. CASE "CMD_FESTOS_FREI" \in L.sig /\ z \in Ziele(a, "CMD_FESTOS_FREI")
    <3>1. L.n = 0
      BY <2>2, HandeltRichtig DEF Folgen, MeldetFrei
    <3>2. CASE z = a
      BY <3>1, <3>2, HandeltZahl
    <3>3. CASE z # a
      <4>1. a = 2 /\ z = 1
        BY <2>2, <3>3 DEF Ziele, istMeinSignal, Anlagen
      <4> QED
        BY <2>2, <4>1, EinsGehtLeer
    <3> QED
      BY <3>2, <3>3
  <2> QED
    BY <1>3, <1>4, <2>1, <2>2, HandeltInhalt
<1>5. ASSUME Hat(kanal'[1], "S_FESTO1_STOPPEN")
      PROVE  anlage'[1].d.anzahlWS = 0
  <2> DEFINE L == KernNach(a, 1, r)
  <2>1. CASE Hat(kanal[1], "S_FESTO1_STOPPEN") /\ (1 = a => Len(kanal[a]) # 1)
    BY <1>1, <1>2, <2>1, BleibtLeer DEF RuheZuRecht
  <2>2. CASE "S_FESTO1_STOPPEN" \in L.sig
    <3>1. NurEigene(KernHier(a, 1), L) /\ KernHier(a, 1).a = a
      BY <1>2, HandeltRichtig DEF Folgen
    <3>2. a = 2
      BY <2>2, <3>1 DEF NurEigene, Anlagen
    <3> QED
      BY <1>2, <2>2, <3>2, EinsGehtLeer
  <2> QED
    BY <1>2, <1>3, <1>5, <2>1, <2>2, HandeltInhalt
<1>6. ASSUME Hat(kanal'[2], "S_FESTO2_FREI")
      PROVE  anlage'[2].d.anzahlWS = 0
  <2> DEFINE L == KernNach(a, 2, r)
  <2>1. CASE Hat(kanal[2], "S_FESTO2_FREI") /\ (2 = a => Len(kanal[a]) # 1)
    BY <1>1, <1>2, <2>1, BleibtLeer DEF RuheZuRecht
  <2>2. CASE "S_FESTO2_FREI" \in L.sig
    <3>1. NurEigene(KernHier(a, 2), L) /\ KernHier(a, 2).a = a /\ MeldetFrei(Erstes(a), KernHier(a, 2), L)
      BY <1>2, HandeltRichtig DEF Folgen
    <3>2. a = 2 /\ L.n = 0
      BY <2>2, <3>1 DEF NurEigene, MeldetFrei, Anlagen
    <3> QED
      BY <1>2, <3>2, HandeltZahl
  <2> QED
    BY <1>2, <1>3, <1>6, <2>1, <2>2, HandeltInhalt
<1> QED
  BY <1>4, <1>5, <1>6 DEF RuheZuRecht

LEMMA VerarbeitenBetrieb ==
  ASSUME IInv, BInv, NEW a \in Anlagen, Verarbeiten(a)
  PROVE  BInv'
<1> DEFINE r == handleEvent(anlage[a], Head(kanal[a]))
<1>1. Handelt(a, r)
  BY DEF Verarbeiten, Uebernehmen, Handelt
<1> HIDE DEF r
<1>2. AllesRichtig(anlage', kanal', aktor') /\ Einig(anlage', kanal')
  BY <1>1, HandeltAllesRichtig, HandeltBereit
<1>3. Ordnung(anlage', kanal')
  BY <1>1, HandeltEingang, HandeltErlaubt, HandeltBelegt, HandeltRuhe, HandeltHoehe DEF Ordnung
<1> QED
  BY <1>2, <1>3 DEF BInv

-----------------------------------------------------------------------------
(***************************************************************************)
(* The belts and the user: the machines do not change, a sensor of one     *)
(* plant sends some pulses while none waits.                               *)
(***************************************************************************)
Schweigt(s) == \A x \in Nachrichten : ~Hat(s, x)

LEMMA KanalNeutral ==
  ASSUME NEW v \in Schalter, NEW a \in Anlagen, NEW z \in Anlagen, NEW k \in Seq(Puls),
         NEW s \in Seq(Puls), Schweigt(s), NEW ein, NEW aus, Paar(ein, aus)
  PROVE  Nach(v, KanalNach(z, k, a, s), ein, aus) = Nach(v, k, ein, aus)
<1>1. ein \in Nachrichten /\ aus \in Nachrichten /\ ein # aus
  BY PaarTyp
<1>2. ~Hat(s, ein) /\ ~Hat(s, aus)
  BY <1>1 DEF Schweigt
<1>3. Nach(v, KanalNach(z, k, a, s), ein, aus) = Nach(Nach(v, k, ein, aus), s, ein, aus)
  <2>1. \A x \in {ein, aus} : Hat(s, x) => z \in Ziele(a, x)
    BY <1>2
  <2> QED
    BY <1>1, <2>1, NachKanal
<1>4. Nach(v, k, ein, aus) \in Schalter
  BY DEF Nach, An, Schalter
<1> QED
  BY <1>2, <1>3, <1>4, NachNeutral

LEMMA WissenNeutral ==
  ASSUME NEW a \in Anlagen, NEW z \in Anlagen, NEW k \in Seq(Puls), NEW s \in Seq(Puls),
         Schweigt(s), NEW g
  PROVE  /\ EndBereit(g, KanalNach(z, k, a, s)) = EndBereit(g, k)
         /\ \A b \in Anlagen : EndFrei(g, KanalNach(z, k, a, s), b) = EndFrei(g, k, b)
<1>1. An(g.d.f2_bereit) \in Schalter /\ \A b \in Anlagen : WeissFrei(g, b) \in Schalter
  BY DEF An, Schalter, WeissFrei
<1>2. Paar("S_FESTO2_BEREIT", "S_FESTO2_NBEREIT") /\ \A b \in Anlagen : Paar(Frei(b), NichtFrei(b))
  BY DEF Paar, Frei, NichtFrei, Anlagen
<1>3. EndBereit(g, KanalNach(z, k, a, s)) = EndBereit(g, k)
  BY <1>1, <1>2, KanalNeutral DEF EndBereit
<1>4. ASSUME NEW b \in Anlagen
      PROVE  EndFrei(g, KanalNach(z, k, a, s), b) = EndFrei(g, k, b)
  BY <1>1, <1>2, KanalNeutral DEF EndFrei
<1> QED
  BY <1>3, <1>4

\* Neither belt nor lamp of a plant is switched.
AktorenBleiben ==
  \A a \in Anlagen : EndSteht(aktor'[a]) = EndSteht(aktor[a]) /\ EndQ1(aktor'[a]) = EndQ1(aktor[a])

LEMMA MeldungRichtig ==
  ASSUME IInv, BInv, NEW b \in Anlagen, NEW s \in Seq(Puls), Schweigt(s),
         anlage' = anlage, kanal' = Zustellen(kanal, b, s), AktorenBleiben
  PROVE  AllesRichtig(anlage', kanal', aktor') /\ Einig(anlage', kanal')
<1>1. \A z \in Anlagen : kanal[z] \in Seq(Puls) /\ kanal'[z] = KanalNach(z, kanal[z], b, s)
  BY DEF IInv, Passt, Zustellen
<1>2. ASSUME NEW z \in Anlagen
      PROVE  /\ EndBereit(anlage[z], kanal'[z]) = EndBereit(anlage[z], kanal[z])
             /\ \A a \in Anlagen : EndFrei(anlage[z], kanal'[z], a) = EndFrei(anlage[z], kanal[z], a)
  <2>1. kanal[z] \in Seq(Puls) /\ kanal'[z] = KanalNach(z, kanal[z], b, s)
    BY <1>1
  <2>2. EndBereit(anlage[z], KanalNach(z, kanal[z], b, s)) = EndBereit(anlage[z], kanal[z])
    BY <2>1, WissenNeutral
  <2>3. ASSUME NEW a \in Anlagen
        PROVE  EndFrei(anlage[z], KanalNach(z, kanal[z], b, s), a) = EndFrei(anlage[z], kanal[z], a)
    BY <2>1, <2>2, WissenNeutral
  <2> QED
    BY <2>1, <2>2, <2>3
<1>3. \A a \in Anlagen, z \in Anlagen :
        Lage(aktor'[a], anlage'[z], kanal'[z], a) = Lage(aktor[a], anlage[z], kanal[z], a)
  BY <1>2 DEF Lage, AktorenBleiben
<1>4. AllesRichtig(anlage', kanal', aktor')
  BY <1>3 DEF BInv, AllesRichtig, KernVon
<1>5. Einig(anlage', kanal')
  BY <1>2 DEF BInv, Einig, Anlagen
<1> QED
  BY <1>4, <1>5

\* Pulses that nothing in Ordnung is about.
Harmlos(s) ==
  Schweigt(s) /\ \A x \in {"S_LSA1_UB", "S_LSA2_UB", "S_LSH_UB", "CMD_FESTOS_FREI",
                          "S_FESTO1_STOPPEN"} : ~Hat(s, x)

LEMMA HarmlosOrdnung ==
  ASSUME NEW G, NEW K, \A a \in Anlagen : Harmlos(K[a])
  PROVE  Ordnung(G, K)
<1>1. /\ "S_FESTO1_NFREI" \in Nachrichten /\ "S_FESTO2_FREI" \in Nachrichten
      /\ 1 \in Anlagen /\ 2 \in Anlagen
      /\ \A a \in Anlagen : Eingang(a) \in {"S_LSA1_UB", "S_LSA2_UB"}
  BY DEF Nachrichten, Anlagen, Eingang
<1>2. \A a \in Anlagen :
        /\ ~Hat(K[a], Eingang(a)) /\ ~Hat(K[a], "S_LSA1_UB") /\ ~Hat(K[a], "S_LSH_UB")
        /\ ~Hat(K[a], "CMD_FESTOS_FREI") /\ ~Hat(K[a], "S_FESTO1_STOPPEN")
        /\ ~Hat(K[a], "S_FESTO1_NFREI") /\ ~Hat(K[a], "S_FESTO2_FREI")
  BY <1>1 DEF Harmlos, Schweigt
<1> QED
  BY <1>1, <1>2 DEF Ordnung, EingangZuerst, EingangErlaubt, BelegtVorAbgang, RuheZuRecht, HoeheImLauf

LEMMA RuheHarmlos ==
  ASSUME IInv, Ruhe, NEW b \in Anlagen, NEW s \in Seq(Puls), Harmlos(s), NEW z \in Anlagen
  PROVE  Harmlos(KanalNach(z, kanal[z], b, s))
<1>1. kanal[z] \in Seq(Puls) /\ \A x : ~Hat(kanal[z], x)
  BY GesendetLeer DEF IInv, Passt, Ruhe
<1> DEFINE k == KanalNach(z, kanal[z], b, s)
<1>2. \A x : Hat(k, x) => Hat(s, x)
  <2> SUFFICES ASSUME NEW x, Hat(k, x) PROVE Hat(s, x)
    OBVIOUS
  <2> QED
    BY <1>1, KanalInhalt
<1> HIDE DEF k
<1>3. Harmlos(k)
  BY <1>2 DEF Harmlos, Schweigt
<1> QED
  BY <1>3 DEF k

LEMMA HarmloseMeldung ==
  ASSUME IInv, BInv, Ruhe, NEW b \in Anlagen, NEW s \in Seq(Puls), Harmlos(s),
         anlage' = anlage, kanal' = Zustellen(kanal, b, s), AktorenBleiben
  PROVE  BInv'
<1>1. AllesRichtig(anlage', kanal', aktor') /\ Einig(anlage', kanal')
  BY MeldungRichtig DEF Harmlos
<1>2. \A z \in Anlagen : kanal'[z] = KanalNach(z, kanal[z], b, s)
  BY DEF Zustellen
<1>3. \A z \in Anlagen : Harmlos(kanal'[z])
  BY <1>2, RuheHarmlos
<1>4. Ordnung(anlage', kanal')
  BY <1>3, HarmlosOrdnung
<1> QED
  BY <1>1, <1>4 DEF BInv

\* The signals of a sequence of one or two pulses.
LEMMA HatEins ==
  ASSUME NEW m, NEW n
  PROVE  /\ \A x : Hat(<<m>>, x) <=> x = m.sig
         /\ \A x : Hat(<<m, n>>, x) <=> x = m.sig \/ x = n.sig
<1>1. /\ Len(<<m>>) = 1 /\ <<m>>[1] = m
      /\ Len(<<m, n>>) = 2 /\ <<m, n>>[1] = m /\ <<m, n>>[2] = n
  OBVIOUS
<1>2. \A x : Hat(<<m>>, x) <=> x = m.sig
  BY <1>1 DEF Hat
<1>3. \A x : Hat(<<m, n>>, x) <=> x = m.sig \/ x = n.sig
  BY <1>1 DEF Hat
<1> QED
  BY <1>2, <1>3

LEMMA AktorenSelbst == aktor' = aktor => AktorenBleiben
  BY DEF AktorenBleiben

LEMMA AktorenRutsche ==
  ASSUME IInv, NEW b \in Anlagen, NEW n, aktor' = [aktor EXCEPT ![b].rutsche = n]
  PROVE  AktorenBleiben
<1>1. aktor \in [Anlagen -> Aktor]
  BY DEF IInv, Typen
<1>2. \A a \in Anlagen : /\ aktor'[a].motor = aktor[a].motor /\ aktor'[a].wartend = aktor[a].wartend
                         /\ aktor'[a].q1 = aktor[a].q1
  BY <1>1 DEF Aktor
<1> QED
  BY <1>2 DEF AktorenBleiben, EndSteht, EndQ1

\* What a signal may be that is not in Ordnung.
LEMMA HarmlosEins ==
  ASSUME NEW m, NEW n,
         \A x \in {m.sig, n.sig} :
           x \notin Nachrichten \cup {"S_LSA1_UB", "S_LSA2_UB", "S_LSH_UB", "CMD_FESTOS_FREI",
                                      "S_FESTO1_STOPPEN"}
  PROVE  Harmlos(<<>>) /\ Harmlos(<<m>>) /\ Harmlos(<<m, n>>)
<1>1. Harmlos(<<>>)
  BY GesendetLeer DEF Harmlos, Schweigt
<1>2. Harmlos(<<m>>) /\ Harmlos(<<m, n>>)
  BY HatEins DEF Harmlos, Schweigt
<1> QED
  BY <1>1, <1>2

Unbedeutend == {"S_LSH_NUB", "S_METAL_AN", "S_LSW_UB", "S_LSE1_UB", "S_LSE2_UB", "S_LSE2_NUB",
                "S_LSR_UB", "WERKSTUECK_FLACH", "WERKSTUECK_HOCH", "WERKSTUECK_MIT_BOHRUNG",
                "WERKSTUECK_UNBEKANNT", "EC_RTSCH1_VOLL", "EC_RTSCH2_VOLL", "CMD_RTSCH1_NV",
                "CMD_RTSCH2_NV"}

LEMMA HarmloseSensoren ==
  /\ Harmlos(<<>>)
  /\ \A x \in Unbedeutend : Harmlos(<<Meldung(x)>>)
  /\ \A x \in Unbedeutend, y \in Unbedeutend : Harmlos(<<Meldung(x), Meldung(y)>>)
<1>1. ASSUME NEW x \in Unbedeutend, NEW y \in Unbedeutend
      PROVE  /\ Harmlos(<<>>) /\ Harmlos(<<Meldung(x)>>) /\ Harmlos(<<Meldung(x), Meldung(y)>>)
  <2>1. \A u \in Unbedeutend :
          /\ u \notin Nachrichten
          /\ u \notin {"S_LSA1_UB", "S_LSA2_UB", "S_LSH_UB", "CMD_FESTOS_FREI", "S_FESTO1_STOPPEN"}
    BY DEF Unbedeutend, Nachrichten
  <2>2. Meldung(x).sig = x /\ Meldung(y).sig = y
    BY DEF Meldung
  <2> QED
    BY <2>1, <2>2, HarmlosEins
<1>2. "S_LSH_NUB" \in Unbedeutend
  BY DEF Unbedeutend
<1> QED
  BY <1>1, <1>2

\* The only pulses a belt sends that Ordnung is about.
LEMMA SensorPulseArt ==
  ASSUME NEW a \in Anlagen, NEW p, NEW art
  PROVE  LET s == SensorPulse(a, p, art)
         IN  \/ Harmlos(s) \/ s = <<Meldung("S_LSH_UB")>>
             \/ a = 2 /\ s = <<Meldung("S_LSA2_UB")>>
<1> DEFINE s == SensorPulse(a, p, art)
           metall == <<Meldung("S_METAL_AN"), Meldung("S_LSW_UB")>>
           mass(x) == <<Meldung(x), Meldung("S_LSH_NUB")>>
           ende == <<Meldung(IF a = 1 THEN "S_LSE1_UB" ELSE "S_LSE2_UB")>>
           weiche == <<Meldung("S_LSW_UB")>>
<1>1. Messung(art) \in {"WERKSTUECK_FLACH", "WERKSTUECK_HOCH", "WERKSTUECK_MIT_BOHRUNG",
                        "WERKSTUECK_UNBEKANNT"}
  BY DEF Messung
<1>2. \/ a = 2 /\ s = <<Meldung("S_LSA2_UB")>>
      \/ s = <<Meldung("S_LSH_UB")>> \/ s = mass(Messung(art)) \/ s = metall
      \/ s = weiche \/ s = ende \/ s = <<>>
  BY DEF SensorPulse
<1>3. Messung(art) \in Unbedeutend /\ {"S_LSH_NUB", "S_METAL_AN", "S_LSW_UB", "S_LSE1_UB",
                                       "S_LSE2_UB"} \subseteq Unbedeutend
  BY <1>1 DEF Unbedeutend
<1>4. Harmlos(mass(Messung(art))) /\ Harmlos(metall) /\ Harmlos(weiche) /\ Harmlos(<<>>)
  BY <1>3, HarmloseSensoren
<1>5. Harmlos(ende)
  BY <1>3, HarmloseSensoren
<1> HIDE DEF metall, mass, ende, weiche, s
<1>6. \/ Harmlos(s) \/ s = <<Meldung("S_LSH_UB")>>
      \/ a = 2 /\ s = <<Meldung("S_LSA2_UB")>>
  BY <1>2, <1>4, <1>5
<1> QED
  BY <1>6 DEF s

\* One pulse that a sensor of plant b sends while none waits.
LEMMA EinPuls ==
  ASSUME IInv, Ruhe, NEW b \in Anlagen, NEW m \in Puls, ~FuerHAL(m),
         kanal' = Zustellen(kanal, b, <<m>>), NEW z \in Anlagen
  PROVE  kanal'[z] = IF z \in Ziele(b, m.sig) THEN <<m>> ELSE <<>>
<1>1. kanal'[z] = KanalNach(z, <<>>, b, <<m>>)
  BY DEF Ruhe, Zustellen
<1> QED
  BY <1>1, KanalKurz

\* The belt of plant 1 runs only while plant 1 does not wait to hand over.
LEMMA LaufWartetNicht ==
  ASSUME IInv, BInv, aktor[1].motor # "stop"
  PROVE  ~anlage[1].d.enteredWartenAufErlaubnisVonF2
<1> DEFINE K == KernVon(anlage, kanal, aktor, 1, 1)
           e == Lage(aktor[1], anlage[1], kanal[1], 1)
<1>1. /\ anlage[1] \in Maschine /\ Fertig(1, anlage[1]) /\ aktor[1] \in Aktor
      /\ Bereit(1, aktor[1]) /\ 1 \in Anlagen
  BY DEF IInv, Passt, Anlagen
<1>2. aktor[1].wartend = <<>>
  BY <1>1 DEF Bereit, Blockiert
<1>3. EndSteht(aktor[1]) = "aus"
  BY <1>1, <1>2, EndTyp DEF An
<1>4. e \in Vorher /\ e.steht = "aus" /\ K = Kern(e, anlage[1])
  BY <1>1, <1>3, EndeTyp DEF Lage, KernVon
<1>5. Richtig(K)
  BY <1>1 DEF BInv, AllesRichtig
<1> HIDE DEF e, K
<1>6. Ist(e, anlage[1], K) /\ K.steht = "aus"
  BY <1>1, <1>4, KernRuhig
<1>7. K.wart # "an"
  BY <1>5, <1>6 DEF Richtig, StehtRichtig
<1> QED
  BY <1>6, <1>7, IstTyp

\* The lamp of the start button is on only when plant 1 would take a workpiece.
LEMMA LampeErlaubt ==
  ASSUME IInv, BInv, anlage[1].zustand = "Betriebszustand"
  PROVE  aktor[1].q1 <=> anlage[1].bz = "AufWSWarten" \/ anlage[1].lsa = "NaechsteWSErlaubt"
<1> DEFINE K == KernVon(anlage, kanal, aktor, 1, 1)
           e == Lage(aktor[1], anlage[1], kanal[1], 1)
<1>1. /\ anlage[1] \in Maschine /\ Fertig(1, anlage[1]) /\ aktor[1] \in Aktor
      /\ Bereit(1, aktor[1]) /\ 1 \in Anlagen
  BY DEF IInv, Passt, Anlagen
<1>2. aktor[1].wartend = <<>> /\ aktor[1].q1 \in BOOLEAN
  BY <1>1 DEF Bereit, Blockiert, Aktor
<1>3. EndQ1(aktor[1]) = "an" <=> aktor[1].q1
  BY <1>1, <1>2, EndTyp DEF An
<1>4. e \in Vorher /\ (e.q1 = "an" <=> aktor[1].q1) /\ K = Kern(e, anlage[1])
  BY <1>1, <1>3, EndeTyp DEF Lage, KernVon
<1>5. Richtig(K)
  BY <1>1 DEF BInv, AllesRichtig
<1> HIDE DEF e, K
<1>6. Ist(e, anlage[1], K) /\ (K.q1 = "an" <=> aktor[1].q1) /\ K.a = 1
  BY <1>1, <1>4, KernRuhig
<1>7. K.zu = anlage[1].zustand /\ K.bz = anlage[1].bz /\ K.lsa = anlage[1].lsa
  BY <1>6, IstTyp
<1> QED
  BY <1>5, <1>6, <1>7 DEF Richtig, LampeRichtig

\* A plant's first light barrier, or its height sensor, sends while no pulse waits.
LEMMA LSHMeldung ==
  ASSUME IInv, BInv, Ruhe, NEW b \in Anlagen, anlage' = anlage, aktor' = aktor,
         kanal' = Zustellen(kanal, b, <<Meldung("S_LSH_UB")>>),
         b = 1 => aktor[1].motor # "stop"
  PROVE  BInv'
<1> DEFINE m == Meldung("S_LSH_UB")
<1>1. m \in Puls /\ ~FuerHAL(m) /\ m.sig = "S_LSH_UB" /\ <<m>> \in Seq(Puls)
  <2>1. "S_LSH_UB" \in Signale /\ "S_LSH_UB" \notin BefehlSignale
    BY DEF Signale, SensorSignale, BefehlSignale
  <2>2. m \in Puls
    BY <2>1, MeldungTyp
  <2> QED
    BY <2>1, <2>2 DEF Meldung, FuerHAL
<1> HIDE DEF m
<1>2. \A x : Hat(<<m>>, x) <=> x = "S_LSH_UB"
  BY <1>1, HatEins
<1>3. AllesRichtig(anlage', kanal', aktor') /\ Einig(anlage', kanal')
  <2>1. Schweigt(<<m>>)
    BY <1>2 DEF Schweigt, Nachrichten
  <2> QED
    BY <1>1, <2>1, AktorenSelbst, MeldungRichtig DEF m
<1>4. \A z \in Anlagen : kanal'[z] = IF z \in Ziele(b, "S_LSH_UB") THEN <<m>> ELSE <<>>
  BY <1>1, EinPuls DEF m
<1>5. \A z \in Anlagen : z \in Ziele(b, "S_LSH_UB") <=> z = b
  BY DEF Ziele, istMeinSignal, Anlagen
<1>6. \A z \in Anlagen : \A x : Hat(kanal'[z], x) => z = b /\ x = "S_LSH_UB"
  BY <1>2, <1>4, <1>5, GesendetLeer
<1>7. Len(<<m>>) = 1
  OBVIOUS
<1>8. HoeheImLauf(anlage', kanal')
  <2> SUFFICES ASSUME Hat(kanal'[1], "S_LSH_UB")
               PROVE  /\ Len(kanal'[1]) = 1 /\ kanal'[2] = <<>>
                      /\ ~anlage'[1].d.enteredWartenAufErlaubnisVonF2
    BY DEF HoeheImLauf
  <2>1. b = 1
    BY <1>6 DEF Anlagen
  <2> QED
    BY <1>4, <1>5, <1>7, <2>1, LaufWartetNicht DEF Anlagen
<1>9. \A a \in Anlagen : Eingang(a) # "S_LSH_UB"
  BY DEF Eingang
<1>10. EingangZuerst(kanal') /\ EingangErlaubt(anlage', kanal') /\ BelegtVorAbgang(kanal')
  BY <1>6, <1>9 DEF EingangZuerst, EingangErlaubt, BelegtVorAbgang, Anlagen
<1>11. RuheZuRecht(anlage', kanal')
  BY <1>6 DEF RuheZuRecht, Anlagen
<1> QED
  BY <1>3, <1>8, <1>10, <1>11 DEF BInv, Ordnung

LEMMA LSA2Meldung ==
  ASSUME IInv, BInv, Ruhe, anlage' = anlage, aktor' = aktor,
         kanal' = Zustellen(kanal, 2, <<Meldung("S_LSA2_UB")>>)
  PROVE  BInv'
<1> DEFINE m == Meldung("S_LSA2_UB")
<1>1. m \in Puls /\ ~FuerHAL(m) /\ m.sig = "S_LSA2_UB" /\ <<m>> \in Seq(Puls) /\ 2 \in Anlagen
  <2>1. "S_LSA2_UB" \in Signale /\ "S_LSA2_UB" \notin BefehlSignale
    BY DEF Signale, SensorSignale, BefehlSignale
  <2>2. m \in Puls
    BY <2>1, MeldungTyp
  <2> QED
    BY <2>1, <2>2 DEF Meldung, FuerHAL, Anlagen
<1> HIDE DEF m
<1>2. \A x : Hat(<<m>>, x) <=> x = "S_LSA2_UB"
  BY <1>1, HatEins
<1>3. AllesRichtig(anlage', kanal', aktor') /\ Einig(anlage', kanal')
  <2>1. Schweigt(<<m>>)
    BY <1>2 DEF Schweigt, Nachrichten
  <2> QED
    BY <1>1, <2>1, AktorenSelbst, MeldungRichtig DEF m
<1>4. \A z \in Anlagen : kanal'[z] = IF z \in Ziele(2, "S_LSA2_UB") THEN <<m>> ELSE <<>>
  BY <1>1, EinPuls DEF m
<1>5. 2 \in Ziele(2, "S_LSA2_UB") /\ 1 \notin Ziele(2, "S_LSA2_UB")
  BY DEF Ziele, istMeinSignal
<1>6. kanal'[2] = <<m>> /\ kanal'[1] = <<>>
  BY <1>4, <1>5 DEF Anlagen
<1>7. \A z \in Anlagen : \A x : Hat(kanal'[z], x) => z = 2 /\ x = "S_LSA2_UB"
  BY <1>2, <1>6, GesendetLeer DEF Anlagen
<1>8. Len(<<m>>) = 1 /\ Len(<<>>) = 0
  OBVIOUS
<1>9. EingangZuerst(kanal')
  <2> SUFFICES ASSUME NEW a \in Anlagen, Hat(kanal'[a], Eingang(a))
               PROVE  /\ Len(kanal'[a]) = 1
                      /\ \A i \in 1..Len(kanal'[3 - a]) : kanal'[3 - a][i].sig = "S_LSA1_UB"
    BY DEF EingangZuerst
  <2>1. a = 2
    BY <1>7
  <2>2. Len(kanal'[2]) = 1 /\ Len(kanal'[3 - 2]) = 0
    BY <1>6, <1>8
  <2> QED
    BY <2>1, <2>2
<1>10. EingangErlaubt(anlage', kanal') /\ BelegtVorAbgang(kanal') /\ HoeheImLauf(anlage', kanal')
  BY <1>7 DEF EingangErlaubt, BelegtVorAbgang, HoeheImLauf, Anlagen
<1>11. RuheZuRecht(anlage', kanal')
  BY <1>7 DEF RuheZuRecht, Anlagen
<1> QED
  BY <1>3, <1>9, <1>10, <1>11 DEF BInv, Ordnung

LEMMA LSA1Meldung ==
  ASSUME IInv, BInv, Ruhe, anlage' = anlage, aktor' = aktor,
         kanal' = Zustellen(kanal, 1, <<Meldung("S_LSA1_UB")>>),
         aktor[1].q1, anlage[1].zustand = "Betriebszustand"
  PROVE  BInv'
<1> DEFINE m == Meldung("S_LSA1_UB")
<1>1. m \in Puls /\ ~FuerHAL(m) /\ m.sig = "S_LSA1_UB" /\ <<m>> \in Seq(Puls) /\ 1 \in Anlagen
  <2>1. "S_LSA1_UB" \in Signale /\ "S_LSA1_UB" \notin BefehlSignale
    BY DEF Signale, SensorSignale, BefehlSignale
  <2>2. m \in Puls
    BY <2>1, MeldungTyp
  <2> QED
    BY <2>1, <2>2 DEF Meldung, FuerHAL, Anlagen
<1> HIDE DEF m
<1>2. \A x : Hat(<<m>>, x) <=> x = "S_LSA1_UB"
  BY <1>1, HatEins
<1>3. AllesRichtig(anlage', kanal', aktor') /\ Einig(anlage', kanal')
  <2>1. Schweigt(<<m>>)
    BY <1>2 DEF Schweigt, Nachrichten
  <2> QED
    BY <1>1, <2>1, AktorenSelbst, MeldungRichtig DEF m
<1>4. \A z \in Anlagen : kanal'[z] = IF z \in Ziele(1, "S_LSA1_UB") THEN <<m>> ELSE <<>>
  BY <1>1, EinPuls DEF m
<1>5. 1 \in Ziele(1, "S_LSA1_UB") /\ 2 \in Ziele(1, "S_LSA1_UB")
  BY DEF Ziele, istMeinSignal
<1>6. kanal'[1] = <<m>> /\ kanal'[2] = <<m>>
  BY <1>4, <1>5 DEF Anlagen
<1>7. \A z \in Anlagen : \A x : Hat(kanal'[z], x) => x = "S_LSA1_UB"
  BY <1>2, <1>6 DEF Anlagen
<1>8. Len(<<m>>) = 1 /\ <<m>>[1] = m
  OBVIOUS
<1>9. EingangZuerst(kanal')
  <2> SUFFICES ASSUME NEW a \in Anlagen, Hat(kanal'[a], Eingang(a))
               PROVE  /\ Len(kanal'[a]) = 1
                      /\ \A i \in 1..Len(kanal'[3 - a]) : kanal'[3 - a][i].sig = "S_LSA1_UB"
    BY DEF EingangZuerst
  <2>1. kanal'[a] = <<m>> /\ kanal'[3 - a] = <<m>>
    BY <1>6 DEF Anlagen
  <2>2. \A i \in 1..1 : <<m>>[i].sig = "S_LSA1_UB"
    BY <1>1, <1>8
  <2> QED
    BY <1>8, <2>1, <2>2
<1>10. EingangErlaubt(anlage', kanal')
  BY LampeErlaubt DEF EingangErlaubt
<1>11. BelegtVorAbgang(kanal') /\ HoeheImLauf(anlage', kanal')
  BY <1>7 DEF BelegtVorAbgang, HoeheImLauf, Anlagen
<1>12. RuheZuRecht(anlage', kanal')
  BY <1>7 DEF RuheZuRecht, Anlagen
<1> QED
  BY <1>3, <1>9, <1>10, <1>11, <1>12 DEF BInv, Ordnung

LEMMA ZweiPulse ==
  ASSUME NEW S, NEW x \in S, NEW y \in S
  PROVE  Append(<<x>>, y) = <<x, y>>
<1> DEFINE A == Append(<<x>>, y)
           B == <<x, y>>
<1>1. A \in Seq(S) /\ B \in Seq(S) /\ Len(A) = 2 /\ Len(B) = 2
  OBVIOUS
<1>2. A[1] = x /\ A[2] = y /\ B[1] = x /\ B[2] = y
  OBVIOUS
<1> HIDE DEF A, B
<1>3. \A i \in 1..2 : A[i] = B[i]
  BY <1>2
<1>4. A = B
  BY <1>1, <1>3, SeqEqual
<1> QED
  BY <1>4 DEF A, B

LEMMA StreckenTyp == LSE[1] \in Int
<1>1. \A n \in TimerNamen : Strecke(n) \in Int
  BY BasisAnnahme DEF Strecke
<1>2. {"lsh", "lsw", "lse"} \subseteq TimerNamen /\ 1 \in Anlagen
  BY DEF TimerNamen, BandTimer, Anlagen
<1>3. LSA[1] = 0
  BY <1>2 DEF LSA
<1>4. LSH[1] = LSA[1] + Strecke("lsh") /\ LSW[1] = LSH[1] + Strecke("lsw")
  BY <1>2 DEF LSH, LSW
<1>5. LSE[1] = LSW[1] + Strecke("lse")
  BY <1>2 DEF LSE
<1> QED
  BY <1>1, <1>2, <1>3, <1>4, <1>5

LEMMA BewegenBetrieb ==
  ASSUME IInv, BInv, NEW w \in Plaetze, Bewegen(w)
  PROVE  BInv'
<1> DEFINE p == ws[w].pos + 1
           a == IF p <= LSE[1] THEN 1 ELSE 2
           weg == IF ws[w].pos = LSW[a] /\ ~aktor[a].offen THEN "abzweig" ELSE ws[w].weg
           s == SensorPulse(a, p, ws[w].art)
<1>1. a \in Anlagen
  BY DEF Anlagen
<1>2. /\ kanal' = IF weg = "abzweig" THEN kanal ELSE Zustellen(kanal, a, s)
      /\ anlage' = anlage /\ aktor' = aktor /\ Ruhe /\ Beweglich(w)
  <2>1. anlage' = anlage /\ aktor' = aktor /\ Ruhe /\ Beweglich(w)
    BY DEF Bewegen
  <2>2. kanal' = IF weg = "abzweig" THEN kanal ELSE Zustellen(kanal, a, s)
    BY DEF Bewegen
  <2> QED
    BY <2>1, <2>2
<1>3. a = 1 => aktor[1].motor # "stop"
  <2>1. ws[w].pos \in Nat /\ LSE[1] \in Int
    <3>1. ws[w].pos \in Nat
      BY DEF IInv, Typen, Werkstuecke
    <3>2. LSE[1] \in Int
      BY StreckenTyp
    <3> QED
      BY <3>1, <3>2
  <2>2. a = 1 => AnlageVon(w) = 1
    BY <2>1 DEF AnlageVon
  <2>3. aktor[AnlageVon(w)].motor # "stop"
    BY <1>2 DEF Beweglich, Laeuft
  <2> HIDE DEF a
  <2> QED
    BY <2>2, <2>3
<1> HIDE DEF a, p, weg
<1>4. CASE weg = "abzweig"
  <2>1. anlage' = anlage /\ aktor' = aktor /\ kanal' = kanal
    BY <1>2, <1>4
  <2> QED
    BY <2>1 DEF BInv
<1>5. CASE weg # "abzweig"
  <2>1. kanal' = Zustellen(kanal, a, s)
    BY <1>2, <1>5
  <2>2. \/ Harmlos(s) \/ s = <<Meldung("S_LSH_UB")>>
        \/ a = 2 /\ s = <<Meldung("S_LSA2_UB")>>
    BY <1>1, SensorPulseArt
  <2>3. s \in Seq(Puls)
    BY <1>1, SensorPulseTyp, GesendetIstPuls
  <2> HIDE DEF s
  <2>4. CASE Harmlos(s)
    BY <1>1, <1>2, <2>1, <2>3, <2>4, AktorenSelbst, HarmloseMeldung
  <2>5. CASE s = <<Meldung("S_LSH_UB")>>
    BY <1>1, <1>2, <1>3, <2>1, <2>5, LSHMeldung
  <2>6. CASE a = 2 /\ s = <<Meldung("S_LSA2_UB")>>
    BY <1>2, <2>1, <2>6, LSA2Meldung
  <2> QED
    BY <2>2, <2>4, <2>5, <2>6
<1> QED
  BY <1>4, <1>5

LEMMA RutschenBetrieb ==
  ASSUME IInv, BInv, NEW w \in Plaetze, Rutschen(w)
  PROVE  BInv'
<1> DEFINE a == AnlageVon(w)
           frei == aktor[a].rutsche = 0
           s(bleibt) == (IF frei THEN <<Meldung("S_LSR_UB")>> ELSE <<>>)
                        \o (IF frei /\ ~bleibt THEN <<RutscheFrei(a)>> ELSE <<>>)
<1>1. a \in Anlagen
  BY DEF AnlageVon, Anlagen
<1>2. PICK bleibt \in BOOLEAN :
        /\ kanal' = Zustellen(kanal, a, s(bleibt))
        /\ aktor' = IF frei /\ bleibt THEN [aktor EXCEPT ![a].rutsche = 1] ELSE aktor
  BY DEF Rutschen
<1>3. anlage' = anlage /\ Ruhe
  BY DEF Rutschen
<1>4. AktorenBleiben
  <2>1. CASE frei /\ bleibt
    <3>1. aktor' = [aktor EXCEPT ![a].rutsche = 1]
      BY <1>2, <2>1
    <3> HIDE DEF a
    <3> QED
      BY <1>1, <3>1, AktorenRutsche
  <2>2. CASE ~(frei /\ bleibt)
    BY <1>2, <2>2, AktorenSelbst
  <2> QED
    BY <2>1, <2>2
<1>5. s(bleibt) \in Seq(Puls)
  <2>1. frei \in BOOLEAN /\ bleibt \in BOOLEAN
    OBVIOUS
  <2> HIDE DEF a, frei
  <2>2. \A v \in BOOLEAN : s(bleibt) \in Seq(Puls)
    BY <1>1, <2>1, RutschenPulse
  <2> QED
    BY <2>2
<1>6. s(bleibt) \in {<<>>, <<Meldung("S_LSR_UB")>>, <<Meldung("S_LSR_UB"), RutscheFrei(a)>>}
  <2>1. \A x \in Puls, y \in Puls :
          <<x>> \o <<y>> = <<x, y>> /\ <<x>> \o <<>> = <<x>> /\ <<>> \o <<>> = <<>>
    <3> SUFFICES ASSUME NEW x \in Puls, NEW y \in Puls
                 PROVE  <<x>> \o <<y>> = <<x, y>> /\ <<x>> \o <<>> = <<x>> /\ <<>> \o <<>> = <<>>
      OBVIOUS
    <3>1. <<x>> \in Seq(Puls) /\ <<>> \in Seq(Puls)
      OBVIOUS
    <3>2. <<x>> \o <<>> = <<x>> /\ <<>> \o <<>> = <<>>
      BY <3>1, ConcatEmptySeq
    <3>3. <<x>> \o <<y>> = Append(<<x>>, y)
      BY <3>1, AppendIsConcat
    <3>4. Append(<<x>>, y) = <<x, y>>
      BY ZweiPulse
    <3> QED
      BY <3>2, <3>3, <3>4
  <2>2. Meldung("S_LSR_UB") \in Puls /\ RutscheFrei(a) \in Puls
    <3>1. "S_LSR_UB" \in Signale
      BY DEF Signale, SensorSignale
    <3>2. Meldung("S_LSR_UB") \in Puls
      BY <3>1, MeldungTyp
    <3>3. RutscheFrei(a) \in Puls
      BY <1>1, RutscheFreiTyp
    <3> QED
      BY <3>2, <3>3
  <2> DEFINE m == Meldung("S_LSR_UB")
             n == RutscheFrei(a)
             b == frei /\ ~bleibt
  <2>3. s(bleibt) = (IF frei THEN <<m>> ELSE <<>>) \o (IF b THEN <<n>> ELSE <<>>)
    OBVIOUS
  <2>4. b => frei
    OBVIOUS
  <2>5. m \in Puls /\ n \in Puls
    BY <2>2
  <2> HIDE DEF a, frei, s, m, n, b
  <2>6. CASE frei /\ b
    BY <2>1, <2>3, <2>5, <2>6 DEF m, n
  <2>7. CASE frei /\ ~b
    BY <2>1, <2>3, <2>5, <2>7 DEF m
  <2>8. CASE ~frei
    BY <2>1, <2>3, <2>4, <2>5, <2>8
  <2> QED
    BY <2>6, <2>7, <2>8
<1>7. RutscheFrei(a) \in {Meldung("CMD_RTSCH1_NV"), Meldung("CMD_RTSCH2_NV")}
  BY DEF RutscheFrei
<1>8. {"S_LSR_UB", "CMD_RTSCH1_NV", "CMD_RTSCH2_NV"} \subseteq Unbedeutend
  BY DEF Unbedeutend
<1> HIDE DEF a
<1>9. Harmlos(<<Meldung("S_LSR_UB"), RutscheFrei(a)>>)
  BY <1>7, <1>8, HarmloseSensoren
<1>10. Harmlos(s(bleibt))
  <2> HIDE DEF s
  <2> QED
    BY <1>6, <1>8, <1>9, HarmloseSensoren
<1> HIDE DEF s, frei
<1> QED
  BY <1>1, <1>2, <1>3, <1>4, <1>5, <1>10, HarmloseMeldung

LEMMA RutscheLeerenBetrieb ==
  ASSUME IInv, BInv, NEW a \in Anlagen, RutscheLeeren(a)
  PROVE  BInv'
<1> DEFINE s == <<RutscheFrei(a)>>
<1>1. /\ aktor' = [aktor EXCEPT ![a].rutsche = 0] /\ kanal' = Zustellen(kanal, a, s)
      /\ anlage' = anlage /\ Ruhe
  BY DEF RutscheLeeren, Stillstand
<1>2. s \in Seq(Puls)
  BY RutscheFreiTyp
<1>3. RutscheFrei(a) \in {Meldung("CMD_RTSCH1_NV"), Meldung("CMD_RTSCH2_NV")}
  BY DEF RutscheFrei
<1>4. {"CMD_RTSCH1_NV", "CMD_RTSCH2_NV"} \subseteq Unbedeutend
  BY DEF Unbedeutend
<1>5. Harmlos(s)
  BY <1>3, <1>4, HarmloseSensoren
<1> HIDE DEF s
<1>6. AktorenBleiben
  BY <1>1, AktorenRutsche
<1> QED
  BY <1>1, <1>2, <1>5, <1>6, HarmloseMeldung

LEMMA EntnehmenBetrieb ==
  ASSUME IInv, BInv, NEW w \in Plaetze, Entnehmen(w)
  PROVE  BInv'
<1> DEFINE s == <<Meldung("S_LSE2_NUB")>>
<1>1. kanal' = Zustellen(kanal, 2, s) /\ anlage' = anlage /\ aktor' = aktor /\ Ruhe /\ 2 \in Anlagen
  BY DEF Entnehmen, Stillstand, Anlagen
<1>2. "S_LSE2_NUB" \in Signale /\ "S_LSE2_NUB" \in Unbedeutend
  BY DEF Signale, SensorSignale, Unbedeutend
<1>3. s \in Seq(Puls)
  BY <1>2, MeldungTyp
<1>4. Harmlos(s)
  BY <1>2, HarmloseSensoren
<1> HIDE DEF s
<1> QED
  BY <1>1, <1>3, <1>4, AktorenSelbst, HarmloseMeldung

LEMMA AuflegenBetrieb ==
  ASSUME IInv, BInv, NEW w \in Plaetze, NEW art \in Arten, Auflegen(w, art)
  PROVE  BInv'
<1>1. /\ kanal' = Zustellen(kanal, 1, <<Meldung("S_LSA1_UB")>>)
      /\ anlage' = anlage /\ aktor' = aktor /\ Ruhe
      /\ aktor[1].q1 /\ anlage[1].zustand = "Betriebszustand"
  BY DEF Auflegen, Stillstand
<1> QED
  BY <1>1, LSA1Meldung

-----------------------------------------------------------------------------
(***************************************************************************)
(* A tick: the timers tell the machine itself, the slides what is full.    *)
(***************************************************************************)
LEMMA IstTimer ==
  ASSUME NEW e, NEW g, NEW K, Ist(e, g, K), NEW n \in TimerNamen
  PROVE  Ist(e, TimerSchritt(g, n), K)
<1> DEFINE t == g.d.timer[n]
           s == g.d.motorSchnell
           u == aktualisiere(t, n, s)
           h == stelle(g, n, u)
<1>1. g \in Maschine /\ g.d \in Daten /\ Folgt(g, g)
  BY IstTyp
<1>2. t \in Timer /\ t.stand <= Ganz(n) /\ s \in BOOLEAN
  BY <1>1 DEF Daten, Zeitgeber
<1>3. u \in Timer /\ u.stand <= Ganz(n)
  BY <1>2, AktualisiereTyp
<1>4. TimerSchritt(g, n) = Rueckruf(h, n, t, s)
  BY DEF TimerSchritt
<1> HIDE DEF t, s, u
<1>5. Folgt(g, h)
  BY <1>1, <1>3, TimerGehen
<1>6. GleicherKern(g, h)
  BY <1>1 DEF GleicherKern, stelle, Maschine, Daten
<1>7. Ist(e, h, K)
  BY <1>5, <1>6, StillIst DEF Still, Folgt
<1> HIDE DEF h
<1>8. /\ ZeitPuls[n] \in Belanglos \ {"S_UEBERGABE_WS"}
      /\ n # "lsr" => ToleranzPuls[n] \in Belanglos \ {"S_UEBERGABE_WS"}
  BY DEF ZeitPuls, ToleranzPuls, TimerNamen, Belanglos
<1>9. \A x \in Belanglos \ {"S_UEBERGABE_WS"} : Ist(e, senden(h, x), K)
  BY <1>7, IstBelanglos
<1>10. ToleranzAbgelaufen(t, n, s) => ~ZeitAbgelaufen(t, n, s)
  BY DEF ToleranzAbgelaufen, ZeitAbgelaufen
<1> QED
  BY <1>4, <1>7, <1>8, <1>9, <1>10 DEF Rueckruf

LEMMA IstZeit ==
  ASSUME NEW e, NEW g, NEW K, Ist(e, g, K)
  PROVE  Ist(e, updateTimers(g), K)
<1>1. \A n \in TimerNamen : \A h : Ist(e, h, K) => Ist(e, TimerSchritt(h, n), K)
  BY IstTimer
<1> QED
  BY <1>1 DEF updateTimers, TimerNamen

\* Nothing that matters has been sent.
LEMMA NichtsGesendet ==
  ASSUME NEW e, NEW g, NEW K, Ist(e, g, K), K.sig = {}
  PROVE  Harmlos(g.aus)
<1>1. \A x \in Wichtig : ~Hat(g.aus, x)
  BY DEF Ist, Kern
<1> QED
  BY <1>1 DEF Harmlos, Schweigt, Nachrichten, Wichtig

LEMMA HatVerkettet ==
  ASSUME NEW s \in Seq(Puls), NEW t \in Seq(Puls), NEW x, Hat(s \o t, x)
  PROVE  Hat(s, x) \/ Hat(t, x)
<1>1. Len(s) \in Nat /\ Len(t) \in Nat /\ Len(s \o t) = Len(s) + Len(t)
  OBVIOUS
<1>2. PICK i \in 1..(Len(s) + Len(t)) : (s \o t)[i].sig = x
  BY <1>1 DEF Hat
<1>3. CASE i <= Len(s)
  <2>1. i \in 1..Len(s) /\ (s \o t)[i] = s[i]
    BY <1>1, <1>3
  <2> QED
    BY <1>2, <2>1 DEF Hat
<1>4. CASE i > Len(s)
  <2>1. i - Len(s) \in 1..Len(t) /\ (s \o t)[i] = t[i - Len(s)]
    BY <1>1, <1>4
  <2> QED
    BY <1>2, <2>1 DEF Hat
<1> QED
  BY <1>1, <1>3, <1>4

LEMMA HarmlosVerkettet ==
  ASSUME NEW s \in Seq(Puls), NEW t \in Seq(Puls), Harmlos(s), Harmlos(t)
  PROVE  s \o t \in Seq(Puls) /\ Harmlos(s \o t)
<1>1. \A x : Hat(s \o t, x) => Hat(s, x) \/ Hat(t, x)
  BY HatVerkettet
<1>2. s \o t \in Seq(Puls)
  OBVIOUS
<1> DEFINE u == s \o t
<1>3. \A x : Hat(u, x) => Hat(s, x) \/ Hat(t, x)
  BY <1>1
<1> HIDE DEF u
<1>4. Harmlos(u)
  BY <1>3 DEF Harmlos, Schweigt
<1> QED
  BY <1>2, <1>4 DEF u

LEMMA HarmloserKanal ==
  ASSUME NEW b \in Anlagen, NEW z \in Anlagen, NEW k \in Seq(Puls), NEW s \in Seq(Puls),
         Harmlos(k), Harmlos(s)
  PROVE  KanalNach(z, k, b, s) \in Seq(Puls) /\ Harmlos(KanalNach(z, k, b, s))
<1> DEFINE r == KanalNach(z, k, b, s)
<1>1. \A x : r \in Seq(Puls) /\ (Hat(r, x) => Hat(k, x) \/ Hat(s, x))
  BY KanalInhalt
<1> HIDE DEF r
<1>2. Harmlos(r)
  BY <1>1 DEF Harmlos, Schweigt
<1> QED
  BY <1>1, <1>2 DEF r

LEMMA VolleRutsche ==
  ASSUME NEW a \in Anlagen
  PROVE  RutscheVoll(a) \in Seq(Puls) /\ Harmlos(RutscheVoll(a))
<1>1. {"EC_RTSCH1_VOLL", "EC_RTSCH2_VOLL"} \subseteq Unbedeutend
  BY DEF Unbedeutend
<1>2. Harmlos(RutscheVoll(a))
  BY <1>1, HarmloseSensoren DEF RutscheVoll
<1>3. "EC_RTSCH1_VOLL" \in Signale /\ "EC_RTSCH2_VOLL" \in Signale
  BY DEF Signale, RutscheSignale
<1>4. Meldung("EC_RTSCH1_VOLL") \in Puls /\ Meldung("EC_RTSCH2_VOLL") \in Puls
  BY <1>3, MeldungTyp
<1>5. RutscheVoll(a) \in Seq(Puls)
  BY <1>4 DEF RutscheVoll
<1> QED
  BY <1>2, <1>5

\* What a plant that is between two pulses knows does not depend on its timers.
LEMMA ZeitRichtig ==
  ASSUME NEW a \in Anlagen, NEW g \in Maschine, Fertig(a, g), NEW e \in Vorher, Richtig(Kern(e, g))
  PROVE  LET h == updateTimers(g)
             f == [h EXCEPT !.aus = <<>>]
         IN  /\ h.aus \in Seq(Puls) /\ Harmlos(h.aus)
             /\ f.d.f2_bereit = g.d.f2_bereit /\ f.d.festo1Frei = g.d.festo1Frei
             /\ f.d.festo2Frei = g.d.festo2Frei
             /\ Richtig(Kern(e, f))
<1> DEFINE h == updateTimers(g)
           f == [h EXCEPT !.aus = <<>>]
           K == Kern(e, g)
<1>1. /\ Ist(e, g, K) /\ Frisch(K)
      /\ K.steht = e.steht /\ K.q1 = e.q1 /\ K.bereit = e.bereit /\ K.frei = e.frei
  BY KernRuhig
<1>2. Ist(e, h, K)
  BY <1>1, IstZeit
<1>3. Richtig(K)
  OBVIOUS
<1> HIDE DEF h, K
<1>4. Harmlos(h.aus)
  BY <1>1, <1>2, NichtsGesendet DEF Frisch
<1>5. h \in Maschine /\ h.aus \in Seq(Gesendet)
  BY <1>2, IstTyp
<1>6. h.aus \in Seq(Puls)
  BY <1>5, GesendetIstPuls
<1>7. /\ h.d.f2_bereit = g.d.f2_bereit /\ h.d.festo1Frei = g.d.festo1Frei
      /\ h.d.festo2Frei = g.d.festo2Frei
  <2>1. /\ (h.d.f2_bereit <=> K.f2b = "an") /\ (h.d.festo1Frei <=> K.f1 = "an")
        /\ (h.d.festo2Frei <=> K.f2 = "an") /\ h.d \in Daten
    BY <1>2, IstTyp
  <2>2. /\ (g.d.f2_bereit <=> K.f2b = "an") /\ (g.d.festo1Frei <=> K.f1 = "an")
        /\ (g.d.festo2Frei <=> K.f2 = "an") /\ g.d \in Daten
    BY <1>1, IstTyp
  <2>3. /\ h.d.f2_bereit \in BOOLEAN /\ h.d.festo1Frei \in BOOLEAN /\ h.d.festo2Frei \in BOOLEAN
        /\ g.d.f2_bereit \in BOOLEAN /\ g.d.festo1Frei \in BOOLEAN /\ g.d.festo2Frei \in BOOLEAN
    BY <2>1, <2>2 DEF Daten
  <2> QED
    BY <2>1, <2>2, <2>3
<1>8. f.d = h.d
  BY <1>5 DEF Maschine
<1>9. Richtig(Kern(e, f))
  BY <1>1, <1>2, <1>3, RichtigUebernommen
<1> HIDE DEF f
<1>10. /\ f.d.f2_bereit = g.d.f2_bereit /\ f.d.festo1Frei = g.d.festo1Frei
       /\ f.d.festo2Frei = g.d.festo2Frei
  BY <1>7, <1>8
<1> QED
  BY <1>4, <1>6, <1>9, <1>10 DEF f, h

LEMMA TickBetrieb ==
  ASSUME IInv, BInv, Tick
  PROVE  BInv'
<1> DEFINE g(a) == updateTimers(anlage[a])
           f(a) == [g(a) EXCEPT !.aus = <<>>]
           k(a) == RutscheGezaehlt(Geschlafen(a, aktor[a]))
           s(a) == g(a).aus \o RutscheVoll(a)
           e(a, z) == Lage(aktor[a], anlage[z], kanal[z], a)
           M(z) == KanalNach(z, kanal[z], 1, s(1))
<1>1. /\ anlage \in [Anlagen -> Maschine] /\ aktor \in [Anlagen -> Aktor]
      /\ \A z \in Anlagen : Passt(z, anlage[z], kanal[z], aktor[z])
  BY DEF IInv, Typen
<1>2. 1 \in Anlagen /\ 2 \in Anlagen /\ Ruhe
  BY DEF Anlagen, Tick
<1>3. /\ anlage' = [a \in Anlagen |-> f(a)] /\ aktor' = [a \in Anlagen |-> k(a)]
      /\ kanal' = Zustellen(Zustellen(kanal, 1, s(1)), 2, s(2))
  <2> DEFINE t == [a \in Anlagen |-> g(a)]
  <2>1. t[1] = g(1) /\ t[2] = g(2)
    BY <1>2
  <2>2. /\ anlage' = [a \in Anlagen |-> [t[a] EXCEPT !.aus = <<>>]]
        /\ aktor' = [a \in Anlagen |-> k(a)]
        /\ kanal' = Zustellen(Zustellen(kanal, 1, t[1].aus \o RutscheVoll(1)),
                              2, t[2].aus \o RutscheVoll(2))
    BY DEF Tick
  <2> QED
    BY <2>1, <2>2
<1>4. \A z \in Anlagen : kanal'[z] = KanalNach(z, M(z), 2, s(2))
  BY <1>3 DEF Zustellen
<1>5. ASSUME NEW a \in Anlagen, NEW z \in Anlagen
      PROVE  /\ anlage[a] \in Maschine /\ Fertig(a, anlage[a]) /\ e(a, z) \in Vorher
             /\ Richtig(Kern(e(a, z), anlage[a])) /\ kanal[z] \in Seq(Puls)
  <2>1. Passt(a, anlage[a], kanal[a], aktor[a]) /\ Passt(z, anlage[z], kanal[z], aktor[z])
    BY <1>1
  <2>2. anlage[a] \in Maschine /\ Fertig(a, anlage[a]) /\ aktor[a] \in Aktor /\ kanal[z] \in Seq(Puls)
    BY <1>1, <2>1 DEF Passt
  <2>3. e(a, z) \in Vorher
    BY <2>2, EndeTyp
  <2>4. Richtig(Kern(e(a, z), anlage[a]))
    BY DEF BInv, AllesRichtig, KernVon
  <2> QED
    BY <2>2, <2>3, <2>4
<1> HIDE DEF e
<1>6. ASSUME NEW a \in Anlagen, NEW z \in Anlagen
      PROVE  /\ g(a).aus \in Seq(Puls) /\ Harmlos(g(a).aus)
             /\ f(a).d.f2_bereit = anlage[a].d.f2_bereit
             /\ f(a).d.festo1Frei = anlage[a].d.festo1Frei
             /\ f(a).d.festo2Frei = anlage[a].d.festo2Frei
             /\ Richtig(Kern(e(a, z), f(a)))
  <2>1. /\ anlage[a] \in Maschine /\ Fertig(a, anlage[a]) /\ e(a, z) \in Vorher
        /\ Richtig(Kern(e(a, z), anlage[a]))
    BY <1>5
  <2> QED
    BY <2>1, ZeitRichtig
<1>7. \A a \in Anlagen : anlage'[a] = f(a) /\ aktor'[a] = k(a)
  BY <1>3
<1> HIDE DEF f
<1>8. ASSUME NEW a \in Anlagen PROVE s(a) \in Seq(Puls) /\ Harmlos(s(a))
  <2>1. g(a).aus \in Seq(Puls) /\ Harmlos(g(a).aus)
    BY <1>6
  <2>2. RutscheVoll(a) \in Seq(Puls) /\ Harmlos(RutscheVoll(a))
    BY VolleRutsche
  <2> HIDE DEF g
  <2> QED
    BY <2>1, <2>2, HarmlosVerkettet
<1> HIDE DEF s
<1>9. ASSUME NEW a \in Anlagen
      PROVE  EndSteht(aktor'[a]) = EndSteht(aktor[a]) /\ EndQ1(aktor'[a]) = EndQ1(aktor[a])
  <2>1. aktor[a] \in Aktor /\ Bereit(a, aktor[a])
    BY <1>1 DEF Passt
  <2>2. EndSteht(k(a)) = EndSteht(aktor[a]) /\ EndQ1(k(a)) = EndQ1(aktor[a])
    BY <2>1, GeschlafenEnde
  <2> QED
    BY <1>7, <2>2
<1> HIDE DEF k
<1>10. ASSUME NEW z \in Anlagen, NEW G
       PROVE  /\ Harmlos(kanal'[z]) /\ kanal[z] = <<>>
              /\ EndBereit(G, kanal'[z]) = EndBereit(G, kanal[z])
              /\ \A b \in Anlagen : EndFrei(G, kanal'[z], b) = EndFrei(G, kanal[z], b)
  <2>1. kanal[z] \in Seq(Puls)
    BY <1>5
  <2>2. kanal[z] = <<>> /\ Harmlos(kanal[z])
    BY <1>2, HarmloseSensoren DEF Ruhe
  <2>3. /\ s(1) \in Seq(Puls) /\ Harmlos(s(1)) /\ Schweigt(s(1))
        /\ s(2) \in Seq(Puls) /\ Harmlos(s(2)) /\ Schweigt(s(2))
    BY <1>2, <1>8 DEF Harmlos
  <2>4. M(z) \in Seq(Puls) /\ Harmlos(M(z))
    BY <1>2, <2>1, <2>2, <2>3, HarmloserKanal
  <2>5. /\ EndBereit(G, M(z)) = EndBereit(G, kanal[z])
        /\ \A b \in Anlagen : EndFrei(G, M(z), b) = EndFrei(G, kanal[z], b)
    <3>1. EndBereit(G, M(z)) = EndBereit(G, kanal[z])
      BY <1>2, <2>1, <2>3, WissenNeutral
    <3>2. ASSUME NEW b \in Anlagen PROVE EndFrei(G, M(z), b) = EndFrei(G, kanal[z], b)
      BY <1>2, <2>1, <2>3, <3>1, WissenNeutral
    <3> QED
      BY <3>1, <3>2
  <2> HIDE DEF M
  <2>6. Harmlos(KanalNach(z, M(z), 2, s(2)))
    BY <1>2, <2>3, <2>4, HarmloserKanal
  <2>7. /\ EndBereit(G, KanalNach(z, M(z), 2, s(2))) = EndBereit(G, M(z))
        /\ \A b \in Anlagen : EndFrei(G, KanalNach(z, M(z), 2, s(2)), b) = EndFrei(G, M(z), b)
    <3> DEFINE r == KanalNach(z, M(z), 2, s(2))
    <3>1. EndBereit(G, r) = EndBereit(G, M(z))
      BY <1>2, <2>3, <2>4, WissenNeutral
    <3>2. ASSUME NEW b \in Anlagen PROVE EndFrei(G, r, b) = EndFrei(G, M(z), b)
      BY <1>2, <2>3, <2>4, <3>1, WissenNeutral
    <3> QED
      BY <3>1, <3>2
  <2> QED
    BY <1>4, <2>2, <2>5, <2>6, <2>7
<1>11. ASSUME NEW z \in Anlagen
       PROVE  /\ EndBereit(anlage'[z], kanal'[z]) = EndBereit(anlage[z], kanal[z])
              /\ \A b \in Anlagen : EndFrei(anlage'[z], kanal'[z], b) = EndFrei(anlage[z], kanal[z], b)
  <2>1. \A c : EndBereit(anlage'[z], c) = EndBereit(anlage[z], c)
    BY <1>6, <1>7 DEF EndBereit
  <2>2. \A c, b : EndFrei(anlage'[z], c, b) = EndFrei(anlage[z], c, b)
    BY <1>6, <1>7 DEF EndFrei, WeissFrei
  <2> QED
    BY <1>10, <2>1, <2>2
<1>12. \A a \in Anlagen, z \in Anlagen : Lage(aktor'[a], anlage'[z], kanal'[z], a) = e(a, z)
  BY <1>9, <1>11 DEF Lage, e
<1>13. AllesRichtig(anlage', kanal', aktor')
  BY <1>6, <1>7, <1>12 DEF AllesRichtig, KernVon
<1>14. Einig(anlage', kanal')
  BY <1>2, <1>11 DEF BInv, Einig
<1>15. Ordnung(anlage', kanal')
  BY <1>10, HarmlosOrdnung
<1> QED
  BY <1>13, <1>14, <1>15 DEF BInv

-----------------------------------------------------------------------------
(***************************************************************************)
(* What both plants do at once: an emergency stop, a new beginning.        *)
(***************************************************************************)
LEMMA IstLampe ==
  ASSUME NEW e, NEW g, NEW K, Ist(e, g, K)
  PROVE  /\ Ist(e, senden(g, "CMD_LED_Q1_AN"), [K EXCEPT !.q1 = "an"])
         /\ Ist(e, senden(g, "CMD_LED_Q1_AUS"), [K EXCEPT !.q1 = "aus"])
<1>1. K \in Kerne
  BY DEF Ist
<1>2. ASSUME NEW s \in {"CMD_LED_Q1_AN", "CMD_LED_Q1_AUS"}
      PROVE  {s} \cap Wichtig = {} /\ s # Frei(K.a) /\ s # NichtFrei(K.a)
  BY DEF Wichtig, Frei, NichtFrei
<1>3. \A s \in {"CMD_LED_Q1_AN", "CMD_LED_Q1_AUS"} : K.sig \cup ({s} \cap Wichtig) = K.sig
  BY <1>2
<1>4. KSende(K, "CMD_LED_Q1_AN") = [K EXCEPT !.q1 = "an"]
  BY <1>1, <1>2, <1>3 DEF KSende, Kerne
<1>5. KSende(K, "CMD_LED_Q1_AUS") = [K EXCEPT !.q1 = "aus"]
  BY <1>1, <1>2, <1>3 DEF KSende, Kerne
<1>6. /\ Ist(e, senden(g, "CMD_LED_Q1_AN"), KSende(K, "CMD_LED_Q1_AN"))
      /\ Ist(e, senden(g, "CMD_LED_Q1_AUS"), KSende(K, "CMD_LED_Q1_AUS"))
  BY LeiseSignale, IstSenden
<1> QED
  BY <1>4, <1>5, <1>6

KHalt(K) == [K EXCEPT !.steht = "an", !.wart = "aus", !.q1 = "aus", !.zu = "EStop"]

LEMMA IstHalt ==
  ASSUME NEW e, NEW g, NEW K, Ist(e, g, K), WartenBekannt(K)
  PROVE  Ist(e, EStopBetreten(g), KHalt(K))
<1> DEFINE v == IF g.zustand = "Betriebszustand" THEN BetriebVerlassen(g) ELSE g
           L == [K EXCEPT !.steht = "an", !.wart = "aus"]
           M == [L EXCEPT !.q1 = "aus"]
           N == [M EXCEPT !.zu = "EStop"]
           p == senden(v, "CMD_MTR_STOP")
           q == senden(p, "CMD_WCH_AUS")
           r == senden(q, "CMD_LED_AMP_GLB_B")
           s == senden(r, "CMD_LED_Q1_AUS")
<1>1. K \in Kerne /\ g.zustand = K.zu /\ K.wart \in Schalter
  BY IstTyp DEF Kerne
<1>2. Ist(e, p, L)
  <2>1. CASE K.zu = "Betriebszustand"
    <3>1. K.wart = "an" => K.bz = "Sortierung" /\ K.lse = "WartenAufErlaubnisVonF2"
      BY DEF WartenBekannt, Sort
    <3>2. Ist(e, BetriebVerlassen(g), L)
      BY <3>1, IstBetriebVerlassen
    <3> HIDE DEF L
    <3>3. Ist(e, p, [L EXCEPT !.steht = "an"])
      BY <1>1, <2>1, <3>2, IstStop
    <3>4. [L EXCEPT !.steht = "an"] = L
      BY <1>1 DEF L, Kerne
    <3> QED
      BY <3>3, <3>4
  <2>2. CASE K.zu # "Betriebszustand"
    <3>1. K.wart # "an"
      BY <2>2 DEF WartenBekannt, Sort
    <3>2. K.wart = "aus"
      BY <1>1, <3>1 DEF Schalter
    <3>3. L = [K EXCEPT !.steht = "an"]
      BY <1>1, <3>2 DEF Kerne
    <3>4. v = g
      BY <1>1, <2>2
    <3>5. Ist(e, senden(g, "CMD_MTR_STOP"), [K EXCEPT !.steht = "an"])
      BY IstStop
    <3> QED
      BY <3>3, <3>4, <3>5
  <2> QED
    BY <2>1, <2>2
<1> HIDE DEF v, p, L
<1>3. {"CMD_WCH_AUS", "CMD_LED_AMP_GLB_B"} \subseteq Belanglos \ {"S_UEBERGABE_WS"}
  BY DEF Belanglos
<1>4. Ist(e, q, L)
  BY <1>2, <1>3, IstBelanglos
<1> HIDE DEF q
<1>5. Ist(e, r, L)
  BY <1>3, <1>4, IstBelanglos
<1> HIDE DEF r
<1>6. Ist(e, s, M)
  BY <1>5, IstLampe
<1> HIDE DEF s, M
<1>7. Ist(e, [s EXCEPT !.zustand = "EStop"], N)
  BY <1>6, IstFelder
<1>8. EStopBetreten(g) = [s EXCEPT !.zustand = "EStop"]
  BY DEF EStopBetreten, s, r, q, p, v
<1>9. N = KHalt(K)
  BY <1>1 DEF KHalt, L, M, Kerne
<1> QED
  BY <1>7, <1>8, <1>9

LEMMA HaltRichtig ==
  ASSUME NEW K \in Kerne, Richtig(K)
  PROVE  Richtig(KHalt(K)) /\ KHalt(K).bereit = K.bereit /\ KHalt(K).frei = K.frei
         /\ KHalt(K).a = K.a
BY DEF KHalt, Kerne, Sort, Ruht, Richtig, EigeneRegionen, WartenBekannt, StehtRichtig,
       LampeRichtig, BereitRichtig, WartetZuRecht, FreiRichtig, RuhtLeer, OhneFehler

\* A plant without a workpiece that waits for one.
KAnfang(K) == [K EXCEPT !.bz = "AufWSWarten", !.steht = "an", !.q1 = "an"]

Leer(K) ==
  /\ K.zu = "Betriebszustand" /\ K.n = 0 /\ K.wart = "aus" /\ K.verl = "aus" /\ K.ort # "LSA1"
  /\ EigeneRegionen([K EXCEPT !.bz = "AufWSWarten"])

LEMMA IstAnfang ==
  ASSUME NEW e, NEW g, NEW K, Ist(e, g, K)
  PROVE  Ist(e, AufWSWarten_entry(g), KAnfang(K))
<1> DEFINE h == [g EXCEPT !.bz = "AufWSWarten"]
           L == [K EXCEPT !.bz = "AufWSWarten"]
           M == [L EXCEPT !.steht = "an"]
           p == senden(h, "CMD_MTR_STOP")
<1>1. K \in Kerne
  BY DEF Ist
<1>2. Ist(e, h, L)
  BY IstFelder
<1> HIDE DEF h, L
<1>3. Ist(e, p, M)
  BY <1>2, IstStop
<1> HIDE DEF p, M
<1>4. Ist(e, senden(p, "CMD_LED_Q1_AN"), [M EXCEPT !.q1 = "an"])
  BY <1>3, IstLampe
<1>5. [M EXCEPT !.q1 = "an"] = KAnfang(K)
  BY <1>1 DEF KAnfang, L, M, Kerne
<1> QED
  BY <1>4, <1>5 DEF AufWSWarten_entry, p, h

LEMMA AnfangRichtig ==
  ASSUME NEW K \in Kerne, Leer(K)
  PROVE  Richtig(KAnfang(K)) /\ KAnfang(K).bereit = K.bereit /\ KAnfang(K).frei = K.frei
         /\ KAnfang(K).a = K.a
BY DEF KAnfang, Leer, Kerne, Sort, Ruht, Richtig, EigeneRegionen, WartenBekannt, StehtRichtig,
       LampeRichtig, BereitRichtig, WartetZuRecht, FreiRichtig, RuhtLeer, OhneFehler

\* Machine g, whose core is L, passes on what it has sent to the actuators h,
\* and the other plants have heard nothing: m is the machine that looks on.
LEMMA LeerRichtig ==
  ASSUME NEW a \in Anlagen, NEW h \in Aktor, Bereit(a, h), NEW m, NEW e \in Vorher,
         e.steht = EndSteht(h), e.q1 = EndQ1(h), NEW g, NEW L, Ist(e, g, L), Richtig(L),
         L.bereit = An(m.d.f2_bereit), L.frei = WeissFrei(m, a)
  PROVE  Richtig(Kern(Lage(Befehle(a, h, g.aus), m, <<>>, a), [g EXCEPT !.aus = <<>>]))
<1> DEFINE k == Befehle(a, h, g.aus)
           f == Lage(k, m, <<>>, a)
<1>1. g \in Maschine /\ g.aus \in Seq(Gesendet) /\ L = Kern(e, g)
  BY IstTyp DEF Ist
<1>2. g.aus \in Seq(Puls)
  BY <1>1, GesendetIstPuls
<1>3. k \in Aktor
  BY <1>2, BefehleTyp
<1>4. EndSteht(k) = Steht(e.steht, g.aus) /\ EndQ1(k) = Nach(e.q1, g.aus, "CMD_LED_Q1_AN", "CMD_LED_Q1_AUS")
  BY <1>2, BefehleEnde
<1>5. L.steht = EndSteht(k) /\ L.q1 = EndQ1(k)
  BY <1>1, <1>4 DEF Kern
<1> HIDE DEF k
<1>6. f \in Vorher /\ An(m.d.f2_bereit) \in Schalter /\ WeissFrei(m, a) \in Schalter
  BY <1>3, EndeTyp
<1>7. EndBereit(m, <<>>) = An(m.d.f2_bereit)
  BY <1>6, NachNichts DEF EndBereit
<1>8. EndFrei(m, <<>>, a) = WeissFrei(m, a)
  BY <1>6, NachNichts DEF EndFrei
<1>9. f.steht = L.steht /\ f.q1 = L.q1 /\ f.bereit = L.bereit /\ f.frei = L.frei
  BY <1>5, <1>7, <1>8 DEF Lage
<1> HIDE DEF f
<1>10. Richtig(Kern(f, [g EXCEPT !.aus = <<>>]))
  BY <1>6, <1>9, RichtigUebernommen
<1> QED
  BY <1>10 DEF f, k

\* With empty channels.
LEMMA LeererBetrieb ==
  ASSUME NEW G, NEW K, NEW H, \A a \in Anlagen : K[a] = <<>>,
         \A a \in Anlagen, z \in Anlagen : Richtig(Kern(Lage(H[a], G[z], <<>>, a), G[a])),
         G[1].d.f2_bereit = G[2].d.f2_bereit
  PROVE  AllesRichtig(G, K, H) /\ Einig(G, K) /\ Ordnung(G, K)
<1>1. AllesRichtig(G, K, H)
  BY DEF AllesRichtig, KernVon
<1>2. Einig(G, K)
  BY DEF Einig, EndBereit, Anlagen
<1>3. Ordnung(G, K)
  BY HarmloseSensoren, HarmlosOrdnung
<1> QED
  BY <1>1, <1>2, <1>3

LEMMA WissenBleibt ==
  ASSUME NEW e, NEW g, NEW K, Ist(e, g, K), NEW h, NEW L, Ist(e, h, L),
         L.f2b = K.f2b, L.f1 = K.f1, L.f2 = K.f2
  PROVE  /\ h.d.f2_bereit = g.d.f2_bereit /\ h.d.festo1Frei = g.d.festo1Frei
         /\ h.d.festo2Frei = g.d.festo2Frei
<1>1. /\ g.d \in Daten /\ (g.d.f2_bereit <=> K.f2b = "an")
      /\ (g.d.festo1Frei <=> K.f1 = "an") /\ (g.d.festo2Frei <=> K.f2 = "an")
  BY IstTyp
<1>2. /\ h.d \in Daten /\ (h.d.f2_bereit <=> L.f2b = "an")
      /\ (h.d.festo1Frei <=> L.f1 = "an") /\ (h.d.festo2Frei <=> L.f2 = "an")
  BY IstTyp
<1>3. /\ g.d.f2_bereit \in BOOLEAN /\ g.d.festo1Frei \in BOOLEAN /\ g.d.festo2Frei \in BOOLEAN
      /\ h.d.f2_bereit \in BOOLEAN /\ h.d.festo1Frei \in BOOLEAN /\ h.d.festo2Frei \in BOOLEAN
  BY <1>1, <1>2 DEF Daten
<1> QED
  BY <1>1, <1>2, <1>3

LEMMA NotHaltBetrieb ==
  ASSUME IInv, BInv, NotHalt
  PROVE  BInv'
<1> DEFINE g == [a \in Anlagen |-> EStopBetreten(anlage[a])]
           f(a) == [g[a] EXCEPT !.aus = <<>>]
           e(a, z) == Lage(aktor[a], anlage[z], kanal[z], a)
           K(a, z) == Kern(e(a, z), anlage[a])
<1>1. /\ \A z \in Anlagen : Passt(z, anlage[z], kanal[z], aktor[z])
      /\ 1 \in Anlagen /\ 2 \in Anlagen
  BY DEF IInv, Anlagen
<1>2. /\ anlage' = [a \in Anlagen |-> f(a)]
      /\ aktor' = [a \in Anlagen |-> Befehle(a, aktor[a], g[a].aus)]
      /\ kanal' = kanal
  BY DEF NotHalt
<1>3. \A z \in Anlagen : kanal[z] = <<>>
  BY DEF NotHalt, Stillstand, Ruhe
<1>4. \A a \in Anlagen : g[a] = EStopBetreten(anlage[a])
  OBVIOUS
<1>5. ASSUME NEW a \in Anlagen
      PROVE  /\ anlage[a] \in Maschine /\ Fertig(a, anlage[a]) /\ aktor[a] \in Aktor
             /\ Bereit(a, aktor[a]) /\ anlage'[a] = f(a)
             /\ aktor'[a] = Befehle(a, aktor[a], g[a].aus)
  BY <1>1, <1>2 DEF Passt
<1> HIDE DEF g
<1>6. ASSUME NEW a \in Anlagen, NEW z \in Anlagen
      PROVE  /\ e(a, z) \in Vorher /\ Ist(e(a, z), anlage[a], K(a, z)) /\ Richtig(K(a, z))
             /\ K(a, z) \in Kerne /\ K(a, z).a = a
             /\ K(a, z).bereit = e(a, z).bereit /\ K(a, z).frei = e(a, z).frei
             /\ Ist(e(a, z), g[a], KHalt(K(a, z)))
  <2>1. e(a, z) \in Vorher
    BY <1>5, EndeTyp
  <2>2. Richtig(K(a, z))
    BY DEF BInv, AllesRichtig, KernVon
  <2> DEFINE x == e(a, z)
             k == Kern(x, anlage[a])
  <2>5. anlage[a] \in Maschine /\ Fertig(a, anlage[a]) /\ x \in Vorher
    BY <1>5, <2>1
  <2>6. K(a, z) = k
    OBVIOUS
  <2> HIDE DEF e, K, x
  <2>7. Ist(x, anlage[a], k) /\ k.a = a /\ k.bereit = x.bereit /\ k.frei = x.frei
    BY <2>5, KernRuhig
  <2> HIDE DEF k
  <2>3. /\ Ist(e(a, z), anlage[a], K(a, z)) /\ K(a, z).a = a
        /\ K(a, z).bereit = e(a, z).bereit /\ K(a, z).frei = e(a, z).frei
    BY <2>6, <2>7 DEF x
  <2>4. Ist(e(a, z), EStopBetreten(anlage[a]), KHalt(K(a, z)))
    BY <2>2, <2>3, IstHalt DEF Richtig
  <2> QED
    BY <1>4, <2>1, <2>2, <2>3, <2>4 DEF Ist
<1> HIDE DEF K
<1>7. ASSUME NEW z \in Anlagen
      PROVE  /\ f(z).d.f2_bereit = anlage[z].d.f2_bereit
             /\ f(z).d.festo1Frei = anlage[z].d.festo1Frei
             /\ f(z).d.festo2Frei = anlage[z].d.festo2Frei
  <2>1. KHalt(K(z, z)).f2b = K(z, z).f2b /\ KHalt(K(z, z)).f1 = K(z, z).f1
        /\ KHalt(K(z, z)).f2 = K(z, z).f2
    <3>1. K(z, z) \in Kerne
      BY <1>6
    <3> QED
      BY <3>1 DEF KHalt, Kerne
  <2>2. /\ g[z].d.f2_bereit = anlage[z].d.f2_bereit
        /\ g[z].d.festo1Frei = anlage[z].d.festo1Frei
        /\ g[z].d.festo2Frei = anlage[z].d.festo2Frei
    BY <1>6, <2>1, WissenBleibt
  <2>3. g[z] \in Maschine
    BY <1>6 DEF Ist
  <2>4. f(z).d = g[z].d
    BY <2>3 DEF Maschine
  <2> QED
    BY <2>2, <2>4
<1> HIDE DEF f
<1>8. ASSUME NEW a \in Anlagen, NEW z \in Anlagen
      PROVE  Richtig(Kern(Lage(aktor'[a], anlage'[z], <<>>, a), anlage'[a]))
  <2> DEFINE L == KHalt(K(a, z))
             x == e(a, z)
  <2>1. /\ x \in Vorher /\ x.steht = EndSteht(aktor[a]) /\ x.q1 = EndQ1(aktor[a])
        /\ x.bereit = EndBereit(anlage[z], <<>>) /\ x.frei = EndFrei(anlage[z], <<>>, a)
    BY <1>3, <1>6 DEF Lage
  <2>2. An(anlage[z].d.f2_bereit) \in Schalter /\ WeissFrei(anlage[z], a) \in Schalter
    BY DEF An, WeissFrei, Schalter
  <2>3. x.bereit = An(anlage[z].d.f2_bereit) /\ x.frei = WeissFrei(anlage[z], a)
    BY <2>1, <2>2, NachNichts DEF EndBereit, EndFrei
  <2>4. An(anlage[z].d.f2_bereit) = An(f(z).d.f2_bereit) /\ WeissFrei(anlage[z], a) = WeissFrei(f(z), a)
    BY <1>7 DEF WeissFrei
  <2>5. Richtig(L) /\ L.bereit = K(a, z).bereit /\ L.frei = K(a, z).frei
    BY <1>6, HaltRichtig
  <2>6. L.bereit = An(f(z).d.f2_bereit) /\ L.frei = WeissFrei(f(z), a) /\ Ist(x, g[a], L)
    BY <1>6, <2>3, <2>4, <2>5
  <2>7. aktor[a] \in Aktor /\ Bereit(a, aktor[a])
    BY <1>5
  <2> HIDE DEF L, x
  <2>8. Richtig(Kern(Lage(Befehle(a, aktor[a], g[a].aus), f(z), <<>>, a), [g[a] EXCEPT !.aus = <<>>]))
    BY <2>1, <2>5, <2>6, <2>7, LeerRichtig
  <2> QED
    BY <1>5, <2>8 DEF f
<1>9. anlage'[1].d.f2_bereit = anlage'[2].d.f2_bereit
  <2>1. EndBereit(anlage[1], <<>>) = EndBereit(anlage[2], <<>>)
    BY <1>1, <1>3 DEF BInv, Einig
  <2>2. \A z \in Anlagen : anlage[z].d.f2_bereit \in BOOLEAN
    BY <1>5 DEF Maschine, Daten
  <2>3. \A z \in Anlagen : EndBereit(anlage[z], <<>>) = An(anlage[z].d.f2_bereit)
    <3>1. \A z \in Anlagen : An(anlage[z].d.f2_bereit) \in Schalter
      BY DEF An, Schalter
    <3> QED
      BY <3>1, NachNichts DEF EndBereit
  <2>4. anlage[1].d.f2_bereit = anlage[2].d.f2_bereit
    BY <1>1, <2>1, <2>2, <2>3 DEF An
  <2> QED
    BY <1>1, <1>5, <1>7, <2>4
<1>10. \A a \in Anlagen : kanal'[a] = <<>>
  BY <1>2, <1>3
<1> QED
  BY <1>8, <1>9, <1>10, LeererBetrieb DEF BInv

\* Machine p of plant a is about to wait for workpieces; nothing in its data
\* reminds it of earlier ones.
Neuling(a, p) ==
  \A e \in Vorher : \E K \in Kerne :
    Ist(e, p, K) /\ Leer(K) /\ K.a = a /\ K.bereit = e.bereit /\ K.frei = e.frei /\ K.f2b = "an"

LEMMA NeulingRichtig ==
  ASSUME NEW a \in Anlagen, NEW h \in Aktor, Bereit(a, h), NEW m, NEW p, Neuling(a, p)
  PROVE  LET g == AufWSWarten_entry(p)
         IN  /\ Richtig(Kern(Lage(Befehle(a, h, g.aus), m, <<>>, a), [g EXCEPT !.aus = <<>>]))
             /\ [g EXCEPT !.aus = <<>>].d.f2_bereit = TRUE
<1> DEFINE e == [steht |-> EndSteht(h), q1 |-> EndQ1(h), bereit |-> An(m.d.f2_bereit),
                 frei |-> WeissFrei(m, a)]
           g == AufWSWarten_entry(p)
<1>1. e \in Vorher
  <2>1. EndSteht(h) \in Schalter /\ EndQ1(h) \in Schalter
    BY EndTyp
  <2>2. An(m.d.f2_bereit) \in Schalter /\ WeissFrei(m, a) \in Schalter
    BY DEF An, WeissFrei, Schalter
  <2> QED
    BY <2>1, <2>2 DEF Vorher
<1>2. /\ e.steht = EndSteht(h) /\ e.q1 = EndQ1(h) /\ e.bereit = An(m.d.f2_bereit)
      /\ e.frei = WeissFrei(m, a)
  OBVIOUS
<1> HIDE DEF e
<1>3. PICK K \in Kerne : /\ Ist(e, p, K) /\ Leer(K) /\ K.a = a /\ K.bereit = e.bereit
                         /\ K.frei = e.frei /\ K.f2b = "an"
  BY <1>1 DEF Neuling
<1> DEFINE L == KAnfang(K)
<1>4. Ist(e, g, L)
  BY <1>3, IstAnfang
<1>5. Richtig(L) /\ L.bereit = K.bereit /\ L.frei = K.frei
  BY <1>3, AnfangRichtig
<1>6. L.f2b = "an"
  BY <1>3 DEF KAnfang, Kerne
<1> HIDE DEF g, L
<1>7. Richtig(Kern(Lage(Befehle(a, h, g.aus), m, <<>>, a), [g EXCEPT !.aus = <<>>]))
  BY <1>1, <1>2, <1>3, <1>4, <1>5, LeerRichtig
<1>8. [g EXCEPT !.aus = <<>>].d.f2_bereit = TRUE
  <2>1. g \in Maschine /\ g.d \in Daten /\ (g.d.f2_bereit <=> L.f2b = "an")
    BY <1>4, IstTyp
  <2>2. g.d.f2_bereit \in BOOLEAN
    BY <2>1 DEF Daten
  <2>3. [g EXCEPT !.aus = <<>>].d = g.d
    BY <2>1 DEF Maschine
  <2> QED
    BY <1>6, <2>1, <2>2, <2>3
<1> QED
  BY <1>7, <1>8 DEF g

\* Both plants begin as the machines p, with the actuators h, and no pulse waits.
Beginn(G, K, H, h, p) ==
  \A a \in Anlagen :
    /\ K[a] = <<>> /\ h[a] \in Aktor /\ Bereit(a, h[a]) /\ Neuling(a, p[a])
    /\ G[a] = [AufWSWarten_entry(p[a]) EXCEPT !.aus = <<>>]
    /\ H[a] = Befehle(a, h[a], AufWSWarten_entry(p[a]).aus)

LEMMA NeulingeBetrieb ==
  ASSUME NEW G, NEW K, NEW H, NEW h, NEW p, Beginn(G, K, H, h, p)
  PROVE  AllesRichtig(G, K, H) /\ Einig(G, K) /\ Ordnung(G, K)
<1>1. ASSUME NEW a \in Anlagen, NEW m
      PROVE  /\ Richtig(Kern(Lage(H[a], m, <<>>, a), G[a])) /\ G[a].d.f2_bereit = TRUE
  <2>1. h[a] \in Aktor /\ Bereit(a, h[a]) /\ Neuling(a, p[a])
    BY DEF Beginn
  <2> DEFINE g == AufWSWarten_entry(p[a])
  <2>2. /\ Richtig(Kern(Lage(Befehle(a, h[a], g.aus), m, <<>>, a), [g EXCEPT !.aus = <<>>]))
        /\ [g EXCEPT !.aus = <<>>].d.f2_bereit = TRUE
    BY <2>1, NeulingRichtig
  <2>3. G[a] = [g EXCEPT !.aus = <<>>] /\ H[a] = Befehle(a, h[a], g.aus)
    BY DEF Beginn
  <2> HIDE DEF g
  <2> QED
    BY <2>2, <2>3
<1>2. G[1].d.f2_bereit = G[2].d.f2_bereit
  BY <1>1 DEF Anlagen
<1>3. \A a \in Anlagen : K[a] = <<>>
  BY DEF Beginn
<1> QED
  BY <1>1, <1>2, <1>3, LeererBetrieb

LEMMA NeueNeulinge ==
  ASSUME NEW a \in Anlagen
  PROVE  Neuling(a, NeueAnlage(a))
<1> DEFINE p == NeueAnlage(a)
<1>1. p \in Maschine /\ Fertig(a, p)
  BY NeueAnlageTyp DEF Fertig
<1>2. /\ p.d.f2_bereit = TRUE /\ p.d.anzahlWS = 0 /\ p.d.fehler.ort = "DEFAULT"
      /\ p.d.enteredWartenAufErlaubnisVonF2 = FALSE /\ p.d.FehlerVerlorenBeiLAS2 = FALSE
      /\ p.zustand = "Betriebszustand" /\ p.lsa = "WartenAufLSA" /\ p.lse = "WartenAufLSE"
  BY DEF NeueAnlage, NeueDaten
<1> HIDE DEF p
<1>3. ASSUME NEW e \in Vorher
      PROVE  LET K == Kern(e, p)
             IN  /\ Ist(e, p, K) /\ K \in Kerne /\ Leer(K) /\ K.a = a /\ K.bereit = e.bereit
                 /\ K.frei = e.frei /\ K.f2b = "an"
  <2> DEFINE K == Kern(e, p)
  <2>1. Ist(e, p, K) /\ K.a = a /\ K.bereit = e.bereit /\ K.frei = e.frei
    BY <1>1, KernRuhig
  <2>2. /\ K.zu = "Betriebszustand" /\ K.n = 0 /\ K.wart = "aus" /\ K.verl = "aus"
        /\ K.ort = "DEFAULT" /\ K.f2b = "an" /\ K.lsa = "WartenAufLSA" /\ K.lse = "WartenAufLSE"
    BY <1>2 DEF Kern, An
  <2> HIDE DEF K
  <2>3. K \in Kerne
    BY <2>1 DEF Ist
  <2>4. EigeneRegionen([K EXCEPT !.bz = "AufWSWarten"])
    BY <2>2, <2>3 DEF EigeneRegionen, Sort, Kerne
  <2> QED
    BY <2>1, <2>2, <2>3, <2>4 DEF Leer, K
<1> QED
  BY <1>3 DEF Neuling, p

LEMMA InitBetrieb == Init => BInv
<1> SUFFICES ASSUME Init PROVE BInv
  OBVIOUS
<1> DEFINE p == [a \in Anlagen |-> NeueAnlage(a)]
           h == [a \in Anlagen |-> NeuerAktor(a)]
<1>1. \A a \in Anlagen : p[a] = NeueAnlage(a) /\ h[a] = NeuerAktor(a)
  OBVIOUS
<1> HIDE DEF p, h
<1>2. \A a \in Anlagen : /\ kanal[a] = <<>>
                         /\ anlage[a] = [AufWSWarten_entry(p[a]) EXCEPT !.aus = <<>>]
                         /\ aktor[a] = Befehle(a, h[a], AufWSWarten_entry(p[a]).aus)
  BY <1>1 DEF Init
<1>3. \A a \in Anlagen : h[a] \in Aktor /\ Bereit(a, h[a]) /\ Neuling(a, p[a])
  BY <1>1, NeuerAktorTyp, NeueNeulinge
<1>4. Beginn(anlage, kanal, aktor, h, p)
  BY <1>2, <1>3 DEF Beginn
<1>5. AllesRichtig(anlage, kanal, aktor) /\ Einig(anlage, kanal) /\ Ordnung(anlage, kanal)
  BY <1>4, NeulingeBetrieb
<1> QED
  BY <1>5 DEF BInv

\* A reset forgets the workpieces.
LEMMA LoeschenNeuling ==
  ASSUME NEW a \in Anlagen, NEW g \in Maschine, Fertig(a, g), NEW f \in Vorher,
         EigeneRegionen(Kern(f, g))
  PROVE  Neuling(a, [senden(datenprozessLoeschen(g), "CMD_LED_AMP_GLB_AUS")
                       EXCEPT !.zustand = "Betriebszustand"])
<1> DEFINE p == datenprozessLoeschen(g)
           q == senden(p, "CMD_LED_AMP_GLB_AUS")
           r == [q EXCEPT !.zustand = "Betriebszustand"]
<1>1. g.d \in Daten /\ g.d.festo = a /\ g.aus = <<>> /\ ~g.exit
  BY DEF Maschine, Fertig
<1>2. p \in Maschine /\ Fertig(a, p)
  BY <1>1, LoeschenTyp DEF Fertig
<1>3. /\ p.d.f2_bereit = TRUE /\ p.d.anzahlWS = 0 /\ p.d.fehler.ort = "DEFAULT"
      /\ p.d.enteredWartenAufErlaubnisVonF2 = FALSE /\ p.d.FehlerVerlorenBeiLAS2 = FALSE
      /\ p.lsa = g.lsa /\ p.lse = g.lse
  <2> DEFINE N == NeueDaten(g.d.festo)
             E == [x \in DOMAIN g.d |-> IF x \in Vergessen THEN N[x] ELSE g.d[x]]
  <2>1. p = [g EXCEPT !.d = E]
    BY DEF datenprozessLoeschen, Geloescht
  <2>2. /\ N.f2_bereit = TRUE /\ N.anzahlWS = 0 /\ N.fehler.ort = "DEFAULT"
        /\ N.enteredWartenAufErlaubnisVonF2 = FALSE /\ N.FehlerVerlorenBeiLAS2 = FALSE
    BY DEF NeueDaten
  <2> HIDE DEF N
  <2>3. {"f2_bereit", "anzahlWS", "fehler", "enteredWartenAufErlaubnisVonF2",
         "FehlerVerlorenBeiLAS2"} \subseteq DOMAIN g.d
    BY <1>1 DEF Daten
  <2>4. {"f2_bereit", "anzahlWS", "fehler", "enteredWartenAufErlaubnisVonF2",
         "FehlerVerlorenBeiLAS2"} \subseteq Vergessen
    BY DEF Vergessen
  <2>5. /\ E.f2_bereit = N.f2_bereit /\ E.anzahlWS = N.anzahlWS /\ E.fehler = N.fehler
        /\ E.enteredWartenAufErlaubnisVonF2 = N.enteredWartenAufErlaubnisVonF2
        /\ E.FehlerVerlorenBeiLAS2 = N.FehlerVerlorenBeiLAS2
    BY <2>3, <2>4
  <2> HIDE DEF E
  <2>6. p.d = E /\ p.lsa = g.lsa /\ p.lse = g.lse
    BY <2>1 DEF Maschine
  <2> QED
    BY <2>2, <2>5, <2>6
<1> HIDE DEF p
<1>4. ASSUME NEW e \in Vorher
      PROVE  \E K \in Kerne : /\ Ist(e, r, K) /\ Leer(K) /\ K.a = a /\ K.bereit = e.bereit
                              /\ K.frei = e.frei /\ K.f2b = "an"
  <2> DEFINE K == Kern(e, p)
             L == [K EXCEPT !.zu = "Betriebszustand"]
  <2>1. Ist(e, p, K) /\ K.a = a /\ K.bereit = e.bereit /\ K.frei = e.frei
    BY <1>2, KernRuhig
  <2>2. /\ K.n = 0 /\ K.wart = "aus" /\ K.verl = "aus" /\ K.ort = "DEFAULT" /\ K.f2b = "an"
        /\ K.lsa = g.lsa /\ K.lse = g.lse
    BY <1>3 DEF Kern, An
  <2> HIDE DEF K
  <2>3. K \in Kerne
    BY <2>1 DEF Ist
  <2>4. "CMD_LED_AMP_GLB_AUS" \in Belanglos \ {"S_UEBERGABE_WS"}
    BY DEF Belanglos
  <2>5. Ist(e, q, K)
    BY <2>1, <2>4, IstBelanglos
  <2> HIDE DEF q
  <2>6. Ist(e, r, L)
    BY <2>5, IstFelder
  <2>7. L \in Kerne
    BY <2>6 DEF Ist
  <2>8. /\ L.zu = "Betriebszustand" /\ L.n = 0 /\ L.wart = "aus" /\ L.verl = "aus"
        /\ L.ort # "LSA1" /\ L.f2b = "an" /\ L.a = a /\ L.bereit = e.bereit /\ L.frei = e.frei
        /\ L.lsa = g.lsa /\ L.lse = g.lse
    BY <2>1, <2>2, <2>3 DEF Kerne
  <2> HIDE DEF L
  <2>9. EigeneRegionen([L EXCEPT !.bz = "AufWSWarten"])
    <3> DEFINE F == Kern(f, g)
    <3>1. F.a = a /\ F.lsa = g.lsa /\ F.lse = g.lse
      BY <1>1 DEF Kern
    <3>2. EigeneRegionen(F)
      OBVIOUS
    <3> HIDE DEF F
    <3> QED
      BY <2>7, <2>8, <3>1, <3>2 DEF EigeneRegionen, Sort, Kerne
  <2> QED
    BY <2>6, <2>7, <2>8, <2>9 DEF Leer
<1> QED
  BY <1>4 DEF Neuling, p

LEMMA NeustartBetrieb ==
  ASSUME IInv, BInv, Neustart
  PROVE  BInv'
<1> DEFINE g == [a \in Anlagen |-> Neubeginn(anlage[a])]
           q(a) == [senden(datenprozessLoeschen(anlage[a]), "CMD_LED_AMP_GLB_AUS")
                      EXCEPT !.zustand = "Betriebszustand"]
           p == [a \in Anlagen |-> q(a)]
<1>1. \A z \in Anlagen : Passt(z, anlage[z], kanal[z], aktor[z])
  BY DEF IInv
<1>2. /\ anlage' = [a \in Anlagen |-> [g[a] EXCEPT !.aus = <<>>]]
      /\ aktor' = [a \in Anlagen |-> Befehle(a, aktor[a], g[a].aus)]
      /\ kanal' = kanal
  BY DEF Neustart
<1>3. \A z \in Anlagen : kanal[z] = <<>>
  BY DEF Neustart, Stillstand, Ruhe
<1>4. \A a \in Anlagen : p[a] = q(a) /\ g[a] = AufWSWarten_entry(p[a])
  BY DEF Neubeginn
<1>5. ASSUME NEW a \in Anlagen
      PROVE  aktor[a] \in Aktor /\ Bereit(a, aktor[a]) /\ Neuling(a, q(a))
  <2> DEFINE e == Lage(aktor[a], anlage[a], kanal[a], a)
  <2>1. anlage[a] \in Maschine /\ Fertig(a, anlage[a]) /\ aktor[a] \in Aktor /\ Bereit(a, aktor[a])
    BY <1>1 DEF Passt
  <2>2. e \in Vorher
    BY <2>1, EndeTyp
  <2>3. EigeneRegionen(Kern(e, anlage[a]))
    BY DEF BInv, AllesRichtig, KernVon, Richtig
  <2> HIDE DEF e
  <2>4. Neuling(a, q(a))
    BY <2>1, <2>2, <2>3, LoeschenNeuling
  <2> QED
    BY <2>1, <2>4
<1> HIDE DEF g, p, q
<1>6. ASSUME NEW a \in Anlagen
      PROVE  /\ kanal'[a] = <<>> /\ aktor[a] \in Aktor /\ Bereit(a, aktor[a]) /\ Neuling(a, p[a])
             /\ anlage'[a] = [AufWSWarten_entry(p[a]) EXCEPT !.aus = <<>>]
             /\ aktor'[a] = Befehle(a, aktor[a], AufWSWarten_entry(p[a]).aus)
  BY <1>2, <1>3, <1>4, <1>5
<1>7. Beginn(anlage', kanal', aktor', aktor, p)
  BY <1>6 DEF Beginn
<1>8. AllesRichtig(anlage', kanal', aktor') /\ Einig(anlage', kanal') /\ Ordnung(anlage', kanal')
  BY <1>7, NeulingeBetrieb
<1> QED
  BY <1>8 DEF BInv

LEMMA WegnehmenBetrieb ==
  ASSUME BInv, NEW w \in Plaetze, Wegnehmen(w)
  PROVE  BInv'
<1>1. anlage' = anlage /\ kanal' = kanal /\ aktor' = aktor
  BY DEF Wegnehmen
<1> QED
  BY <1>1 DEF BInv

-----------------------------------------------------------------------------
(***************************************************************************)
(* BInv holds in every state, and with it what the plants know of each     *)
(* other.                                                                  *)
(***************************************************************************)
LEMMA SchrittBInv == IInv /\ BInv /\ [Next]_vars => BInv'
<1> SUFFICES ASSUME IInv, BInv, [Next]_vars PROVE BInv'
  OBVIOUS
<1>1. CASE Tick
  BY <1>1, TickBetrieb
<1>2. CASE NotHalt
  BY <1>2, NotHaltBetrieb
<1>3. CASE Neustart
  BY <1>3, NeustartBetrieb
<1>4. ASSUME NEW a \in Anlagen, Verarbeiten(a) PROVE BInv'
  BY <1>4, VerarbeitenBetrieb
<1>5. ASSUME NEW a \in Anlagen, RutscheLeeren(a) PROVE BInv'
  BY <1>5, RutscheLeerenBetrieb
<1>6. ASSUME NEW w \in Plaetze, Bewegen(w) PROVE BInv'
  BY <1>6, BewegenBetrieb
<1>7. ASSUME NEW w \in Plaetze, Rutschen(w) PROVE BInv'
  BY <1>7, RutschenBetrieb
<1>8. ASSUME NEW w \in Plaetze, Entnehmen(w) PROVE BInv'
  BY <1>8, EntnehmenBetrieb
<1>9. ASSUME NEW w \in Plaetze, Wegnehmen(w) PROVE BInv'
  BY <1>9, WegnehmenBetrieb
<1>10. ASSUME NEW w \in Plaetze, NEW art \in Arten, Auflegen(w, art) PROVE BInv'
  BY <1>10, AuflegenBetrieb
<1>11. CASE UNCHANGED vars
  <2>1. anlage' = anlage /\ kanal' = kanal /\ aktor' = aktor
    BY <1>11 DEF vars
  <2> QED
    BY <2>1 DEF BInv
<1> QED
  BY <1>1, <1>2, <1>3, <1>4, <1>5, <1>6, <1>7, <1>8, <1>9, <1>10, <1>11 DEF Next

LEMMA BInvImmer == Spec => [](IInv /\ BInv)
<1>1. Init => IInv /\ BInv
  BY InitIInv, InitBetrieb
<1>2. IInv /\ BInv /\ [Next]_vars => IInv' /\ BInv'
  BY SchrittIInv, SchrittBInv
<1> QED
  BY <1>1, <1>2, PTL DEF Spec

\* What BInv says of plant a as plant z will see it.
LEMMA KernHierFelder ==
  ASSUME IInv, BInv, NEW a \in Anlagen, NEW z \in Anlagen
  PROVE  LET K == KernHier(a, z)
         IN  /\ K \in Kerne /\ Richtig(K) /\ K.a = a
             /\ K.zu = anlage[a].zustand /\ K.bz = anlage[a].bz /\ K.lsa = anlage[a].lsa
             /\ K.lse = anlage[a].lse /\ K.n = anlage[a].d.anzahlWS
             /\ K.ort = anlage[a].d.fehler.ort
             /\ K.f2b = An(anlage[a].d.f2_bereit)
             /\ K.steht = EndSteht(aktor[a]) /\ K.bereit = EndBereit(anlage[z], kanal[z])
             /\ K.frei = EndFrei(anlage[z], kanal[z], a)
<1> DEFINE e == Lage(aktor[a], anlage[z], kanal[z], a)
           K == Kern(e, anlage[a])
<1>1. anlage[a] \in Maschine /\ Fertig(a, anlage[a]) /\ aktor[a] \in Aktor
  BY DEF IInv, Passt
<1>2. e \in Vorher
  BY <1>1, EndeTyp
<1>3. /\ e.steht = EndSteht(aktor[a]) /\ e.bereit = EndBereit(anlage[z], kanal[z])
      /\ e.frei = EndFrei(anlage[z], kanal[z], a)
  BY DEF Lage
<1>4. K = KernHier(a, z)
  BY DEF KernHier, KernVon
<1> HIDE DEF e
<1>5. Ist(e, anlage[a], K) /\ K.a = a /\ K.steht = e.steht /\ K.bereit = e.bereit /\ K.frei = e.frei
  BY <1>1, <1>2, KernRuhig
<1>6. /\ K.zu = anlage[a].zustand /\ K.bz = anlage[a].bz /\ K.lsa = anlage[a].lsa
      /\ K.lse = anlage[a].lse /\ K.n = anlage[a].d.anzahlWS /\ K.ort = anlage[a].d.fehler.ort
      /\ K.f2b = An(anlage[a].d.f2_bereit)
  BY DEF Kern
<1> HIDE DEF K
<1>7. Richtig(K) /\ K \in Kerne
  BY <1>4, <1>5 DEF BInv, AllesRichtig, KernHier, Ist
<1> QED
  BY <1>3, <1>4, <1>5, <1>6, <1>7

\* A belt that must not run stands as soon as the HAL is awake: in whatever
\* order the regions, the error exit and the stop commands followed each other,
\* the last command that reached the motor is a stop.
THEOREM BandStehtImmer == Spec => []BandSteht
<1>1. ASSUME IInv, BInv PROVE BandSteht
  <2> SUFFICES ASSUME NEW a \in Anlagen, ~Blockiert(a, aktor[a]),
                      \/ anlage[a].zustand # "Betriebszustand" \/ anlage[a].bz = "AufWSWarten"
                      \/ anlage[a].lse = "WartenAufErlaubnisVonF2"
               PROVE  aktor[a].motor = "stop"
    BY DEF BandSteht
  <2> DEFINE K == KernHier(a, a)
  <2>1. /\ K \in Kerne /\ Richtig(K) /\ K.zu = anlage[a].zustand /\ K.bz = anlage[a].bz
        /\ K.lse = anlage[a].lse /\ K.steht = EndSteht(aktor[a])
    BY <1>1, KernHierFelder
  <2>2. aktor[a] \in Aktor /\ aktor[a].wartend = <<>>
    BY <1>1 DEF IInv, Passt, Bereit
  <2>3. EndSteht(aktor[a]) = An(aktor[a].motor = "stop")
    BY <2>2, EndTyp
  <2> HIDE DEF K
  <2>4. ~Sort(K) \/ K.wart = "an"
    BY <2>1 DEF Richtig, WartenBekannt, Sort
  <2>5. K.steht = "an"
    BY <2>1, <2>4 DEF Richtig, StehtRichtig
  <2> QED
    BY <2>1, <2>3, <2>5 DEF An
<1> QED
  BY <1>1, BInvImmer, PTL

\* The lamp of the start button and the state that takes a workpiece in never
\* disagree, though the lamp is switched by commands and the state by pulses.
THEOREM StartlampeImmer == Spec => []StartlampeStimmt
<1>1. IInv /\ BInv => StartlampeStimmt
  BY LampeErlaubt DEF StartlampeStimmt
<1> QED
  BY <1>1, BInvImmer, PTL

\* No workpiece that the lamp has invited is taken for an error: between the
\* lamp and the pulse of the light barrier nothing takes the permission back.
THEOREM EinladungGiltImmer == Spec => []EinladungGilt
<1>1. ASSUME IInv, BInv PROVE EinladungGilt
  <2> SUFFICES ASSUME NEW a \in Anlagen
               PROVE  anlage[a].d.fehler.ort # "LSA1"
    BY DEF EinladungGilt
  <2> DEFINE K == KernHier(a, a)
  <2>1. Richtig(K) /\ K.ort = anlage[a].d.fehler.ort
    BY <1>1, KernHierFelder
  <2> HIDE DEF K
  <2> QED
    BY <2>1 DEF Richtig, OhneFehler
<1> QED
  BY <1>1, BInvImmer, PTL

\* When no pulse waits a plant has heard all that has been said.
LEMMA RuheGewusst ==
  ASSUME Ruhe, NEW z \in Anlagen, NEW a \in Anlagen
  PROVE  /\ EndBereit(anlage[z], kanal[z]) = An(anlage[z].d.f2_bereit)
         /\ EndFrei(anlage[z], kanal[z], a) = WeissFrei(anlage[z], a)
<1>1. kanal[z] = <<>>
  BY DEF Ruhe
<1>2. An(anlage[z].d.f2_bereit) \in Schalter /\ WeissFrei(anlage[z], a) \in Schalter
  BY DEF An, WeissFrei, Schalter
<1> QED
  BY <1>1, <1>2, NachNichts DEF EndBereit, EndFrei

\* Whatever pulses passed each other on their way: once they have arrived, both
\* plants say the same of plant 2, and plant 1 does not wait in vain.
THEOREM FreigabeImmer == Spec => []FreigabeStimmt
<1>1. ASSUME IInv, BInv PROVE FreigabeStimmt
  <2> SUFFICES ASSUME Ruhe
               PROVE  /\ anlage[1].d.f2_bereit <=> anlage[2].d.f2_bereit
                      /\ anlage[1].d.f2_bereit => anlage[2].d.anzahlWS < 2
                      /\ /\ anlage[1].zustand = "Betriebszustand"
                         /\ anlage[1].bz = "Sortierung"
                         /\ anlage[1].lse = "WartenAufErlaubnisVonF2"
                         => ~anlage[2].d.f2_bereit
    BY DEF FreigabeStimmt
  <2> DEFINE K == KernHier(1, 1)
             L == KernHier(2, 1)
  <2>1. 1 \in Anlagen /\ 2 \in Anlagen
    BY DEF Anlagen
  <2>2. \A z \in Anlagen : EndBereit(anlage[z], kanal[z]) = An(anlage[z].d.f2_bereit)
    BY RuheGewusst
  <2>3. An(anlage[1].d.f2_bereit) = An(anlage[2].d.f2_bereit)
    BY <1>1, <2>1, <2>2 DEF BInv, Einig
  <2>4. anlage[1].d.f2_bereit <=> anlage[2].d.f2_bereit
    BY <2>3 DEF An
  <2>5. /\ Richtig(L) /\ L.a = 2 /\ L.n = anlage[2].d.anzahlWS
        /\ L.bereit = An(anlage[1].d.f2_bereit)
    BY <1>1, <2>1, <2>2, KernHierFelder
  <2>6. /\ Richtig(K) /\ K.zu = anlage[1].zustand /\ K.bz = anlage[1].bz
        /\ K.lse = anlage[1].lse /\ K.f2b = An(anlage[1].d.f2_bereit)
    BY <1>1, <2>1, KernHierFelder
  <2> HIDE DEF K, L
  <2>7. anlage[1].d.f2_bereit => anlage[2].d.anzahlWS < 2
    BY <2>5 DEF Richtig, BereitRichtig, An
  <2>8. /\ anlage[1].zustand = "Betriebszustand" /\ anlage[1].bz = "Sortierung"
        /\ anlage[1].lse = "WartenAufErlaubnisVonF2"
        => ~anlage[1].d.f2_bereit
    BY <2>6 DEF Richtig, WartenBekannt, WartetZuRecht, Sort, An
  <2> QED
    BY <2>4, <2>7, <2>8
<1> QED
  BY <1>1, BInvImmer, PTL

\* A plant is taken for free, or sent to rest, only when it counts no workpiece:
\* a message that says so is never overtaken by a workpiece.
THEOREM BelegungImmer == Spec => []BelegungBekannt
<1>1. ASSUME IInv, BInv PROVE BelegungBekannt
  <2>1. ASSUME Ruhe, NEW a \in Anlagen
        PROVE  /\ anlage[a].d.festo1Frei => anlage[1].d.anzahlWS = 0
               /\ anlage[a].d.festo2Frei => anlage[2].d.anzahlWS = 0
    <3> DEFINE K == KernHier(1, a)
               L == KernHier(2, a)
    <3>1. 1 \in Anlagen /\ 2 \in Anlagen
      BY DEF Anlagen
    <3>2. \A b \in Anlagen : EndFrei(anlage[a], kanal[a], b) = WeissFrei(anlage[a], b)
      BY <2>1, RuheGewusst
    <3>3. Richtig(K) /\ K.n = anlage[1].d.anzahlWS /\ K.frei = EndFrei(anlage[a], kanal[a], 1)
      BY <1>1, <3>1, KernHierFelder
    <3>4. Richtig(L) /\ L.n = anlage[2].d.anzahlWS /\ L.frei = EndFrei(anlage[a], kanal[a], 2)
      BY <1>1, <3>1, KernHierFelder
    <3> HIDE DEF K, L
    <3>5. K.frei = An(anlage[a].d.festo1Frei) /\ L.frei = An(anlage[a].d.festo2Frei)
      BY <3>1, <3>2, <3>3, <3>4 DEF WeissFrei
    <3> QED
      BY <3>3, <3>4, <3>5 DEF Richtig, FreiRichtig, An
  <2>2. ASSUME NEW a \in Anlagen, anlage[a].zustand = "Betriebszustand",
               anlage[a].bz = "AufWSWarten"
        PROVE  anlage[a].d.anzahlWS = 0
    <3> DEFINE K == KernHier(a, a)
    <3>1. /\ Richtig(K) /\ K.zu = anlage[a].zustand /\ K.bz = anlage[a].bz
          /\ K.n = anlage[a].d.anzahlWS
      BY <1>1, KernHierFelder
    <3> HIDE DEF K
    <3> QED
      BY <2>2, <3>1 DEF Richtig, RuhtLeer, Ruht
  <2> QED
    BY <2>1, <2>2 DEF BelegungBekannt
<1> QED
  BY <1>1, BInvImmer, PTL
=============================================================================
