----------------------------- MODULE Kontextdaten -----------------------------
(***************************************************************************)
(* What the sorting machine of one plant knows (ContextData, Werkstueck,   *)
(* RegionTimer) and what it sends (Actions).  An operator maps a record g  *)
(* to the record it leaves:                                                *)
(*                                                                         *)
(*   g.d    the data of the plant                                          *)
(*   g.aus  the signals sent so far, in order: [sig |-> .., wert |-> ..]   *)
(*                                                                         *)
(* The numbers of the workpieces, the time file and the fields nothing     *)
(* reads are left out.                                                     *)
(***************************************************************************)
EXTENDS RegionTimer, Sequences, SequencesExt

WerkstueckTyp == {"F", "H", "HB", "HBM", "UNBEKANNT"}

sollReihenfolge == <<"HB", "H", "F", "HBM">>

Fehlerart == {"keinFehler", "neuWS", "verlorenWS", "rutscheVoll"}
FehlerOrt == {"DEFAULT", "LSA", "LSA1", "LSA2", "LSH", "LSH_BIS_LSW", "LSW",
              "LSR", "LSE1", "LSE2"}

\* A workpiece as the software sees it.
Werkstueck == [typ : WerkstueckTyp, metall : BOOLEAN, aussortieren : BOOLEAN]
NeuesWerkstueck == [typ |-> "UNBEKANNT", metall |-> FALSE, aussortieren |-> FALSE]

-----------------------------------------------------------------------------
(***************************************************************************)
(* The region timers.                                                      *)
(***************************************************************************)
stelle(g, n, t) == [g EXCEPT !.d.timer[n] = t]

starte(g, n) == stelle(g, n, Gestartet)

pausiere(g, N) ==
  [g EXCEPT !.d.timer = [n \in TimerNamen |-> IF n \in N THEN Pausiert(@[n]) ELSE @[n]]]

fortsetzen(g, N) ==
  [g EXCEPT !.d.timer = [n \in TimerNamen |-> IF n \in N THEN Fortgesetzt(@[n]) ELSE @[n]]]

-----------------------------------------------------------------------------
(***************************************************************************)
(* Sending.                                                                *)
(***************************************************************************)
sendenMit(g, sig, wert) == [g EXCEPT !.aus = Append(@, [sig |-> sig, wert |-> wert])]

senden(g, sig) == sendenMit(g, sig, "-")

\* The pulse a timer's first and second callback send; the ejector region
\* gives lsr_timer an empty second one.
ZeitPuls == [lsa |-> "T_LSE1_LSA2", lsh |-> "T_LSA_LSH", lsw |-> "T_LSH_LSM",
             lse |-> "T_LSW_LSE", lsr |-> "T_LSW_LSR"]
ToleranzPuls == [lsa |-> "T_TOLERANZZEIT_LSA", lsh |-> "T_TOLERANZZEIT_LSH",
                 lsw |-> "T_TOLERANZZEIT_LSW", lse |-> "T_TOLERANZZEIT_LSE"]

\* onZeitAbgelaufen, onToleranzAbgelaufen: what timer n, which stood at t, sends.
Rueckruf(g, n, t, s) ==
  CASE ZeitAbgelaufen(t, n, s)                   -> senden(g, ZeitPuls[n])
    [] ToleranzAbgelaufen(t, n, s) /\ n # "lsr" -> senden(g, ToleranzPuls[n])
    [] OTHER                                     -> g

\* updateTimers: one tick for all five timers, in the order of the code, at
\* the speed the state machine takes its belt to have.
TimerSchritt(g, n) ==
  LET t == g.d.timer[n]
      s == g.d.motorSchnell
  IN  Rueckruf(stelle(g, n, aktualisiere(t, n, s)), n, t, s)

updateTimers(g) ==
  LET lsa == TimerSchritt(g, "lsa")
      lsh == TimerSchritt(lsa, "lsh")
      lsw == TimerSchritt(lsh, "lsw")
      lse == TimerSchritt(lsw, "lse")
  IN  TimerSchritt(lse, "lsr")

\* Only plant 1 tells what it has let through.
wsTypSenden(g, typ) ==
  IF g.d.festo = 1 THEN sendenMit(g, "S_UEBERGABE_WS", typ) ELSE g

-----------------------------------------------------------------------------
(***************************************************************************)
(* The data of a plant.                                                    *)
(***************************************************************************)
NeueDaten(a) ==
  [festo |-> a, timer |-> [n \in TimerNamen |-> NeuerTimer],
   anzahlWS |-> 0, order_index |-> 0, werkstueckListe |-> <<>>,
   erwarteteTypenQueue |-> <<>>, f2_bereit |-> TRUE, f2_voll |-> FALSE,
   festo1Frei |-> FALSE, festo2Frei |-> TRUE,
   rutsche_voll |-> FALSE, rutsche2_voll |-> FALSE, motorSchnell |-> TRUE,
   enteredHoheMessen |-> FALSE, enteredWartenAufErlaubnisVonF2 |-> FALSE,
   enteredWartenBisWSEntfernt |-> FALSE, enteredAussortieren |-> FALSE,
   FehlerVerlorenBeiLAS2 |-> FALSE,
   fehler |-> [art |-> "keinFehler", ort |-> "DEFAULT"]]

gFesto1(g) == g.d.festo = 1
gFesto2(g) == g.d.festo = 2

setFehler(g, art, ort) == [g EXCEPT !.d.fehler = [art |-> art, ort |-> ort]]

Vorn(g) == Head(g.d.werkstueckListe)
ListeLeer(g) == g.d.werkstueckListe = <<>>

ErstesWird(g, w) == [g EXCEPT !.d.werkstueckListe[1] = w]

\* What a reset after an emergency stop forgets; the timers, the flags of the
\* slides and what the plant knows of the other one stay.
Vergessen ==
  {"f2_voll", "f2_bereit", "anzahlWS", "festo1Frei", "order_index", "motorSchnell",
   "enteredHoheMessen", "enteredWartenAufErlaubnisVonF2", "enteredWartenBisWSEntfernt",
   "FehlerVerlorenBeiLAS2", "erwarteteTypenQueue", "werkstueckListe", "fehler"}

Geloescht(g, felder) ==
  [g EXCEPT !.d = [f \in DOMAIN @ |-> IF f \in felder THEN NeueDaten(g.d.festo)[f] ELSE @[f]]]

\* (altered) the plant still believes that it measures a height
datenprozessLoeschen_ohneHoehe(g) == Geloescht(g, Vergessen \ {"enteredHoheMessen"})

\* (altered) the workpieces stay in the count
datenprozessLoeschen_ohneAnzahl(g) == Geloescht(g, Vergessen \ {"anzahlWS"})

\* (altered) plant 2 still expects what it has been told before
datenprozessLoeschen_ohneErwartung(g) == Geloescht(g, Vergessen \ {"erwarteteTypenQueue"})

\* (altered) plant 1 goes on in the order where it stopped
datenprozessLoeschen_ohneFolge(g) == Geloescht(g, Vergessen \ {"order_index"})

datenprozessLoeschen(g) == Geloescht(g, Vergessen)

-----------------------------------------------------------------------------
(***************************************************************************)
(* How many workpieces are on the plant (anzahlWSF1, anzahlWSF2).          *)
(***************************************************************************)
addWS_F1(g) == senden([g EXCEPT !.d.anzahlWS = @ + 1], "S_FESTO1_NFREI")

\* (altered) plant 2 takes one workpiece more
addWS_F2_abDrei(g) ==
  LET h == senden([g EXCEPT !.d.anzahlWS = @ + 1], "S_FESTO2_NFREI")
  IN  IF h.d.anzahlWS > 2
      THEN senden([h EXCEPT !.d.f2_voll = TRUE], "S_FESTO2_NBEREIT")
      ELSE h

addWS_F2(g) ==
  LET h == senden([g EXCEPT !.d.anzahlWS = @ + 1], "S_FESTO2_NFREI")
  IN  IF h.d.anzahlWS >= 2
      THEN senden([h EXCEPT !.d.f2_voll = TRUE], "S_FESTO2_NBEREIT")
      ELSE h

NichtNegativ(g) == [g EXCEPT !.d.anzahlWS = IF @ < 0 THEN 0 ELSE @]

\* (altered) the plants are reported as free also at a hand-over
loescheWS_F1_beiUebergabe(g) ==
  LET h == [g EXCEPT !.d.anzahlWS = @ - 1]
      frei == senden(h, "S_FESTO1_FREI")
  IN  NichtNegativ(
        IF h.d.anzahlWS # 0 THEN h
        ELSE IF h.d.festo2Frei THEN senden(frei, "CMD_FESTOS_FREI") ELSE frei)

loescheWS_F1(g) ==
  LET h == [g EXCEPT !.d.anzahlWS = @ - 1]
      frei == senden(h, "S_FESTO1_FREI")
  IN  NichtNegativ(
        IF h.d.anzahlWS # 0 THEN h
        ELSE IF h.d.festo2Frei /\ h.d.enteredAussortieren
             THEN senden(frei, "CMD_FESTOS_FREI")
             ELSE frei)

\* (altered) plant 2 does not report that it has room again
loescheWS_F2_ohneBereit(g) ==
  LET h == [g EXCEPT !.d.anzahlWS = @ - 1]
      frei == senden(h, "S_FESTO2_FREI")
  IN  NichtNegativ(
        IF h.d.anzahlWS # 0 THEN h
        ELSE IF h.d.festo1Frei THEN senden(frei, "CMD_FESTOS_FREI") ELSE frei)

\* (altered) plant 2 does not look whether plant 1 is free as well
loescheWS_F2_einseitig(g) ==
  LET h == [g EXCEPT !.d.anzahlWS = @ - 1]
      bereit == IF h.d.anzahlWS < 2
                THEN [senden(h, "S_FESTO2_BEREIT") EXCEPT !.d.f2_voll = FALSE]
                ELSE h
  IN  NichtNegativ(
        IF h.d.anzahlWS # 0 THEN bereit
        ELSE senden(senden(bereit, "S_FESTO2_FREI"), "CMD_FESTOS_FREI"))

loescheWS_F2(g) ==
  LET h == [g EXCEPT !.d.anzahlWS = @ - 1]
      bereit == IF h.d.anzahlWS < 2
                THEN [senden(h, "S_FESTO2_BEREIT") EXCEPT !.d.f2_voll = FALSE]
                ELSE h
      frei == senden(bereit, "S_FESTO2_FREI")
  IN  NichtNegativ(
        IF h.d.anzahlWS # 0 THEN bereit
        ELSE IF h.d.festo1Frei THEN senden(frei, "CMD_FESTOS_FREI") ELSE frei)

-----------------------------------------------------------------------------
(***************************************************************************)
(* What is known of each workpiece between LSA and the switch.             *)
(***************************************************************************)
registerId1(g) == [g EXCEPT !.d.werkstueckListe = Append(@, NeuesWerkstueck)]

\* (altered) the height is entered for the workpiece that came last
registerId2_hinten(g, sig) ==
  IF ListeLeer(g) THEN g
  ELSE [g EXCEPT !.d.werkstueckListe[Len(g.d.werkstueckListe)].typ =
          CASE sig = "WERKSTUECK_FLACH" -> "F"
            [] sig = "WERKSTUECK_HOCH"  -> "H"
            [] OTHER -> "HB"]

\* The height belongs to the first workpiece of the list; a bore is only
\* taken for a bore with metal when the metal was seen before.
registerId2(g, sig) ==
  LET typ == CASE sig = "WERKSTUECK_FLACH" -> "F"
               [] sig = "WERKSTUECK_HOCH"  -> "H"
               [] sig = "WERKSTUECK_MIT_BOHRUNG" ->
                    IF Vorn(g).metall THEN "HBM" ELSE "HB"
               [] OTHER -> "UNBEKANNT"
  IN  IF ListeLeer(g) THEN g
      ELSE ErstesWird(g, [Vorn(g) EXCEPT !.typ = typ,
                                         !.aussortieren = @ \/ typ = "UNBEKANNT"])

\* (altered) metal does not turn a bore into a bore with metal
registerId3_nurMetall(g) ==
  IF ListeLeer(g) \/ Vorn(g).aussortieren THEN g
  ELSE ErstesWird(g, [Vorn(g) EXCEPT !.metall = TRUE])

registerId3(g) ==
  IF ListeLeer(g) \/ Vorn(g).aussortieren THEN g
  ELSE ErstesWird(g, [Vorn(g) EXCEPT !.metall = TRUE, !.typ = IF @ = "HB" THEN "HBM" ELSE @])

werkstueckVerlaesstAnlage(g) ==
  IF ListeLeer(g) THEN g ELSE [g EXCEPT !.d.werkstueckListe = Tail(@)]

-----------------------------------------------------------------------------
(***************************************************************************)
(* The sorting order.                                                      *)
(***************************************************************************)
\* Is the first workpiece to be sorted out?  Plant 1 compares it with the
\* fixed order, plant 2 with what plant 1 has told it.
FalschFuerF1(g) ==
  Vorn(g).typ # sollReihenfolge[(IF g.d.order_index >= 4 THEN 0 ELSE g.d.order_index) + 1]

FalschFuerF2(g) ==
  LET q == g.d.erwarteteTypenQueue
  IN  q = <<>> \/ Head(q) = "UNBEKANNT" \/ Head(q) # Vorn(g).typ

ueberpruefeReihenfolge(g) ==
  IF ListeLeer(g) THEN g
  ELSE LET falsch == IF gFesto1(g) THEN FalschFuerF1(g) ELSE FalschFuerF2(g)
           h == ErstesWird(g, [Vorn(g) EXCEPT !.aussortieren = falsch])
       IN  [h EXCEPT !.d.order_index = IF gFesto1(g) /\ @ >= 4 THEN 0 ELSE @]

gLSWUBDurchlauf(g) ==
  /\ ~ListeLeer(g)
  /\ ~Vorn(g).aussortieren \/ (gFesto1(g) /\ g.d.rutsche_voll)

\* The first workpiece is the next one of the order.
gTypGleichNaechster(g) ==
  /\ ~ListeLeer(g)
  /\ IF gFesto1(g) THEN ~FalschFuerF1(g)
     ELSE /\ g.d.erwarteteTypenQueue # <<>>
          /\ Vorn(g).typ = Head(g.d.erwarteteTypenQueue)

gLSWUBAussortieren(g) ==
  /\ ~g.d.rutsche_voll
  /\ IF gFesto2(g) THEN Vorn(g).aussortieren ELSE ~gTypGleichNaechster(g)

gLSWUBFehlerRutsche2Voll(g) ==
  ~ListeLeer(g) /\ Vorn(g).aussortieren /\ g.d.rutsche2_voll

\* (altered) the order does not begin again after its last type
advanceOrder_ohneUmlauf(g) ==
  IF gFesto1(g) THEN [g EXCEPT !.d.order_index = IF @ < 3 THEN @ + 1 ELSE 3]
  ELSE IF g.d.erwarteteTypenQueue = <<>> THEN g
       ELSE [g EXCEPT !.d.erwarteteTypenQueue = Tail(@)]

\* (altered) the order is one type too long
advanceOrder_bisVier(g) ==
  IF gFesto1(g)
  THEN [g EXCEPT !.d.order_index = IF @ + 1 > 4 THEN 0 ELSE @ + 1]
  ELSE IF g.d.erwarteteTypenQueue = <<>> THEN g
       ELSE [g EXCEPT !.d.erwarteteTypenQueue = Tail(@)]

\* (altered) plant 2 keeps what it expected
advanceOrder_ohneEntnahme(g) ==
  IF gFesto1(g) THEN [g EXCEPT !.d.order_index = (@ + 1) % 4] ELSE g

advanceOrder(g) ==
  IF gFesto1(g)
  THEN [g EXCEPT !.d.order_index = IF @ + 1 >= 4 THEN 0 ELSE @ + 1]
  ELSE IF g.d.erwarteteTypenQueue = <<>> THEN g
       ELSE [g EXCEPT !.d.erwarteteTypenQueue = Tail(@)]

\* Plant 2: the type plant 1 has let through.
empfangeTypVonF1(g, typ) == [g EXCEPT !.d.erwarteteTypenQueue = Append(@, typ)]

\* WERKSTUECK_ANDERS: plant 2 had to sort a workpiece out that plant 1 had
\* let through, plant 1 waits for that type again.
WerkstueckAnders(g) ==
  [g EXCEPT !.d.order_index = IF @ > 0 THEN @ - 1 ELSE 3]
=============================================================================
