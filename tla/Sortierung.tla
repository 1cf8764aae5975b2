------------------------------ MODULE Sortierung ------------------------------
(***************************************************************************)
(* The sorting machine of one plant: AufWSWarten and Sortierung with its   *)
(* five orthogonal regions, and what Betriebszustand and Context do with a *)
(* signal before and after the sorting machine sees it.                    *)
(*                                                                         *)
(*   g.zustand                root state                                   *)
(*   g.bz                     AufWSWarten or Sortierung                    *)
(*   g.lsa g.lsh g.lsw g.lse  states of the regions LSA, LSH, LSHbisLSW    *)
(*   g.warn                   and LSWbisLSE, and of the region Warnung     *)
(*   g.exit                   has a region asked for Fehlerbehandlung?     *)
(*   g.d, g.aus               see Kontextdaten                             *)
(*                                                                         *)
(* A handler of Sortierung passes its trigger to all regions in the order  *)
(* LSA, LSH, LSHbisLSW, LSWbisLSE, Warnung; a region that does not react   *)
(* to the trigger in its state is left out.  KomplettTypErkennen is not    *)
(* modelled: Betriebszustand passes no s_metal_an on.                      *)
(***************************************************************************)
EXTENDS Kontextdaten

LSAZustand  == {"WartenAufLSA", "BeginnSortierprozessF1", "NaechsteWSErlaubt",
                "BeginnSortierprozessF2", "WartenAufWSBeiLSA"}
LSHZustand  == {"WartenAufLSH", "WartenAufWSBeiLSH", "HoeheMessen"}
LSWZustand  == {"WartenAufLSW", "WartenAufWSBeiLSW", "WSAussortieren"}
LSEZustand  == {"WartenAufLSE", "WartenAufWSBeiLSE", "WartenAufErlaubnisVonF2",
                "WartenBisWSEntfernt"}
WarnZustand == {"WartenAufWarnung", "WarnsignalAktivieren"}

\* A plant whose Betriebszustand has just been entered by default.
NeueAnlage(a) ==
  [d |-> NeueDaten(a), aus |-> <<>>, zustand |-> "Betriebszustand", bz |-> "AufWSWarten",
   lsa |-> "WartenAufLSA", lsh |-> "WartenAufLSH", lsw |-> "WartenAufLSW",
   lse |-> "WartenAufLSE", warn |-> "WartenAufWarnung", exit |-> FALSE]

\* A region leaves for Fehlerbehandlung.
FehlerExit(g, art, ort) == [setFehler(g, art, ort) EXCEPT !.exit = TRUE]

MotorSchnell(g) == senden(g, "CMD_MTR_RECHTS_S")
MotorLangsam(g) == senden(g, "CMD_MTR_RECHTS_L")

-----------------------------------------------------------------------------
(***************************************************************************)
(* Region LSA: the entry of the plant.                                     *)
(***************************************************************************)
\* (altered) the lamp stays on
BeginnSortierprozessF1_entry_mitLampe(g) == [g EXCEPT !.lsa = "BeginnSortierprozessF1"]

BeginnSortierprozessF1_entry(g) ==
  senden([g EXCEPT !.lsa = "BeginnSortierprozessF1"], "CMD_LED_Q1_AUS")

BeginnSortierprozessF2_entry(g) == [g EXCEPT !.lsa = "BeginnSortierprozessF2"]

\* (altered) the lamp goes on, the region does not change its state
NaechsteWSErlaubt_entry_nurLampe(g) == senden(g, "CMD_LED_Q1_AN")

NaechsteWSErlaubt_entry(g) == senden([g EXCEPT !.lsa = "NaechsteWSErlaubt"], "CMD_LED_Q1_AN")

WartenAufLSA_entry(g) ==
  CASE gFesto1(g) -> BeginnSortierprozessF1_entry(addWS_F1(starte(g, "lsh")))
    [] gFesto2(g) /\ ~g.d.f2_voll -> BeginnSortierprozessF2_entry(MotorSchnell(g))
    [] OTHER -> [g EXCEPT !.lsa = "WartenAufLSA"]

\* A workpiece that was reported as lost and found again is taken in here.
WartenAufWSBeiLSA_entry(g) ==
  IF g.d.FehlerVerlorenBeiLAS2
  THEN addWS_F2(BeginnSortierprozessF2_entry(
         starte([g EXCEPT !.d.FehlerVerlorenBeiLAS2 = FALSE], "lsh")))
  ELSE [g EXCEPT !.lsa = "WartenAufWSBeiLSA"]

\* Only plant 1 is ever in the states with the suffix F1, only plant 2 in the others.
WartenAufLSA_s_lsa1_ub(g) ==
  IF gFesto1(g) THEN BeginnSortierprozessF1_entry(starte(g, "lsh")) ELSE g

BeginnSortierprozessF1_s_lsa1_ub(g) == FehlerExit(g, "neuWS", "LSA1")

NaechsteWSErlaubt_s_lsa1_ub(g) == BeginnSortierprozessF1_entry(addWS_F1(starte(g, "lsh")))

WartenAufLSA_s_lse1_ub(g) ==
  IF gFesto2(g) /\ ~g.d.f2_voll THEN BeginnSortierprozessF2_entry(MotorSchnell(g)) ELSE g

WartenAufLSA_s_lsa2_ub(g) == FehlerExit(g, "neuWS", "LSA")

BeginnSortierprozessF2_s_lsa2_ub(g) == FehlerExit(g, "neuWS", "LSA")

\* (altered) plant 2 does not count the workpiece it takes in
WartenAufWSBeiLSA_s_lsa2_ub_ohneZaehlen(g) ==
  BeginnSortierprozessF2_entry(
    IF g.d.festo1Frei THEN senden(starte(g, "lsh"), "S_FESTO1_STOPPEN") ELSE starte(g, "lsh"))

WartenAufWSBeiLSA_s_lsa2_ub(g) ==
  LET h == addWS_F2(starte(g, "lsh"))
  IN  BeginnSortierprozessF2_entry(
        IF h.d.festo1Frei THEN senden(h, "S_FESTO1_STOPPEN") ELSE h)

BeginnSortierprozessF2_t_lse1_lsa2(g) == WartenAufWSBeiLSA_entry(g)

WartenAufWSBeiLSA_t_toleranzzeit_lsa(g) == FehlerExit(g, "verlorenWS", "LSA2")

-----------------------------------------------------------------------------
(***************************************************************************)
(* Region LSH: the height is measured at slow speed.                       *)
(***************************************************************************)
WartenAufLSH_entry(g) == [g EXCEPT !.lsh = "WartenAufLSH"]

WartenAufWSBeiLSH_entry(g) == [g EXCEPT !.lsh = "WartenAufWSBeiLSH"]

HoeheMessen_entry(g) ==
  [g EXCEPT !.lsh = "HoeheMessen", !.d.enteredHoheMessen = TRUE, !.d.motorSchnell = FALSE]

WartenAufLSH_s_lsh_ub(g) ==
  FehlerExit(IF g.d.enteredWartenAufErlaubnisVonF2 THEN g ELSE MotorLangsam(g), "neuWS", "LSH")

WartenAufWSBeiLSH_s_lsh_ub(g) == HoeheMessen_entry(starte(MotorLangsam(g), "lsw"))

WartenAufWSBeiLSH_t_toleranzzeit_lsh(g) == FehlerExit(g, "verlorenWS", "LSH")

HoeheMessen_s_lsh_nub(g) ==
  LET h == IF g.d.enteredWartenAufErlaubnisVonF2 THEN g ELSE MotorSchnell(g)
  IN  WartenAufLSH_entry([h EXCEPT !.d.motorSchnell = TRUE, !.d.enteredHoheMessen = FALSE])

-----------------------------------------------------------------------------
(***************************************************************************)
(* Region LSHbisLSW: the decision at the switch.                           *)
(***************************************************************************)
WartenAufLSW_entry(g) == [g EXCEPT !.lsw = "WartenAufLSW", !.d.enteredAussortieren = FALSE]

WartenAufWSBeiLSW_entry(g) == [g EXCEPT !.lsw = "WartenAufWSBeiLSW"]

\* (altered) plant 1 takes every workpiece it lets pass for the right one
WSDurchlauf_entry_zaehltImmer(g) ==
  LET unterwegs == starte(wsTypSenden(g, Vorn(g).typ), "lse")
  IN  WartenAufLSW_entry(
        werkstueckVerlaesstAnlage(senden(advanceOrder(unterwegs), "CMD_DURCHLASSEN")))

\* The workpiece may pass; the region is back in WartenAufLSW at once.
WSDurchlauf_entry(g) ==
  LET aussortiert == Vorn(g).aussortieren
      typ == IF aussortiert /\ gFesto1(g) THEN "UNBEKANNT" ELSE Vorn(g).typ
      unterwegs == starte(wsTypSenden(g, typ), "lse")
      gezaehlt == IF gFesto2(g) \/ ~aussortiert THEN advanceOrder(unterwegs) ELSE unterwegs
  IN  WartenAufLSW_entry(
        werkstueckVerlaesstAnlage(senden(gezaehlt, "CMD_DURCHLASSEN")))

\* (altered) plant 2 keeps an announced UNBEKANNT
WSAussortieren_entry_ohneEntnahme(g) ==
  LET h == werkstueckVerlaesstAnlage(senden(g, "CMD_AUSSORTIEREN"))
      q == h.d.erwarteteTypenQueue
      gemeldet == IF gFesto1(g) \/ q = <<>> \/ Head(q) = "UNBEKANNT" THEN h
                  ELSE senden(h, "WERKSTUECK_ANDERS")
  IN  [starte(gemeldet, "lsr") EXCEPT !.lsw = "WSAussortieren", !.d.enteredAussortieren = TRUE]

\* (altered) the count does not see that the last workpiece went into the slide
WSAussortieren_entry_ohneMerken(g) ==
  LET h == werkstueckVerlaesstAnlage(senden(g, "CMD_AUSSORTIEREN"))
      q == h.d.erwarteteTypenQueue
      gemeldet == CASE gFesto1(g) \/ q = <<>> -> h
                    [] Head(q) # "UNBEKANNT"  -> senden(h, "WERKSTUECK_ANDERS")
                    [] OTHER -> [h EXCEPT !.d.erwarteteTypenQueue = Tail(q)]
  IN  [starte(gemeldet, "lsr") EXCEPT !.lsw = "WSAussortieren"]

\* Plant 2 tells plant 1 when it sorts out what plant 1 took for right; only
\* an announced UNBEKANNT is taken from the queue.
WSAussortieren_entry(g) ==
  LET h == werkstueckVerlaesstAnlage(senden(g, "CMD_AUSSORTIEREN"))
      q == h.d.erwarteteTypenQueue
      gemeldet == CASE gFesto1(g) \/ q = <<>> -> h
                    [] Head(q) # "UNBEKANNT"  -> senden(h, "WERKSTUECK_ANDERS")
                    [] OTHER -> [h EXCEPT !.d.erwarteteTypenQueue = Tail(q)]
  IN  [starte(gemeldet, "lsr") EXCEPT !.lsw = "WSAussortieren", !.d.enteredAussortieren = TRUE]

WartenAufLSW_s_lsw_ub(g) == FehlerExit(g, "neuWS", "LSH_BIS_LSW")

WartenAufWSBeiLSW_s_lsw_ub(g) ==
  LET h == ueberpruefeReihenfolge(g)
  IN  CASE gLSWUBDurchlauf(h)          -> WSDurchlauf_entry(h)
        [] ~gLSWUBDurchlauf(h) /\ gLSWUBAussortieren(h) -> WSAussortieren_entry(h)
        [] ~gLSWUBDurchlauf(h) /\ ~gLSWUBAussortieren(h) /\ gLSWUBFehlerRutsche2Voll(h)
                                       -> FehlerExit(h, "rutscheVoll", "LSR")
        [] OTHER                       -> h

WartenAufWSBeiLSW_t_toleranzzeit_lsw(g) == FehlerExit(g, "verlorenWS", "LSW")

WSAussortieren_s_lsr_ub(g) ==
  WartenAufLSW_entry(IF gFesto1(g) THEN loescheWS_F1(g) ELSE loescheWS_F2(g))

WSAussortieren_t_lsw_lsr(g) == FehlerExit(g, "verlorenWS", "LSR")

-----------------------------------------------------------------------------
(***************************************************************************)
(* Region LSWbisLSE: the hand-over to plant 2, the end of plant 2.         *)
(***************************************************************************)
WartenAufLSE_entry(g) == [g EXCEPT !.lse = "WartenAufLSE"]

WartenAufWSBeiLSE_entry(g) == [g EXCEPT !.lse = "WartenAufWSBeiLSE"]

WartenAufErlaubnisVonF2_entry(g) ==
  LET h == [g EXCEPT !.lse = "WartenAufErlaubnisVonF2",
                     !.d.enteredWartenAufErlaubnisVonF2 = TRUE]
  IN  pausiere(senden(h, "CMD_MTR_STOP"), BandTimer)

WartenAufErlaubnisVonF2_exit(g) ==
  LET h == starte(IF g.d.enteredHoheMessen THEN MotorLangsam(g) ELSE MotorSchnell(g), "lsa")
  IN  fortsetzen([h EXCEPT !.d.enteredWartenAufErlaubnisVonF2 = FALSE], BandTimer)

WartenBisWSEntfernt_entry(g) ==
  LET h == [g EXCEPT !.lse = "WartenBisWSEntfernt", !.d.enteredWartenBisWSEntfernt = TRUE]
  IN  pausiere(senden(senden(h, "CMD_MTR_STOP"), "S_FESTO2_NBEREIT"), BandTimer)

WartenBisWSEntfernt_exit(g) ==
  [MotorSchnell(g) EXCEPT !.d.enteredWartenBisWSEntfernt = FALSE]

LSWbisLSE_verlassen(g) ==
  CASE g.lse = "WartenAufErlaubnisVonF2" -> WartenAufErlaubnisVonF2_exit(g)
    [] g.lse = "WartenBisWSEntfernt"     -> WartenBisWSEntfernt_exit(g)
    [] OTHER -> g

WartenAufLSE_s_lse1_ub(g) == IF gFesto1(g) THEN FehlerExit(g, "neuWS", "LSE1") ELSE g

WartenAufLSE_s_lse2_ub(g) == IF gFesto2(g) THEN FehlerExit(g, "neuWS", "LSE2") ELSE g

\* (altered) plant 1 hands over without looking whether plant 2 is ready
WartenAufWSBeiLSE_s_lse1_ub_immer(g) ==
  IF gFesto1(g)
  THEN WartenAufLSE_entry(senden(loescheWS_F1(starte(g, "lsa")), "S_WS_AN_FESTO2"))
  ELSE g

WartenAufWSBeiLSE_s_lse1_ub(g) ==
  CASE gFesto1(g) /\ g.d.f2_bereit ->
         WartenAufLSE_entry(senden(loescheWS_F1(starte(g, "lsa")), "S_WS_AN_FESTO2"))
    [] gFesto1(g) /\ ~g.d.f2_bereit -> WartenAufErlaubnisVonF2_entry(g)
    [] OTHER -> g

WartenAufWSBeiLSE_s_lse2_ub(g) == IF gFesto2(g) THEN WartenBisWSEntfernt_entry(g) ELSE g

WartenAufWSBeiLSE_t_toleranzzeit_lse(g) == FehlerExit(g, "verlorenWS", "LSE1")

WartenAufErlaubnisVonF2_s_festo2_bereit(g) ==
  WartenAufLSE_entry(
    WartenAufErlaubnisVonF2_exit(senden(loescheWS_F1(g), "S_WS_AN_FESTO2")))

WartenBisWSEntfernt_s_lse2_nub(g) ==
  WartenAufLSE_entry(WartenBisWSEntfernt_exit(fortsetzen(loescheWS_F2(g), BandTimer)))

-----------------------------------------------------------------------------
(***************************************************************************)
(* Region Warnung: the yellow lamp blinks while the slide is full.         *)
(***************************************************************************)
WarnsignalAktivieren_exit(g) == senden(g, "CMD_LED_AMP_GLB_AUS")

\* Back to WartenAufWarnung at once when the slide is not full after all.
WarnsignalAktivieren_entry(g) ==
  LET h == senden(g, "CMD_LED_AMP_GLB_B")
  IN  IF g.d.rutsche_voll THEN [h EXCEPT !.warn = "WarnsignalAktivieren"]
      ELSE [WarnsignalAktivieren_exit(h) EXCEPT !.warn = "WartenAufWarnung"]

\* (altered) a slide that is full already is not noticed
WartenAufWarnung_entry_blind(g) == [g EXCEPT !.warn = "WartenAufWarnung"]

WartenAufWarnung_entry(g) ==
  IF g.d.rutsche_voll THEN WarnsignalAktivieren_entry(g)
  ELSE [g EXCEPT !.warn = "WartenAufWarnung"]

Warnung_verlassen(g) ==
  IF g.warn = "WarnsignalAktivieren" THEN WarnsignalAktivieren_exit(g) ELSE g

WartenAufWarnung_ec_rtsch_voll(g) == WarnsignalAktivieren_entry(g)

WarnsignalAktivieren_cmd_rtsch_nv(g) == WartenAufWarnung_entry(WarnsignalAktivieren_exit(g))

-----------------------------------------------------------------------------
(***************************************************************************)
(* Sortierung and AufWSWarten.                                             *)
(***************************************************************************)
Sortierung_entry(g) ==
  IF gFesto1(g) /\ ~g.d.enteredHoheMessen /\ ~g.d.enteredWartenAufErlaubnisVonF2
  THEN MotorSchnell(g) ELSE g

SortierungBetreten(g) ==
  LET h == WartenAufLSA_entry(Sortierung_entry([g EXCEPT !.bz = "Sortierung"]))
  IN  WartenAufWarnung_entry(WartenAufLSE_entry(WartenAufLSW_entry(WartenAufLSH_entry(h))))

\* Only the regions LSWbisLSE and Warnung have something to do on leaving.
SortierungVerlassen(g) == Warnung_verlassen(LSWbisLSE_verlassen(g))

AufWSWarten_entry(g) ==
  senden(senden([g EXCEPT !.bz = "AufWSWarten"], "CMD_MTR_STOP"), "CMD_LED_Q1_AN")

AufWSWarten_s_lsa1_ub(g) == IF gFesto1(g) THEN SortierungBetreten(starte(g, "lsh")) ELSE g

AufWSWarten_s_ws_an_festo2(g) == IF gFesto2(g) THEN SortierungBetreten(g) ELSE g

\* The end of every handler of Sortierung: when a region has asked for
\* Fehlerbehandlung, all regions are left.
RegionenFertig(g) == IF g.exit THEN SortierungVerlassen(g) ELSE g

\* cmd_festos_frei, s_festo1_stoppen and s_festo2_frei end the sorting.
AufWSWartenBetreten(g) == AufWSWarten_entry(SortierungVerlassen(g))

cmd_festos_frei(g) == AufWSWartenBetreten(g)

s_festo1_stoppen(g) == IF gFesto1(g) THEN AufWSWartenBetreten(g) ELSE g

s_festo2_frei(g) == IF gFesto2(g) THEN AufWSWartenBetreten(g) ELSE g

=============================================================================
