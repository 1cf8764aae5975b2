--------------------------- MODULE Anlagensteuerung ---------------------------
(***************************************************************************)
(* How a signal reaches the sorting machine: Context::handleEvent changes  *)
(* the data, Betriebszustand passes the trigger to AufWSWarten or          *)
(* Sortierung, Sortierung passes it to its regions.  Then where a plant's  *)
(* dispatcher sends what the machine has sent, and how urgently.           *)
(***************************************************************************)
EXTENDS Sortierung

(***************************************************************************)
(* The handlers of Sortierung.                                             *)
(***************************************************************************)
s_lsa1_ub(g) ==
  RegionenFertig(
    CASE g.lsa = "WartenAufLSA"           -> WartenAufLSA_s_lsa1_ub(g)
      [] g.lsa = "BeginnSortierprozessF1" -> BeginnSortierprozessF1_s_lsa1_ub(g)
      [] g.lsa = "NaechsteWSErlaubt"      -> NaechsteWSErlaubt_s_lsa1_ub(g)
      [] OTHER                            -> g)

s_lsa2_ub(g) ==
  RegionenFertig(
    CASE g.lsa = "WartenAufLSA"           -> WartenAufLSA_s_lsa2_ub(g)
      [] g.lsa = "BeginnSortierprozessF2" -> BeginnSortierprozessF2_s_lsa2_ub(g)
      [] g.lsa = "WartenAufWSBeiLSA"      -> WartenAufWSBeiLSA_s_lsa2_ub(g)
      [] OTHER                            -> g)

s_lsh_ub(g) ==
  RegionenFertig(
    CASE g.lsh = "WartenAufLSH"           -> WartenAufLSH_s_lsh_ub(g)
      [] g.lsh = "WartenAufWSBeiLSH"      -> WartenAufWSBeiLSH_s_lsh_ub(g)
      [] OTHER                            -> g)

s_lsh_nub(g) ==
  RegionenFertig(IF g.lsh = "HoeheMessen" THEN HoeheMessen_s_lsh_nub(g) ELSE g)

s_lsw_ub(g) ==
  RegionenFertig(
    CASE g.lsw = "WartenAufLSW"           -> WartenAufLSW_s_lsw_ub(g)
      [] g.lsw = "WartenAufWSBeiLSW"      -> WartenAufWSBeiLSW_s_lsw_ub(g)
      [] OTHER                            -> g)

s_lsr_ub(g) ==
  RegionenFertig(IF g.lsw = "WSAussortieren" THEN WSAussortieren_s_lsr_ub(g) ELSE g)

\* Regions LSA and LSWbisLSE both react to S_LSE1_UB, on different plants.
s_lse1_ub(g) ==
  LET h == IF g.lsa = "WartenAufLSA" THEN WartenAufLSA_s_lse1_ub(g) ELSE g
  IN  RegionenFertig(
        CASE h.lse = "WartenAufLSE"       -> WartenAufLSE_s_lse1_ub(h)
          [] h.lse = "WartenAufWSBeiLSE"  -> WartenAufWSBeiLSE_s_lse1_ub(h)
          [] OTHER                        -> h)

s_lse2_ub(g) ==
  RegionenFertig(
    CASE g.lse = "WartenAufLSE"           -> WartenAufLSE_s_lse2_ub(g)
      [] g.lse = "WartenAufWSBeiLSE"      -> WartenAufWSBeiLSE_s_lse2_ub(g)
      [] OTHER                            -> g)

s_lse2_nub(g) ==
  RegionenFertig(
    IF g.lse = "WartenBisWSEntfernt" THEN WartenBisWSEntfernt_s_lse2_nub(g) ELSE g)

s_festo2_bereit(g) ==
  RegionenFertig(
    IF g.lse = "WartenAufErlaubnisVonF2" THEN WartenAufErlaubnisVonF2_s_festo2_bereit(g)
    ELSE g)

\* No region reacts to these two.
s_festo2_nbereit(g) == RegionenFertig(g)

s_uebergabe_ws(g) == RegionenFertig(g)

ec_rtsch_voll(g) ==
  RegionenFertig(
    IF g.warn = "WartenAufWarnung" THEN WartenAufWarnung_ec_rtsch_voll(g) ELSE g)

cmd_rtsch_nv(g) ==
  RegionenFertig(
    IF g.warn = "WarnsignalAktivieren" THEN WarnsignalAktivieren_cmd_rtsch_nv(g) ELSE g)

\* The next workpiece may come when the last one is about to reach LSH.
t_lsa_lsh(g) ==
  LET h == IF g.lsa = "BeginnSortierprozessF1" THEN NaechsteWSErlaubt_entry(g) ELSE g
  IN  RegionenFertig(IF h.lsh = "WartenAufLSH" THEN WartenAufWSBeiLSH_entry(h) ELSE h)

t_lsh_lsw(g) ==
  RegionenFertig(IF g.lsw = "WartenAufLSW" THEN WartenAufWSBeiLSW_entry(g) ELSE g)

t_lsw_lse(g) ==
  RegionenFertig(IF g.lse = "WartenAufLSE" THEN WartenAufWSBeiLSE_entry(g) ELSE g)

t_lsw_lsr(g) ==
  RegionenFertig(IF g.lsw = "WSAussortieren" THEN WSAussortieren_t_lsw_lsr(g) ELSE g)

t_lse1_lsa2(g) ==
  RegionenFertig(
    IF g.lsa = "BeginnSortierprozessF2" THEN BeginnSortierprozessF2_t_lse1_lsa2(g) ELSE g)

t_toleranzzeit_lsa(g) ==
  RegionenFertig(
    IF g.lsa = "WartenAufWSBeiLSA" THEN WartenAufWSBeiLSA_t_toleranzzeit_lsa(g) ELSE g)

t_toleranzzeit_lsh(g) ==
  RegionenFertig(
    IF g.lsh = "WartenAufWSBeiLSH" THEN WartenAufWSBeiLSH_t_toleranzzeit_lsh(g) ELSE g)

t_toleranzzeit_lsw(g) ==
  RegionenFertig(
    IF g.lsw = "WartenAufWSBeiLSW" THEN WartenAufWSBeiLSW_t_toleranzzeit_lsw(g) ELSE g)

t_toleranzzeit_lse(g) ==
  RegionenFertig(
    IF g.lse = "WartenAufWSBeiLSE" THEN WartenAufWSBeiLSE_t_toleranzzeit_lse(g) ELSE g)

-----------------------------------------------------------------------------
(***************************************************************************)
(* Betriebszustand.                                                        *)
(***************************************************************************)
\* What Sortierung does with the signals of the light barriers, ...
SensorTrigger(g, sig) ==
  CASE sig = "S_LSA1_UB"  -> s_lsa1_ub(g)
    [] sig = "S_LSA2_UB"  -> s_lsa2_ub(g)
    [] sig = "S_LSH_UB"   -> s_lsh_ub(g)
    [] sig = "S_LSH_NUB"  -> s_lsh_nub(g)
    [] sig = "S_LSW_UB"   -> s_lsw_ub(g)
    [] sig = "S_LSR_UB"   -> s_lsr_ub(g)
    [] sig = "S_LSE1_UB"  -> s_lse1_ub(g)
    [] sig = "S_LSE2_UB"  -> s_lse2_ub(g)
    [] sig = "S_LSE2_NUB" -> s_lse2_nub(g)
    [] OTHER              -> g

\* ... of the other plant and of the slides, ...
UebergabeTrigger(g, sig) ==
  CASE sig = "S_UEBERGABE_WS"   -> s_uebergabe_ws(g)
    [] sig = "S_FESTO2_BEREIT"  -> s_festo2_bereit(g)
    [] sig = "S_FESTO2_NBEREIT" -> s_festo2_nbereit(g)
    [] sig = "S_FESTO2_FREI"    -> s_festo2_frei(g)
    [] sig = "S_FESTO1_STOPPEN" -> s_festo1_stoppen(g)
    [] sig = "CMD_FESTOS_FREI"  -> cmd_festos_frei(g)
    [] sig = "EC_RTSCH_VOLL"    -> ec_rtsch_voll(g)
    [] sig = "CMD_RTSCH_NV"     -> cmd_rtsch_nv(g)
    [] OTHER                    -> g

\* ... and of the region timers.
TimerTrigger(g, sig) ==
  CASE sig = "T_LSA_LSH"          -> t_lsa_lsh(g)
    [] sig = "T_LSH_LSM"          -> t_lsh_lsw(g)
    [] sig = "T_LSW_LSE"          -> t_lsw_lse(g)
    [] sig = "T_LSW_LSR"          -> t_lsw_lsr(g)
    [] sig = "T_LSE1_LSA2"        -> t_lse1_lsa2(g)
    [] sig = "T_TOLERANZZEIT_LSA" -> t_toleranzzeit_lsa(g)
    [] sig = "T_TOLERANZZEIT_LSH" -> t_toleranzzeit_lsh(g)
    [] sig = "T_TOLERANZZEIT_LSW" -> t_toleranzzeit_lsw(g)
    [] sig = "T_TOLERANZZEIT_LSE" -> t_toleranzzeit_lse(g)
    [] OTHER                      -> g

SensorSignale == {"S_LSA1_UB", "S_LSA2_UB", "S_LSH_UB", "S_LSH_NUB", "S_LSW_UB",
                  "S_LSR_UB", "S_LSE1_UB", "S_LSE2_UB", "S_LSE2_NUB"}
TimerSignale == {ZeitPuls[n] : n \in TimerNamen} \cup {ToleranzPuls[n] : n \in BandTimer}

AufWSWartenTrigger(g, sig) ==
  CASE sig = "S_LSA1_UB"      -> AufWSWarten_s_lsa1_ub(g)
    [] sig = "S_WS_AN_FESTO2" -> AufWSWarten_s_ws_an_festo2(g)
    [] OTHER                  -> g

SortierungTrigger(g, sig) ==
  CASE sig \in SensorSignale -> SensorTrigger(g, sig)
    [] sig \in TimerSignale  -> TimerTrigger(g, sig)
    [] OTHER                 -> UebergabeTrigger(g, sig)

\* Betriebszustand::leavingState: the sub-machine leaves, then the motor stops.
BetriebVerlassen(g) ==
  senden(IF g.bz = "Sortierung" THEN SortierungVerlassen(g) ELSE g, "CMD_MTR_STOP")

\* Betriebszustand::handleDefaultExit: the regions have been left once
\* already, leavingState leaves them a second time.
BetriebszustandExit(g) ==
  IF ~g.exit THEN g
  ELSE LET h == senden(pausiere(g, TimerNamen), "S_PARTNER_FEHLER")
       IN  [senden(BetriebVerlassen(h), "CMD_MTR_STOP") EXCEPT
              !.zustand = "Fehlerbehandlung", !.exit = FALSE]

\* The other plant is in Fehlerbehandlung.
s_partner_fehler(g) ==
  LET h == pausiere(senden(g, "S_PARTNER_FEHLER"), TimerNamen)
  IN  [senden(BetriebVerlassen(h), "CMD_MTR_STOP") EXCEPT !.zustand = "Fehlerbehandlung"]

\* An emergency stop, in Betriebszustand or Fehlerbehandlung: EStop::entry.
EStopBetreten(g) ==
  LET verlassen == IF g.zustand = "Betriebszustand" THEN BetriebVerlassen(g) ELSE g
      aus == senden(senden(verlassen, "CMD_MTR_STOP"), "CMD_WCH_AUS")
      lampen == senden(senden(aus, "CMD_LED_AMP_GLB_B"), "CMD_LED_Q1_AUS")
  IN  [lampen EXCEPT !.zustand = "EStop"]

\* The reset that ends EStop, then the start out of Ruhezustand: the data have
\* been deleted, so Betriebszustand is entered by default.
Neubeginn(g) ==
  AufWSWarten_entry([senden(datenprozessLoeschen(g), "CMD_LED_AMP_GLB_AUS")
                       EXCEPT !.zustand = "Betriebszustand"])

\* The trigger as the root machine sees it; Fehlerbehandlung and EStop ignore
\* all of them.
trigger(g, sig) ==
  CASE g.zustand # "Betriebszustand" -> g
    [] g.zustand = "Betriebszustand" /\ sig = "S_PARTNER_FEHLER" -> s_partner_fehler(g)
    [] g.zustand = "Betriebszustand" /\ g.bz = "Sortierung" /\ sig # "S_PARTNER_FEHLER" ->
         BetriebszustandExit(SortierungTrigger(g, sig))
    [] OTHER -> AufWSWartenTrigger(g, sig)

-----------------------------------------------------------------------------
(***************************************************************************)
(* Context::handleEvent, by the kind of signal.                            *)
(***************************************************************************)
\* A workpiece is entered in the list when it passes the first light barrier,
\* whatever state the machine is in.
handleSensor(g, m) ==
  CASE \/ m.sig = "S_LSA1_UB" /\ gFesto1(g)
       \/ m.sig = "S_LSA2_UB" /\ gFesto2(g) -> trigger(registerId1(g), m.sig)
    [] m.sig = "S_METAL_AN" -> registerId3(g)
    [] OTHER                -> trigger(g, m.sig)

handleUebergabe(g, m) ==
  CASE m.sig = "S_UEBERGABE_WS" ->
         trigger(IF gFesto2(g) THEN empfangeTypVonF1(g, m.wert) ELSE g, m.sig)
    [] m.sig = "S_FESTO2_BEREIT" ->
         [trigger([g EXCEPT !.d.f2_voll = FALSE], m.sig) EXCEPT !.d.f2_bereit = TRUE]
    [] m.sig = "S_FESTO2_NBEREIT" ->
         [trigger([g EXCEPT !.d.f2_voll = TRUE], m.sig) EXCEPT !.d.f2_bereit = FALSE]
    [] m.sig \in {"S_FESTO1_FREI", "S_FESTO1_NFREI"} ->
         trigger([g EXCEPT !.d.festo1Frei = (m.sig = "S_FESTO1_FREI")], m.sig)
    [] m.sig \in {"S_FESTO2_FREI", "S_FESTO2_NFREI"} ->
         trigger([g EXCEPT !.d.festo2Frei = (m.sig = "S_FESTO2_FREI")], m.sig)
    [] OTHER -> trigger(g, m.sig)

\* The slides: plant 2 keeps both flags for its own slide.
handleRutsche(g, m) ==
  LET voll == m.sig \in {"EC_RTSCH1_VOLL", "EC_RTSCH2_VOLL"}
      sig == IF voll THEN "EC_RTSCH_VOLL" ELSE "CMD_RTSCH_NV"
      h == IF m.sig \in {"EC_RTSCH2_VOLL", "CMD_RTSCH2_NV"}
           THEN [g EXCEPT !.d.rutsche2_voll = voll] ELSE g
  IN  IF m.sig \in {"EC_RTSCH2_VOLL", "CMD_RTSCH2_NV"} /\ ~gFesto2(g) THEN h
      ELSE trigger([h EXCEPT !.d.rutsche_voll = voll], sig)

WerkstueckSignale == {"WERKSTUECK_FLACH", "WERKSTUECK_HOCH", "WERKSTUECK_MIT_BOHRUNG",
                      "WERKSTUECK_UNBEKANNT"}
RutscheSignale == {"EC_RTSCH1_VOLL", "EC_RTSCH2_VOLL", "CMD_RTSCH1_NV", "CMD_RTSCH2_NV"}
UebergabeSignale == {"S_UEBERGABE_WS", "S_FESTO2_BEREIT", "S_FESTO2_NBEREIT",
                     "S_FESTO1_FREI", "S_FESTO1_NFREI", "S_FESTO2_FREI", "S_FESTO2_NFREI",
                     "S_WS_AN_FESTO2", "S_FESTO1_STOPPEN", "CMD_FESTOS_FREI"}

handleEvent(g, m) ==
  CASE m.sig \in SensorSignale \cup {"S_METAL_AN"} -> handleSensor(g, m)
    [] m.sig \in UebergabeSignale  -> handleUebergabe(g, m)
    [] m.sig \in RutscheSignale    -> handleRutsche(g, m)
    [] m.sig \in WerkstueckSignale -> registerId2(g, m.sig)
    [] m.sig = "WERKSTUECK_ANDERS" -> WerkstueckAnders(g)
    [] OTHER                       -> trigger(g, m.sig)

-----------------------------------------------------------------------------
(***************************************************************************)
(* The dispatchers.  Commands go to the HAL.  Pulses of a plant's light    *)
(* barriers, timers and state machine go to its own state machine and,     *)
(* where istMeinSignal says so, also to the other one; two kinds go to one *)
(* of the machines only.                                                   *)
(***************************************************************************)
BefehlSignale == {"CMD_MTR_STOP", "CMD_WCH_AUS", "CMD_MTR_RECHTS_L", "CMD_MTR_RECHTS_S",
                  "CMD_DURCHLASSEN", "CMD_AUSSORTIEREN", "CMD_LED_Q1_AN", "CMD_LED_Q1_AUS",
                  "CMD_LED_AMP_GLB_B", "CMD_LED_AMP_GLB_AUS"}

FuerHAL(m) == m.sig \in BefehlSignale

\* Both plants have S_PARTNER_FEHLER, under the name of each panel.
istMeinSignal(a, sig) ==
  \/ sig = "S_PARTNER_FEHLER"
  \/ /\ a = 1
     /\ sig \in {"S_LSA1_UB", "S_LSE1_UB", "T_LSE1_LSA2", "T_TOLERANZZEIT_LSA",
                 "S_FESTO1_FREI", "S_FESTO1_NFREI", "S_UEBERGABE_WS", "S_WS_AN_FESTO2"}
  \/ /\ a = 2
     /\ sig \in {"S_FESTO2_BEREIT", "S_FESTO2_NBEREIT", "S_FESTO2_FREI", "S_FESTO2_NFREI",
                 "EC_RTSCH2_VOLL", "CMD_RTSCH2_NV", "CMD_FESTOS_FREI", "S_FESTO1_STOPPEN",
                 "WERKSTUECK_ANDERS"}

\* The state machines a pulse of plant a's dispatcher reaches.
Ziele(a, sig) ==
  LET eigene == CASE sig = "S_UEBERGABE_WS"    -> {2} \cap {a}
                  [] sig = "WERKSTUECK_ANDERS" -> {1} \cap {a}
                  [] OTHER                     -> {a}
  IN  eigene \cup (IF istMeinSignal(a, sig) THEN {3 - a} ELSE {})

bestimmtPrioritaet(sig) ==
  CASE sig = "S_METAL_AN" -> 25
    [] sig \in {"S_LSH_UB", "S_LSH_NUB", "S_UEBERGABE_WS", "WERKSTUECK_ANDERS"}
               \cup WerkstueckSignale -> 20
    [] sig = "S_PARTNER_FEHLER" -> 15
    [] sig = "S_LSE1_UB" -> 10
    [] OTHER -> 5

\* A channel as the sequence in which its pulses will be received: a pulse comes
\* behind those that are at least as urgent.
Einreihen(k, m) ==
  LET vor == {i \in DOMAIN k : bestimmtPrioritaet(k[i].sig) >= bestimmtPrioritaet(m.sig)}
  IN  InsertAt(k, Cardinality(vor) + 1, m)
=============================================================================
