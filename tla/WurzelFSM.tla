------------------------------ MODULE WurzelFSM ------------------------------
(***************************************************************************)
(* The root state machine of one plant: Ruhezustand, Betriebszustand,      *)
(* Fehlerbehandlung and EStop with the sub-machines RZfsm, estopfsm and    *)
(* fehlerbehandlungfsm.  The code swaps the state object in place          *)
(* (new(this) X) and sends its commands, in order, to the plant's own      *)
(* dispatcher; here a handler maps a record g to the set of records it may *)
(* leave:                                                                  *)
(*                                                                         *)
(*   g.f    the state of the machine (Context and ContextData)             *)
(*   g.dis  the dispatcher's channel the commands are sent into            *)
(*                                                                         *)
(* The sorting machine inside Betriebszustand is reduced to what the root  *)
(* machine sees of it: whether it waits for a workpiece (AufWSWarten) or   *)
(* sorts, the motor commands it sends, and the error exit.  Which of them  *)
(* it takes is left open.  ServiceMode is entered from no handler.         *)
(***************************************************************************)
EXTENDS Signale

CONSTANT
  Fehlerarten    \* the errors the sorting machine may run into

EStopZustand == {"EStop1Aktiv", "EStop2Aktiv", "EStopsAktiv", "ResetErlaubt",
                 "WartenReset1", "WartenReset2", "Ende"}
RZZustand == {"Wartezustand", "ResetTasterWarten1", "ResetTasterWarten2",
              "Betriebsbereit", "StartTasterWarten11", "StartTasterWarten22"}
FBZustand == {"AnstehendUnquittiert", "AnstehendQuittiert",
              "GegangenUnquittiert", "Ende"}
BZZustand == {"Start", "AufWSWarten", "Sortierung"}

\* letzterFehler, as far as a guard tells its values apart.
Fehler == {"keinFehler", "anderer", "rutscheVollLSR", "verlorenLSA2"}

ASSUME FehlerAnnahme == Fehlerarten \subseteq Fehler \ {"keinFehler"}

FSM == [zustand : {"Ruhezustand", "Betriebszustand", "Fehlerbehandlung", "EStop"},
        estop   : EStopZustand,
        rz      : RZZustand,
        fb      : FBZustand,
        bz      : BZZustand,
        reset_abgeschlossen : BOOLEAN,
        fehler  : Fehler,
        fehlerOffen : BOOLEAN]        \* anzahlFehler # 0

\* A machine after initFSM: Ruhezustand has been entered by default.
NeueFSM == [zustand |-> "Ruhezustand", estop |-> "Ende", rz |-> "Wartezustand",
            fb |-> "Ende", bz |-> "Start", reset_abgeschlossen |-> FALSE,
            fehler |-> "keinFehler", fehlerOffen |-> FALSE]

EStopAktiv(p) == IF p = 1 THEN "EStop1Aktiv" ELSE "EStop2Aktiv"
WartenReset(p) == IF p = 1 THEN "WartenReset1" ELSE "WartenReset2"
ResetTasterWarten(p) == IF p = 1 THEN "ResetTasterWarten1" ELSE "ResetTasterWarten2"

\* (altered) the states of the unused start sequence are entered
StartTasterWarten_ohneZwischen(p) ==
  IF p = 1 THEN "StartTasterWarten1" ELSE "StartTasterWarten2"

StartTasterWarten(p) == IF p = 1 THEN "StartTasterWarten11" ELSE "StartTasterWarten22"

Senden(g, a, sig) == [g EXCEPT !.dis = Einreihen(@, [sig |-> sig, anlage |-> a])]

\* The motor commands M, one of them or none.
SendenEinen(g, a, M) == {g} \cup {Senden(g, a, sig) : sig \in M}

datenprozessLoeschen(g) ==
  [g EXCEPT !.f.reset_abgeschlossen = TRUE, !.f.fehler = "keinFehler"]

-----------------------------------------------------------------------------
(***************************************************************************)
(* Entering the root states.                                               *)
(***************************************************************************)

\* EStop::enterByE1EntryPoint, enterByE2EntryPoint
EStopBetreten(g, a, p) ==
  LET gestoppt == Senden(g, a, "CMD_MTR_STOP")
  IN  [gestoppt EXCEPT !.f.zustand = "EStop", !.f.estop = EStopAktiv(p)]

\* Ruhezustand::enterByDefaultEntryPoint
RuhezustandBetreten(g) ==
  [g EXCEPT !.f.zustand = "Ruhezustand", !.f.rz = "Wartezustand"]

\* AufWSWarten::entry
AufWSWartenBetreten(g, a) ==
  LET gestoppt == Senden(g, a, "CMD_MTR_STOP")
  IN  [gestoppt EXCEPT !.f.bz = "AufWSWarten"]

\* Betriebszustand::enterByDefaultEntryPoint
BetriebBetreten(g, a) ==
  [AufWSWartenBetreten(g, a) EXCEPT !.f.zustand = "Betriebszustand"]

\* Betriebszustand::enterByDeepHistoryEntryPoint: the sub-machine goes on
\* where it was left; a machine left while sorting drives the belt again.
BetriebFortsetzen(g, a) ==
  IF g.f.bz = "Sortierung"
  THEN {[h EXCEPT !.f.zustand = "Betriebszustand"] :
          h \in SendenEinen(g, a, MotorBefehle)}
  ELSE {BetriebBetreten(g, a)}

\* Betriebszustand::leavingState: first the sub-machine leaves (AufWSWarten
\* clears reset_abgeschlossen, a sorting region may restart the belt), then
\* exit() stops the motor.
BetriebVerlassen(g, a) ==
  LET sub == IF g.f.bz = "AufWSWarten"
             THEN {[g EXCEPT !.f.reset_abgeschlossen = FALSE]}
             ELSE SendenEinen(g, a, {"CMD_MTR_RECHTS_S", "CMD_MTR_RECHTS_L"})
  IN  {Senden(h, a, "CMD_MTR_STOP") : h \in sub}

\* Fehlerbehandlung::enterByDefaultEntryPoint with AnstehendUnquittiert::entry
FehlerbehandlungBetreten(g, a) ==
  LET gestoppt == Senden(g, a, "CMD_MTR_STOP")
  IN  [gestoppt EXCEPT !.f.zustand = "Fehlerbehandlung",
                       !.f.fb = "AnstehendUnquittiert",
                       !.f.fehlerOffen = TRUE]

-----------------------------------------------------------------------------
(***************************************************************************)
(* Triggers in EStop: the sub-machine estopfsm, and handleDefaultExit when *)
(* it has reached its end.                                                 *)
(***************************************************************************)
\* (altered) a second emergency stop is not remembered
EStop_s_e_g_nurEiner(f, p) ==
  IF f.estop \in {"ResetErlaubt", "WartenReset1", "WartenReset2"}
  THEN EStopAktiv(p)
  ELSE f.estop

EStop_s_e_g(f, p) ==
  CASE f.estop = EStopAktiv(Nachbar(p)) -> "EStopsAktiv"
    [] f.estop \in {"ResetErlaubt", "WartenReset1", "WartenReset2"} -> EStopAktiv(p)
    [] OTHER -> f.estop

EStop_s_e_ng(f, p) ==
  CASE f.estop = EStopAktiv(p)  -> "ResetErlaubt"
    [] f.estop = "EStopsAktiv"  -> EStopAktiv(Nachbar(p))
    [] OTHER -> f.estop

\* (altered) one reset button is enough
EStop_s_rt_g_einer(f, p) ==
  IF f.estop \in {"ResetErlaubt", WartenReset(p)} THEN "Ende" ELSE f.estop

EStop_s_rt_g(f, p) ==
  CASE f.estop = "ResetErlaubt"  -> WartenReset(Nachbar(p))
    [] f.estop = WartenReset(p)  -> "Ende"
    [] OTHER -> f.estop

EStop_handleDefaultExit(g, sub) ==
  LET h == [g EXCEPT !.f.estop = sub]
  IN  IF sub = "Ende" THEN RuhezustandBetreten(datenprozessLoeschen(h)) ELSE h

InEStop(g, s) ==
  CASE s.sig = "S_E_G"  -> {EStop_handleDefaultExit(g, EStop_s_e_g(g.f, s.anlage))}
    [] s.sig = "S_E_NG" -> {EStop_handleDefaultExit(g, EStop_s_e_ng(g.f, s.anlage))}
    [] s.sig = "S_RT_G" -> {EStop_handleDefaultExit(g, EStop_s_rt_g(g.f, s.anlage))}
    [] OTHER -> {g}

-----------------------------------------------------------------------------
(***************************************************************************)
(* Triggers in Ruhezustand: RZfsm asks for both reset buttons, then for    *)
(* both start buttons; the last start button leaves it by exit B.          *)
(***************************************************************************)
Ruhe_s_st_g(g, a, p) ==
  CASE g.f.rz \in {"Wartezustand", "Betriebsbereit"} ->
         {[g EXCEPT !.f.rz = StartTasterWarten(Nachbar(p))]}
    [] g.f.rz = StartTasterWarten(p) ->
         IF g.f.reset_abgeschlossen THEN {BetriebBetreten(g, a)}
                                    ELSE BetriebFortsetzen(g, a)
    [] OTHER -> {g}

Ruhe_s_rt_g(g, p) ==
  CASE g.f.rz = "Wartezustand" ->
         {[g EXCEPT !.f.rz = ResetTasterWarten(Nachbar(p))]}
    [] g.f.rz = ResetTasterWarten(p) ->
         {[datenprozessLoeschen(g) EXCEPT !.f.rz = "Betriebsbereit"]}
    [] OTHER -> {g}

InRuhezustand(g, a, s) ==
  CASE s.sig = "S_E_G"   -> {EStopBetreten(g, a, s.anlage)}
    [] s.sig = "S_ST_G"  -> Ruhe_s_st_g(g, a, s.anlage)
    [] s.sig = "S_RT_G"  -> Ruhe_s_rt_g(g, s.anlage)
    [] s.sig = "S_STP_G" -> {Senden(g, a, "CMD_MTR_RECHTS_S")}
    [] OTHER -> {g}

-----------------------------------------------------------------------------
(***************************************************************************)
(* Triggers in Betriebszustand.                                            *)
(***************************************************************************)

\* s_partner_fehler_1, s_partner_fehler_2: the report is passed on (no code
\* sets the place ANDEREMACHINE, so the guard around it always holds).
Betrieb_s_partner_fehler(g, a) ==
  LET gemeldet == Senden(g, a, "S_PARTNER_FEHLER")
  IN  {FehlerbehandlungBetreten(h, a) : h \in BetriebVerlassen(gemeldet, a)}

InBetriebszustand(g, a, s) ==
  CASE s.sig = "S_E_G"   -> {EStopBetreten(h, a, s.anlage) : h \in BetriebVerlassen(g, a)}
    [] s.sig = "S_STP_G" -> {RuhezustandBetreten(h) : h \in BetriebVerlassen(g, a)}
    [] s.sig = "S_PARTNER_FEHLER" -> Betrieb_s_partner_fehler(g, a)
    [] OTHER -> {g}

\* What a sensor, timer or chute pulse makes the sorting machine do.
SortierenBeginnen(g, a) ==
  SendenEinen([g EXCEPT !.f.bz = "Sortierung", !.f.reset_abgeschlossen = FALSE],
              a, {"CMD_MTR_RECHTS_S"})

SortierenBeenden(g, a) ==
  {AufWSWartenBetreten(h, a) :
     h \in SendenEinen(g, a, {"CMD_MTR_RECHTS_S", "CMD_MTR_RECHTS_L"})}

\* A region leaves by its error exit: the error is noted and reported to the
\* partner plant.
Betrieb_fehlerExit(g, a) ==
  UNION {LET gemeldet == Senden([g EXCEPT !.f.fehler = x], a, "S_PARTNER_FEHLER")
         IN  {FehlerbehandlungBetreten(h, a) : h \in BetriebVerlassen(gemeldet, a)}
         : x \in Fehlerarten}

SortierSchritt(g, a) ==
  IF g.f.bz = "AufWSWarten"
  THEN SortierenBeginnen(g, a)
  ELSE SendenEinen(g, a, MotorBefehle)
       \cup SortierenBeenden(g, a) \cup Betrieb_fehlerExit(g, a)

-----------------------------------------------------------------------------
(***************************************************************************)
(* Triggers in Fehlerbehandlung: fehlerbehandlungfsm, and the way back     *)
(* into the interrupted operation.  S_ST1_G is handled as S_ST_G; S_ST2_G  *)
(* is not handled here.                                                    *)
(***************************************************************************)
Fehler_s_rt_g(g, a, p) ==
  CASE p = 1 /\ g.f.fb = "AnstehendUnquittiert" ->
         {[g EXCEPT !.f.fb = "AnstehendQuittiert", !.f.fehler = "keinFehler",
                    !.f.fehlerOffen = FALSE]}
    [] p = 1 /\ g.f.fb = "GegangenUnquittiert" ->
         LET quittiert == [g EXCEPT !.f.fehler = "keinFehler",
                                    !.f.fehlerOffen = FALSE, !.f.fb = "Ende"]
         IN  BetriebFortsetzen(Senden(quittiert, a, "S_PARTNER_OK"), a)
    [] OTHER -> {g}

Fehler_s_st_g(g, a, p) ==
  IF p = 1 /\ g.f.fb = "AnstehendQuittiert" /\ ~g.f.fehlerOffen
  THEN BetriebFortsetzen(Senden([g EXCEPT !.f.fb = "Ende"], a, "S_PARTNER_OK"), a)
  ELSE {g}

\* s_lsr_nub and s_lsa2_ub: the cause of the error is gone by itself.
Fehler_gegangen(g, ursache) ==
  IF g.f.fb = "AnstehendUnquittiert" /\ g.f.fehler = ursache
  THEN {[g EXCEPT !.f.fb = "GegangenUnquittiert"]}
  ELSE {g}

InFehlerbehandlung(g, a, s) ==
  CASE s.sig = "S_E_G"        -> {EStopBetreten(g, a, s.anlage)}
    [] s.sig = "S_RT_G"       -> Fehler_s_rt_g(g, a, s.anlage)
    [] s.sig = "S_ST_G"       -> Fehler_s_st_g(g, a, s.anlage)
    [] s.sig = "S_PARTNER_OK" -> BetriebFortsetzen(g, a)
    [] s.sig = "S_LSR_NUB"    -> Fehler_gegangen(g, "rutscheVollLSR")
    [] s.sig = "S_LSA2_UB"    -> Fehler_gegangen(g, "verlorenLSA2")
    [] OTHER -> {g}

-----------------------------------------------------------------------------
\* Context::handleEvent: the current root state handles the pulse s.
handleEvent(g, a, s) ==
  CASE g.f.zustand = "EStop"            -> InEStop(g, s)
    [] g.f.zustand = "Ruhezustand"      -> InRuhezustand(g, a, s)
    [] g.f.zustand = "Betriebszustand"  -> InBetriebszustand(g, a, s)
    [] g.f.zustand = "Fehlerbehandlung" -> InFehlerbehandlung(g, a, s)
=============================================================================
