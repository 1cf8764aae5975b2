------------------------------- MODULE NotHalt -------------------------------
(***************************************************************************)
(* Emergency stop, reset and restart of the two coupled sorting plants.    *)
(*                                                                         *)
(* Each plant runs three threads, each with its own priority channel: the  *)
(* dispatcher (dis), the state machine (hfsm) and the HAL (hal).  Buttons  *)
(* send to the dispatcher of their own plant, the dispatcher passes what   *)
(* concerns both plants to the dispatcher of the other one.                *)
(***************************************************************************)
EXTENDS WurzelFSM

CONSTANTS
  Bedienung,     \* how fast the operators work the buttons: "langsam", "zuegig", "eilig"
  Tasten,        \* the buttons, other than the emergency stops, they use
  MitAusfall,    \* may the Qnet link between the plants fail?
  MaxEingaben,   \* bound on the number of button, chute and link events
  MaxSortieren   \* bound on the number of steps of the sorting machines

ASSUME NotHaltAnnahme ==
  /\ Bedienung \in {"langsam", "zuegig", "eilig"}
  /\ Tasten \subseteq {"S_ST_G", "S_STP_G", "S_RT_G"}
  /\ MitAusfall \in BOOLEAN
  /\ MaxEingaben \in Nat
  /\ MaxSortieren \in Nat

VARIABLES
  fsm,        \* state machine of each plant
  dis,        \* channel of each dispatcher
  hfsm,       \* channel of each state machine
  hal,        \* channel of each HAL
  motor,      \* what each belt does
  gedrueckt,  \* is the emergency stop of this panel pressed down?
  verbunden,  \* what each plant's Verbindung says: istVerbunden()
  leitung,    \* does the Qnet link carry pulses?
  taster,     \* buttons pressed since an emergency stop was last pressed or released
  eingaben,   \* number of button, chute and link events so far
  sortiert    \* number of steps of the sorting machines so far

vars == <<fsm, dis, hfsm, hal, motor, gedrueckt, verbunden, leitung, taster, eingaben, sortiert>>

TypeOK ==
  /\ fsm \in [Anlagen -> FSM]
  /\ dis \in [Anlagen -> Kanal]
  /\ hfsm \in [Anlagen -> Kanal]
  /\ hal \in [Anlagen -> Kanal]
  /\ motor \in [Anlagen -> {"stop", "langsam", "schnell"}]
  /\ gedrueckt \in [Anlagen -> BOOLEAN]
  /\ verbunden \in [Anlagen -> BOOLEAN]
  /\ leitung \in BOOLEAN
  /\ taster \subseteq Puls
  /\ eingaben \in Nat
  /\ sortiert \in Nat

\* Before the first emergency stop nothing is owed.
AlleTaster == [sig : {"S_RT_G", "S_ST_G"}, anlage : Anlagen]

Init ==
  /\ fsm = [a \in Anlagen |-> NeueFSM]
  /\ dis = [a \in Anlagen |-> LeererKanal]
  /\ hfsm = [a \in Anlagen |-> LeererKanal]
  /\ hal = [a \in Anlagen |-> LeererKanal]
  /\ motor = [a \in Anlagen |-> "stop"]
  /\ gedrueckt = [a \in Anlagen |-> FALSE]
  /\ verbunden = [a \in Anlagen |-> TRUE]
  /\ leitung = TRUE
  /\ taster = AlleTaster
  /\ eingaben = 0
  /\ sortiert = 0

-----------------------------------------------------------------------------
(***************************************************************************)
(* The dispatcher thread: signalHandlung for one pulse.                    *)
(***************************************************************************)
DispatchHAL(a, p) ==
  LET s == Head(dis[a][p])
  IN  /\ s.sig \in MotorBefehle
      /\ hal' = [hal EXCEPT ![a] = Einreihen(@, s)]
      /\ dis' = [dis EXCEPT ![a] = Entnehmen(@, p)]
      /\ UNCHANGED <<hfsm, verbunden>>

\* To the plant's own state machine only: not its signal, or not connected.
DispatchFSM(a, p) ==
  LET s == Head(dis[a][p])
  IN  /\ s.sig \notin MotorBefehle
      /\ ~(istMeinSignal(a, s) /\ verbunden[a])
      /\ hfsm' = [hfsm EXCEPT ![a] = Einreihen(@, s)]
      /\ dis' = [dis EXCEPT ![a] = Entnehmen(@, p)]
      /\ UNCHANGED <<hal, verbunden>>

\* To the own state machine and to the neighbour's dispatcher; when the pulse
\* cannot be sent, sendenAnNachbarn gives the connection up.
DispatchBeide(a, p) ==
  LET s == Head(dis[a][p])
      ohne == [dis EXCEPT ![a] = Entnehmen(@, p)]
  IN  /\ s.sig \notin MotorBefehle
      /\ istMeinSignal(a, s) /\ verbunden[a]
      /\ hfsm' = [hfsm EXCEPT ![a] = Einreihen(@, s)]
      /\ IF leitung
         THEN /\ dis' = [ohne EXCEPT ![Nachbar(a)] = Einreihen(@, s)]
              /\ UNCHANGED verbunden
         ELSE /\ dis' = ohne
              /\ verbunden' = [verbunden EXCEPT ![a] = FALSE]
      /\ UNCHANGED hal

Dispatch(a) ==
  /\ \E p \in Stufen :
       /\ Dringendste(dis[a], p)
       /\ DispatchHAL(a, p) \/ DispatchFSM(a, p) \/ DispatchBeide(a, p)
  /\ UNCHANGED <<fsm, motor, gedrueckt, leitung, taster, eingaben, sortiert>>

(***************************************************************************)
(* The state machine thread: one pulse from its channel, or a step of the  *)
(* sorting machine on a sensor or timer pulse.  Every such pulse is less   *)
(* urgent than an emergency stop that waits in the channel.                *)
(***************************************************************************)
Reaktion(a, g) ==
  /\ fsm' = [fsm EXCEPT ![a] = g.f]
  /\ dis' = [dis EXCEPT ![a] = g.dis]

Hfsm(a) ==
  /\ \E p \in Stufen :
       /\ Dringendste(hfsm[a], p)
       /\ \E g \in handleEvent([f |-> fsm[a], dis |-> dis[a]], a, Head(hfsm[a][p])) :
            Reaktion(a, g)
       /\ hfsm' = [hfsm EXCEPT ![a] = Entnehmen(@, p)]
  /\ UNCHANGED <<hal, motor, gedrueckt, verbunden, leitung, taster, eingaben, sortiert>>

Sortieren(a) ==
  /\ fsm[a].zustand = "Betriebszustand"
  /\ hfsm[a][EXTREM_HOCH] = <<>>
  /\ sortiert < MaxSortieren
  /\ sortiert' = sortiert + 1
  /\ \E g \in SortierSchritt([f |-> fsm[a], dis |-> dis[a]], a) : Reaktion(a, g)
  /\ UNCHANGED <<hfsm, hal, motor, gedrueckt, verbunden, leitung, taster, eingaben>>

(***************************************************************************)
(* The HAL thread: HAL::run executes one motor command.                    *)
(***************************************************************************)
MotorNach(sig) ==
  CASE sig = "CMD_MTR_STOP"     -> "stop"
    [] sig = "CMD_MTR_RECHTS_L" -> "langsam"
    [] OTHER                    -> "schnell"

Hal(a) ==
  /\ \E p \in Stufen :
       /\ Dringendste(hal[a], p)
       /\ motor' = [motor EXCEPT ![a] = MotorNach(Head(hal[a][p]).sig)]
       /\ hal' = [hal EXCEPT ![a] = Entnehmen(@, p)]
  /\ UNCHANGED <<fsm, dis, hfsm, gedrueckt, verbunden, leitung, taster, eingaben, sortiert>>

-----------------------------------------------------------------------------
(***************************************************************************)
(* The panels.  The button thread sends to the dispatcher of its plant.    *)
(***************************************************************************)
Ruhig == \A a \in Anlagen : Leer(dis[a]) /\ Leer(hfsm[a]) /\ Leer(hal[a])

Eingabe(a, sig) ==
  /\ eingaben < MaxEingaben
  /\ Bedienung = "langsam" => Ruhig
  /\ eingaben' = eingaben + 1
  /\ dis' = [dis EXCEPT ![a] = Einreihen(@, [sig |-> sig, anlage |-> a])]
  /\ UNCHANGED <<fsm, hfsm, hal, motor, verbunden, leitung, sortiert>>

NotHaltUnterwegs(a) ==
  \E b \in Anlagen : \E p \in Stufen :
    \/ \E i \in 1 .. Len(dis[b][p])  : dis[b][p][i] \in [sig : {"S_E_G", "S_E_NG"}, anlage : {a}]
    \/ \E i \in 1 .. Len(hfsm[b][p]) : hfsm[b][p][i] \in [sig : {"S_E_G", "S_E_NG"}, anlage : {a}]

NotHaltDruecken(a) ==
  /\ ~gedrueckt[a]
  /\ Bedienung = "zuegig" => ~NotHaltUnterwegs(a)
  /\ gedrueckt' = [gedrueckt EXCEPT ![a] = TRUE]
  /\ taster' = {}
  /\ Eingabe(a, "S_E_G")

NotHaltLoesen(a) ==
  /\ gedrueckt[a]
  /\ gedrueckt' = [gedrueckt EXCEPT ![a] = FALSE]
  /\ taster' = {}
  /\ Eingabe(a, "S_E_NG")

TasteDruecken(a) ==
  \E sig \in Tasten :
    /\ taster' = taster \cup {[sig |-> sig, anlage |-> a]}
    /\ gedrueckt' = gedrueckt
    /\ Eingabe(a, sig)

\* The chute of a plant is emptied; a lost workpiece turns up at plant 2.
FehlerGeht(a) ==
  \E sig \in FehlerSignale :
    /\ Fehlerarten # {}
    /\ sig = "S_LSA2_UB" => a = 2
    /\ UNCHANGED <<gedrueckt, taster>>
    /\ Eingabe(a, sig)

(***************************************************************************)
(* The link, as Verbindung sees it: a missed heartbeat stops the belt, a   *)
(* later heartbeat connects again.                                         *)
(***************************************************************************)
LeitungWechsel ==
  /\ MitAusfall
  /\ eingaben < MaxEingaben
  /\ eingaben' = eingaben + 1
  /\ leitung' = ~leitung
  /\ UNCHANGED <<fsm, dis, hfsm, hal, motor, gedrueckt, verbunden, taster, sortiert>>

Zeitablauf(a) ==
  /\ verbunden[a] /\ ~leitung
  /\ verbunden' = [verbunden EXCEPT ![a] = FALSE]
  /\ dis' = [dis EXCEPT ![a] = Einreihen(@, [sig |-> "CMD_MTR_STOP", anlage |-> a])]
  /\ UNCHANGED <<fsm, hfsm, hal, motor, gedrueckt, leitung, taster, eingaben, sortiert>>

Verbinden(a) ==
  /\ ~verbunden[a] /\ leitung
  /\ verbunden' = [verbunden EXCEPT ![a] = TRUE]
  /\ UNCHANGED <<fsm, dis, hfsm, hal, motor, gedrueckt, leitung, taster, eingaben, sortiert>>

-----------------------------------------------------------------------------
Next ==
  \/ \E a \in Anlagen :
       \/ Dispatch(a)
       \/ Hfsm(a)
       \/ Sortieren(a)
       \/ Hal(a)
       \/ NotHaltDruecken(a)
       \/ NotHaltLoesen(a)
       \/ TasteDruecken(a)
       \/ FehlerGeht(a)
       \/ Zeitablauf(a)
       \/ Verbinden(a)
  \/ LeitungWechsel

Spec == Init /\ [][Next]_vars

\* The threads of both plants keep running; operators owe nothing.
Fairness == \A a \in Anlagen : WF_vars(Dispatch(a)) /\ WF_vars(Hfsm(a)) /\ WF_vars(Hal(a))

FairSpec == Spec /\ Fairness
-----------------------------------------------------------------------------
(***************************************************************************)
(* Safety.                                                                 *)
(***************************************************************************)
Sicher == {"EStop", "Fehlerbehandlung"}

MotorBefehlUnterwegs(a) == Wartet(dis[a], MotorBefehle) \/ Wartet(hal[a], MotorBefehle)

\* A plant in EStop or Fehlerbehandlung whose motor commands have all been
\* executed has its belt stopped: no CMD_MTR_RECHTS_L or _S that the sorting
\* machine sent before is executed after the CMD_MTR_STOP of entering the state,
\* although pulses of another priority overtake each other.
MotorAusImNotHalt ==
  \A a \in Anlagen :
    fsm[a].zustand \in Sicher /\ ~MotorBefehlUnterwegs(a) => motor[a] = "stop"

\* The emergency stops the state machine of a plant believes to be pressed down.
Gemerkt(f) ==
  {p \in Anlagen : f.zustand = "EStop" /\ f.estop \in {EStopAktiv(p), "EStopsAktiv"}}

Gedrueckt == {a \in Anlagen : gedrueckt[a]}

\* When no emergency stop pulse is under way, both state machines believe pressed
\* exactly the emergency stops that are: ResetErlaubt is reached "wenn kein
\* E-Stop aktiv ist" on either panel, and a restart is never offered before.
NotHaltAbbild ==
  (\A a \in Anlagen : ~NotHaltUnterwegs(a))
     => \A a \in Anlagen : Gemerkt(fsm[a]) = Gedrueckt

\* An emergency stop is pressed on some panel, the plants are connected, its
\* pulses have been delivered and the motor commands executed: both belts stand.
NotHaltStopptBeideBaender ==
  /\ Gedrueckt # {}
  /\ leitung /\ \A a \in Anlagen : verbunden[a]
  /\ \A a \in Anlagen : ~NotHaltUnterwegs(a) /\ ~MotorBefehlUnterwegs(a)
  => \A a \in Anlagen : motor[a] = "stop"

\* Without any pulse under way the two plants agree on whether they are in EStop.
Einig == Ruhig => (fsm[1].zustand = "EStop" <=> fsm[2].zustand = "EStop")

\* A plant is in operation only when both reset buttons and both start buttons
\* have been pressed since an emergency stop was last pressed or released.
NeustartNurMitBeidenResets ==
  \A a \in Anlagen :
    /\ fsm[a].zustand = "Betriebszustand"
    /\ \A p \in Anlagen : ~NotHaltUnterwegs(p)
    => AlleTaster \subseteq taster

(***************************************************************************)
(* Liveness.                                                               *)
(***************************************************************************)

\* A pressed emergency stop stops both belts, unless it is released first.
NotHaltWirkt ==
  \A p \in Anlagen :
    gedrueckt[p] ~> (~gedrueckt[p] \/ \A a \in Anlagen : motor[a] = "stop" /\ fsm[a].zustand = "EStop")
=============================================================================
