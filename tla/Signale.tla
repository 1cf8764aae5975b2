------------------------------- MODULE Signale -------------------------------
(***************************************************************************)
(* The pulses the two sorting plants exchange, the priority each one is    *)
(* sent with, and the priority channel they wait in.                       *)
(*                                                                         *)
(* A signal that exists once per control panel (S_E1_G and S_E2_G, ...) is *)
(* one name here with the number of its plant: [sig |-> "S_E_G",           *)
(* anlage |-> 1] is S_E1_G.  Lamp and LED signals are left out.            *)
(***************************************************************************)
EXTENDS Integers, Sequences

Anlagen == {1, 2}

\* The plant on the other end of the Qnet link.
Nachbar(a) == 3 - a

(***************************************************************************)
(* The signals.                                                            *)
(***************************************************************************)
TasterSignale  == {"S_E_G", "S_E_NG", "S_ST_G", "S_STP_G", "S_RT_G"}
PartnerSignale == {"S_PARTNER_FEHLER", "S_PARTNER_OK"}
MotorBefehle   == {"CMD_MTR_STOP", "CMD_MTR_RECHTS_L", "CMD_MTR_RECHTS_S"}
FehlerSignale  == {"S_LSR_NUB", "S_LSA2_UB"}

Signal == TasterSignale \cup PartnerSignale \cup MotorBefehle \cup FehlerSignale

Puls == [sig : Signal, anlage : Anlagen]

(***************************************************************************)
(* Pulse priorities (dispatcher.hpp names them; bestimmtPrioritaet).       *)
(***************************************************************************)
EXTREM_HOCH == 30
HOCH        == 20
MITTELHOCH  == 15
MITTEL      == 10
NORMAL      == 5

Stufen == {EXTREM_HOCH, HOCH, MITTELHOCH, MITTEL, NORMAL}

\* (altered) stop commands are sent as urgently as emergency stops
bestimmtPrioritaet_StoppZuerst(sig) ==
  CASE sig \in {"S_E_G", "CMD_MTR_STOP"}                       -> EXTREM_HOCH
    [] sig = "CMD_MTR_RECHTS_L"                               -> HOCH
    [] sig \in PartnerSignale \cup {"CMD_MTR_RECHTS_S"}       -> MITTELHOCH
    [] sig \in {"S_ST_G", "S_STP_G", "S_RT_G", "S_E_NG"}      -> MITTEL
    [] OTHER                                                  -> NORMAL

bestimmtPrioritaet(sig) ==
  CASE sig = "S_E_G"                                          -> EXTREM_HOCH
    [] sig = "CMD_MTR_RECHTS_L"                               -> HOCH
    [] sig \in PartnerSignale
               \cup {"CMD_MTR_STOP", "CMD_MTR_RECHTS_S"}      -> MITTELHOCH
    [] sig \in {"S_ST_G", "S_STP_G", "S_RT_G", "S_E_NG"}      -> MITTEL
    [] OTHER                                                  -> NORMAL

(***************************************************************************)
(* The signals a plant's dispatcher also passes to the other plant.        *)
(* S_STP_G, the light barriers of the chute and the motor commands are not *)
(* among them.                                                             *)
(***************************************************************************)
\* (altered) the release of an emergency stop stays at its plant
istMeinSignal_ohneNG(a, s) ==
  /\ s.anlage = a
  /\ s.sig \in {"S_ST_G", "S_RT_G", "S_E_G"} \cup PartnerSignale

\* (altered) an emergency stop stays at its plant
istMeinSignal_ohneG(a, s) ==
  /\ s.anlage = a
  /\ s.sig \in {"S_ST_G", "S_RT_G", "S_E_NG"} \cup PartnerSignale

istMeinSignal(a, s) ==
  /\ s.anlage = a
  /\ s.sig \in {"S_ST_G", "S_RT_G", "S_E_G", "S_E_NG"} \cup PartnerSignale

(***************************************************************************)
(* A QNX channel: one FIFO queue per priority; MsgReceive takes the oldest *)
(* pulse of the most urgent priority that has one.                         *)
(***************************************************************************)
Kanal == [Stufen -> Seq(Puls)]

LeererKanal == [p \in Stufen |-> <<>>]

Leer(k) == \A p \in Stufen : k[p] = <<>>

\* p is the priority the next MsgReceive on k serves.
Dringendste(k, p) ==
  /\ p \in Stufen
  /\ k[p] # <<>>
  /\ \A q \in Stufen : q > p => k[q] = <<>>

Einreihen(k, s) ==
  [k EXCEPT ![bestimmtPrioritaet(s.sig)] = Append(@, s)]

Entnehmen(k, p) == [k EXCEPT ![p] = Tail(@)]

\* Some pulse whose signal is in S waits in k.
Wartet(k, S) == \E p \in Stufen : \E i \in 1 .. Len(k[p]) : k[p][i].sig \in S
=============================================================================
