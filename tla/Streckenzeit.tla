----------------------------- MODULE Streckenzeit -----------------------------
(***************************************************************************)
(* One workpiece on the distance of region timer n, for any calibrated     *)
(* times: the belt changes its speed and stands still whenever it likes,   *)
(* and the timer is told so.  The way the workpiece has covered is counted *)
(* in the units of the timer; it is at the next light barrier when it has  *)
(* covered Ganz(n), and the machine then starts the timer of the next      *)
(* distance.                                                               *)
(***************************************************************************)
EXTENDS RegionTimer

VARIABLES
  timer,   \* the timer of the distance
  weg,     \* units the workpiece has covered
  schnell, \* does the belt run at high speed?
  steht    \* has the belt been stopped?

vars == <<timer, weg, schnell, steht>>

\* The times may differ by a factor of little less than 6: while the belt
\* covers the last 7 % of the distance at low speed, 40 % of its time at high
\* speed do not pass.  With the tick of 20 ms all times of the code do so.
Kalibriert(n) ==
  /\ n \in BandTimer
  /\ Basis[n].schnell <= Basis[n].langsam
  /\ 7 * Basis[n].langsam + 100 <= 40 * Basis[n].schnell

Init ==
  /\ timer = Gestartet
  /\ weg = 0
  /\ schnell \in BOOLEAN
  /\ steht = FALSE

\* Belt and timer go on until the workpiece is at the light barrier.
Takt(n) ==
  /\ weg < Ganz(n)
  /\ timer' = aktualisiere(timer, n, schnell)
  /\ weg' = IF steht THEN weg ELSE weg + Anteil(n, schnell)
  /\ UNCHANGED <<schnell, steht>>

Umschalten == schnell' = ~schnell /\ UNCHANGED <<timer, weg, steht>>

Anhalten == ~steht /\ steht' = TRUE /\ timer' = Pausiert(timer) /\ UNCHANGED <<weg, schnell>>

Weiter == steht /\ steht' = FALSE /\ timer' = Fortgesetzt(timer) /\ UNCHANGED <<weg, schnell>>

Next(n) == Takt(n) \/ Umschalten \/ Anhalten \/ Weiter

Spec(n) == Init /\ [][Next(n)]_vars

\* A workpiece that is on its way is never reported as lost.
NieVermisst == timer.phase # "inaktiv"

\* A workpiece that reaches the light barrier has been announced before: it is
\* never taken for an unknown one.
Angekuendigt(n) == weg >= Ganz(n) => timer.phase = "toleranz"

\* It is not announced before it has covered 93 % of the distance.
NichtZuFrueh(n) == timer.phase = "toleranz" => 100 * weg >= 93 * Ganz(n)

\* What the timer has counted is what the workpiece has covered; in the second
\* phase every tick counted is a step of the belt at low speed at least.
WegStimmt(n) ==
  /\ timer.phase = "zeit" => weg = timer.stand /\ 100 * weg < 93 * Ganz(n)
  /\ timer.phase = "toleranz" =>
       100 * weg >= 93 * Ganz(n) + 100 * (timer.stand * Basis[n].schnell)

TypeOK == timer \in Timer /\ weg \in Nat /\ schnell \in BOOLEAN /\ steht \in BOOLEAN

IInv(n) == TypeOK /\ NieVermisst /\ timer.pausiert = steht /\ WegStimmt(n)
=============================================================================
