------------------------------ MODULE RegionTimer ------------------------------
(***************************************************************************)
(* A region timer: it knows how long a workpiece takes for a distance at   *)
(* either speed of the belt and counts which part of the distance it has   *)
(* covered.  At 93 % it signals that the workpiece is due; when the        *)
(* workpiece does not come in another 40 % of the time, it is lost.        *)
(*                                                                         *)
(* Times are counted in ticks.  The part covered is counted in units of    *)
(* which the whole distance has Ganz(n): a fast tick covers 1 / schnell of *)
(* the distance, a slow one 1 / langsam.                                   *)
(***************************************************************************)
EXTENDS Integers

CONSTANT
  Basis   \* calibrated ticks of each timer, fast and slow

TimerNamen == {"lsa", "lsh", "lsw", "lse", "lsr"}
BandTimer  == TimerNamen \ {"lsr"}

ASSUME BasisAnnahme ==
  Basis \in [TimerNamen -> [schnell : Nat \ {0}, langsam : Nat \ {0}]]

Timer == [phase : {"inaktiv", "zeit", "toleranz"}, pausiert : BOOLEAN, stand : Nat]

NeuerTimer == [phase |-> "inaktiv", pausiert |-> FALSE, stand |-> 0]

Gestartet == [phase |-> "zeit", pausiert |-> FALSE, stand |-> 0]

Pausiert(t)    == IF t.phase = "inaktiv" THEN t ELSE [t EXCEPT !.pausiert = TRUE]
Fortgesetzt(t) == IF t.phase = "inaktiv" THEN t ELSE [t EXCEPT !.pausiert = FALSE]

laeuft(t) == t.phase # "inaktiv" /\ ~t.pausiert

basisZeit(n, istSchnell) == IF istSchnell THEN Basis[n].schnell ELSE Basis[n].langsam

Ganz(n) == Basis[n].schnell * Basis[n].langsam

\* delta_ms / basisZeit, in units
Anteil(n, istSchnell) == IF istSchnell THEN Basis[n].langsam ELSE Basis[n].schnell

fortschritt(t, n, istSchnell) == t.stand + Anteil(n, istSchnell)

\* Has the time of a timer elapsed with its next tick?
ZeitAbgelaufen(t, n, istSchnell) ==
  /\ laeuft(t) /\ t.phase = "zeit"
  /\ 100 * fortschritt(t, n, istSchnell) >= 93 * Ganz(n)

ToleranzAbgelaufen(t, n, istSchnell) ==
  /\ laeuft(t) /\ t.phase = "toleranz"
  /\ 10 * (t.stand + 1) >= 4 * basisZeit(n, istSchnell)

\* (altered) the timer always counts at high speed
aktualisiere_immerSchnell(t, n, istSchnell) ==
  CASE ~laeuft(t)                           -> t
    [] ZeitAbgelaufen(t, n, TRUE)           -> [t EXCEPT !.phase = "toleranz", !.stand = 0]
    [] ToleranzAbgelaufen(t, n, TRUE)       -> NeuerTimer
    [] laeuft(t) /\ t.phase = "zeit" /\ ~ZeitAbgelaufen(t, n, TRUE)
                                            -> [t EXCEPT !.stand = fortschritt(t, n, TRUE)]
    [] OTHER                                -> [t EXCEPT !.stand = @ + 1]

\* (altered) the timer ends when the workpiece is due
aktualisiere_ohneToleranz(t, n, istSchnell) ==
  CASE ~laeuft(t)                       -> t
    [] ZeitAbgelaufen(t, n, istSchnell) -> NeuerTimer
    [] OTHER                            -> [t EXCEPT !.stand = fortschritt(t, n, istSchnell)]

aktualisiere(t, n, istSchnell) ==
  CASE ~laeuft(t)                           -> t
    [] ZeitAbgelaufen(t, n, istSchnell)     -> [t EXCEPT !.phase = "toleranz", !.stand = 0]
    [] ToleranzAbgelaufen(t, n, istSchnell) -> NeuerTimer
    [] laeuft(t) /\ t.phase = "zeit" /\ ~ZeitAbgelaufen(t, n, istSchnell)
                                            -> [t EXCEPT !.stand = fortschritt(t, n, istSchnell)]
    [] OTHER                                -> [t EXCEPT !.stand = @ + 1]
=============================================================================
