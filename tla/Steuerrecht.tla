----------------------------- MODULE Steuerrecht -----------------------------
(***************************************************************************)
(* What the token ring of distributed-robotarm-control promises: the right *)
(* to control the robot is given to one client, which passes it on when it *)
(* does not use it.  It can get lost.                                      *)
(***************************************************************************)
CONSTANTS Client, Niemand

VARIABLES
  besitzer,   \* the client with the right
  steuert     \* does it control the robot?

Init == besitzer = Niemand /\ steuert = FALSE

Vergeben ==
  /\ besitzer = Niemand
  /\ besitzer' \in Client
  /\ UNCHANGED steuert

Beginnen ==
  /\ besitzer # Niemand /\ ~steuert
  /\ steuert' = TRUE
  /\ UNCHANGED besitzer

Aufhoeren ==
  /\ steuert
  /\ steuert' = FALSE
  /\ UNCHANGED besitzer

Weitergeben ==
  /\ besitzer # Niemand /\ ~steuert
  /\ besitzer' \in Client \ {besitzer}
  /\ UNCHANGED steuert

Verlieren ==
  /\ besitzer # Niemand
  /\ besitzer' = Niemand
  /\ steuert' = FALSE

Next == Vergeben \/ Beginnen \/ Aufhoeren \/ Weitergeben \/ Verlieren

Spec == Init /\ [][Next]_<<besitzer, steuert>>

=============================================================================
