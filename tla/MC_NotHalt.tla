----------------------------- MODULE MC_NotHalt -----------------------------
(***************************************************************************)
(* NotHalt for TLC, started with both plants in operation: plant 1 sorts a *)
(* workpiece, plant 2 waits for one.  Spec reaches the state from Init     *)
(* when both start buttons are pressed and plant 1 begins to sort.         *)
(***************************************************************************)
EXTENDS NotHalt

ImBetrieb(bz) == [NeueFSM EXCEPT !.zustand = "Betriebszustand", !.bz = bz,
                                 !.rz = "StartTasterWarten22"]

BetriebInit ==
  /\ fsm = <<ImBetrieb("Sortierung"), ImBetrieb("AufWSWarten")>>
  /\ motor = <<"schnell", "stop">>
  /\ dis = [a \in Anlagen |-> LeererKanal]
  /\ hfsm = [a \in Anlagen |-> LeererKanal]
  /\ hal = [a \in Anlagen |-> LeererKanal]
  /\ gedrueckt = [a \in Anlagen |-> FALSE]
  /\ verbunden = [a \in Anlagen |-> TRUE]
  /\ leitung = TRUE
  /\ taster = AlleTaster
  /\ eingaben = 0
  /\ sortiert = 0

BetriebSpec == BetriebInit /\ [][Next]_vars

BetriebFairSpec == BetriebSpec /\ Fairness
=============================================================================
