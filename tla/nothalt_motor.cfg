SPECIFICATION BetriebSpec
CONSTANTS
  Bedienung = "eilig"
  MitAusfall = TRUE
  MaxEingaben = 2
  MaxSortieren = 1
  Fehlerarten = {"rutscheVollLSR", "verlorenLSA2"}
  Tasten = {"S_STP_G"}
INVARIANT MotorAusImNotHalt
CHECK_DEADLOCK FALSE
