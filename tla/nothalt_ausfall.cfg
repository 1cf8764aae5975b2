SPECIFICATION BetriebSpec
CONSTANTS
  Bedienung = "langsam"
  MitAusfall = TRUE
  MaxEingaben = 3
  MaxSortieren = 0
  Fehlerarten = {}
  Tasten = {}
INVARIANT NotHaltStopptBeideBaender
CHECK_DEADLOCK FALSE
