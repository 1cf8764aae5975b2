SPECIFICATION BetriebSpec
CONSTANTS
  Bedienung = "zuegig"
  MitAusfall = FALSE
  MaxEingaben = 4
  MaxSortieren = 1
  Fehlerarten = {}
  Tasten = {}
INVARIANT NotHaltAbbild
INVARIANT NotHaltStopptBeideBaender
CHECK_DEADLOCK FALSE
