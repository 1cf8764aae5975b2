SPECIFICATION BetriebFairSpec
CONSTANTS
  Bedienung = "langsam"
  MitAusfall = FALSE
  MaxEingaben = 8
  MaxSortieren = 1
  Fehlerarten = {}
  Tasten = {"S_ST_G", "S_RT_G"}
INVARIANT TypeOK
INVARIANT Einig
INVARIANT NeustartNurMitBeidenResets
PROPERTY NotHaltWirkt
CHECK_DEADLOCK FALSE
