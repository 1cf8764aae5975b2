SPECIFICATION Spec
CONSTANTS
  Plaetze = {w1, w2}
  w1 = w1
  w2 = w2
  Arten = {"HB", "H"}
  Klemmt = {}
  RutschenZeit = 5
  Verlust = FALSE
  MitNotHalt = FALSE
  Gesperrt = {}
  OffenZeit = 2
  Basis <- BasisKlein
INVARIANT RuheLeer
