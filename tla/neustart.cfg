SPECIFICATION Spec
CONSTANTS
  Plaetze = {w1, w2}
  w1 = w1
  w2 = w2
  Arten = {"HB", "H"}
  Klemmt = {1, 2}
  RutschenZeit = 5
  Verlust = FALSE
  MitNotHalt = TRUE
  Gesperrt = {0, 1, 2, 3, 4, 5, 6, 7, 8, 9, 10, 11}
  OffenZeit = 2
  Basis <- BasisKlein
INVARIANT NeustartUnschaedlich
INVARIANT BandSteht
INVARIANT StartlampeStimmt
INVARIANT BelegungBekannt
