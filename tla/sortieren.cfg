SPECIFICATION FairSpec
CONSTANTS
  Plaetze = {w1, w2}
  w1 = w1
  w2 = w2
  Arten = {"F", "H", "HB", "HBM"}
  Klemmt = {}
  RutschenZeit = 5
  Verlust = FALSE
  MitNotHalt = FALSE
  Gesperrt = {10, 11}
  OffenZeit = 2
  Basis <- BasisKlein
INVARIANT TypeOK
INVARIANT KeinFehlalarm
INVARIANT ListeGleichBand
INVARIANT AnzahlStimmt
INVARIANT ErwartungStimmt
INVARIANT ReihenfolgeAmEnde
INVARIANT NichtsRichtigesAussortiert
INVARIANT RuheLeer
INVARIANT LeerSteht
INVARIANT EinladungGilt
INVARIANT FreigabeStimmt
PROPERTY WirdFertig
