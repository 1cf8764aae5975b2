SPECIFICATION FairSpec
CONSTANTS
  c1 = c1
  c2 = c2
  c3 = c3
  n1 = n1
  n2 = n2
  n3 = n3
  Niemand = Niemand
  Client = {c1, c2, c3}
  nameVon <- MCEigeneNamen
  MitListe = FALSE
  MitEnde = FALSE
  MitAbsturz = FALSE
  MitAusnahmen = FALSE
INVARIANTS TypeOK EinToken TokenDa
PROPERTIES ErfuelltSteuerrecht KommtDran
