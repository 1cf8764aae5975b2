SPECIFICATION Spec
CONSTANTS
  c1 = c1
  c2 = c2
  c3 = c3
  n1 = n1
  n2 = n2
  n3 = n3
  Niemand = Niemand
  Client = {c1, c2, c3}
  nameVon <- MCGleicheNamen
  MitListe = TRUE
  MitEnde = TRUE
  MitAbsturz = TRUE
  MitAusnahmen = TRUE
INVARIANTS AntwortenGehenAuf AntwortPasst BleibtEingetragen
CHECK_DEADLOCK FALSE
