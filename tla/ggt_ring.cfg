SPECIFICATION FairSpec
CONSTANTS
  Worker <- MCWorker
  links <- MClinks
  rechts <- MCrechts
  Eingaben <- MCEingaben
  AnzahlWorker = 3
  MaxZahl = 4
INVARIANT TypeOK
INVARIANT Versorgung
INVARIANT Einigung
INVARIANT TeilerBleiben
INVARIANT FertigIstGGT
PROPERTY KommtZumErgebnis
CHECK_DEADLOCK FALSE
