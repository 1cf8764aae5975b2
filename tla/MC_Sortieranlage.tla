--------------------------- MODULE MC_Sortieranlage ---------------------------
EXTENDS Sortieranlage
Zeiten(s, l) == [schnell |-> s, langsam |-> l]
BasisKlein == [lsa |-> Zeiten(1, 2), lsh |-> Zeiten(4, 8), lsw |-> Zeiten(2, 4),
               lse |-> Zeiten(4, 8), lsr |-> Zeiten(7, 9)]
=============================================================================
