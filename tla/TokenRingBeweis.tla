--------------------------- MODULE TokenRingBeweis ---------------------------
(***************************************************************************)
(* Proofs about the token ring, for every set of clients.                  *)
(***************************************************************************)
EXTENDS TokenRing, FiniteSetTheorems, TLAPS

-----------------------------------------------------------------------------
(***************************************************************************)
(* Type correctness.                                                       *)
(***************************************************************************)

LEMMA TypInit == Init => TypeOK
  BY TokenAnnahme DEF Init, TypeOK, AnfrageTyp

\* Requests stay numbers and queues stay queues, whoever sends.
LEMMA AnfragenTyp ==
  ASSUME TypeOK, NEW c \in Client, NEW t \in AnfrageTyp
  PROVE  /\ Gefragt(c, t) \in [Client -> [AnfrageTyp -> Nat]]
         /\ anfragen[c][t] > 0 => Behandelt(c, t) \in [Client -> [AnfrageTyp -> Nat]]
  BY DEF TypeOK, Gefragt, Behandelt

LEMMA AntwortenTyp ==
  ASSUME TypeOK, NEW c \in Client, NEW liste \in SUBSET Client,
         NEW t \in {"REGISTER_RESPONSE", "ERROR", "LIST", "MOVE_RESPONSE"}
  PROVE  Antworten(c, t, liste) \in [Client -> Seq(Antwort)]
<1> DEFINE a == [typ |-> t, list |-> liste]
<1>1. a \in Antwort
  BY DEF Antwort
<1>2. Append(queue[c], a) \in Seq(Antwort)
  BY <1>1 DEF TypeOK
<1> QED
  BY <1>2 DEF Antworten, TypeOK

LEMMA GenommenTyp ==
  ASSUME TypeOK, NEW c \in Client, queue[c] # <<>>
  PROVE  Genommen(c) \in [Client -> Seq(Antwort)]
<1>1. Tail(queue[c]) \in Seq(Antwort)
  BY DEF TypeOK
<1> QED
  BY <1>1 DEF Genommen, TypeOK

LEMMA TypRegistry ==
  ASSUME TypeOK, NEW c \in Client,
         Eintragen(c) \/ Zaehlen(c) \/ Austragen(c) \/ handle_list(c) \/ handleMove(c)
  PROVE  TypeOK'
<1>1. CASE Eintragen(c)
  <2>1. anfragen' \in [Client -> [AnfrageTyp -> Nat]]
    BY <1>1, AnfragenTyp DEF Eintragen, AnfrageTyp
  <2>2. queue' \in [Client -> Seq(Antwort)]
    BY <1>1, AntwortenTyp DEF Eintragen
  <2>3. CASE UNCHANGED registryVars
    BY <1>1, <2>1, <2>2, <2>3 DEF TypeOK, Eintragen, registryVars
  <2>4. CASE ~UNCHANGED registryVars
    <3>1. id' \in [Client -> Nat] /\ id_counter' \in Nat
      <4>1. /\ id' = [id EXCEPT ![c] = id_counter + 1]
            /\ id_counter' = id_counter + 1
        BY <1>1, <2>4 DEF Eintragen
      <4>2. id_counter + 1 \in Nat /\ id \in [Client -> Nat]
        BY DEF TypeOK
      <4> QED
        BY <4>1, <4>2
    <3>2. registered' \subseteq Client /\ sperre' = c
      BY <1>1, <2>4 DEF TypeOK, Eintragen
    <3> QED
      BY <1>1, <2>1, <2>2, <3>1, <3>2 DEF TypeOK, Eintragen
  <2> QED
    BY <2>3, <2>4
<1>2. CASE Zaehlen(c)
  BY <1>2 DEF TypeOK, Zaehlen, TokenAn
<1>3. CASE Austragen(c)
  <2>1. anfragen' \in [Client -> [AnfrageTyp -> Nat]]
    BY <1>3, AnfragenTyp DEF Austragen, AnfrageTyp
  <2> QED
    BY <1>3, <2>1 DEF TypeOK, Austragen
<1>4. CASE handle_list(c)
  <2>1. anfragen' \in [Client -> [AnfrageTyp -> Nat]]
    BY <1>4, AnfragenTyp DEF handle_list, AnfrageTyp
  <2>2. queue' \in [Client -> Seq(Antwort)]
    BY <1>4, AntwortenTyp DEF handle_list, TypeOK
  <2> QED
    BY <1>4, <2>1, <2>2 DEF TypeOK, handle_list, registryVars
<1>5. CASE handleMove(c)
  <2>1. queue' \in [Client -> Seq(Antwort)]
    BY <1>5, AntwortenTyp DEF handleMove
  <2> QED
    BY <1>5, <2>1 DEF TypeOK, handleMove, registryVars
<1> QED
  BY <1>1, <1>2, <1>3, <1>4, <1>5

LEMMA TypManager ==
  ASSUME TypeOK, NEW c \in Client, Manager(c)
  PROVE  TypeOK'
<1>1. CASE TokenFreigeben(c)
  BY <1>1 DEF TypeOK, TokenFreigeben, registryVars
<1>2. CASE TokenHolen(c)
  <2>1. anfragen' \in [Client -> [AnfrageTyp -> Nat]]
    BY <1>2, AnfragenTyp DEF TokenHolen, AnfrageTyp
  <2> QED
    BY <1>2, <2>1 DEF TypeOK, TokenHolen, registryVars
<1>3. CASE TokenWeitergeben(c)
  <2>1. queue' \in [Client -> Seq(Antwort)]
    BY <1>3, GenommenTyp DEF TokenWeitergeben
  <2>2. Head(queue[c]).list \subseteq Client
    <3>1. Head(queue[c]) \in Antwort
      BY <1>3 DEF TokenWeitergeben, TypeOK
    <3> QED
      BY <3>1 DEF Antwort
  <2>3. PICK d \in extract_neighbors(c, Head(queue[c]).list) : comToken' = TokenAn(d)
    BY <1>3 DEF TokenWeitergeben
  <2>4. d \in Client
    BY <2>2, <2>3 DEF extract_neighbors
  <2>5. comToken' \in [Client -> Nat]
    BY <2>3, <2>4 DEF TypeOK, TokenAn
  <2>6. manager' \in [Client -> {"aus", "lauscht", "gibtfrei", "fragt", "tot"}]
    BY <1>3 DEF TypeOK, TokenWeitergeben
  <2> QED
    BY <1>3, <2>1, <2>5, <2>6 DEF TypeOK, TokenWeitergeben, registryVars
<1>4. CASE TokenBehalten(c)
  <2>1. queue' \in [Client -> Seq(Antwort)]
    BY <1>4, GenommenTyp DEF TokenBehalten
  <2>2. perm' \in [Client -> Nat]
    BY <1>4 DEF TypeOK, TokenBehalten
  <2>3. manager' \in [Client -> {"aus", "lauscht", "gibtfrei", "fragt", "tot"}]
    BY <1>4 DEF TypeOK, TokenBehalten
  <2> QED
    BY <1>4, <2>1, <2>2, <2>3 DEF TypeOK, TokenBehalten, registryVars
<1> QED
  BY <1>1, <1>2, <1>3, <1>4 DEF Manager

LEMMA TypGestorben ==
  ASSUME TypeOK, NEW c \in Client, Gestorben(c),
         anfragen' \in [Client -> [AnfrageTyp -> Nat]]
  PROVE  TypeOK'
<1>1. queue' \in [Client -> Seq(Antwort)]
  BY DEF TypeOK, Gestorben
<1>2. comToken' \in [Client -> Nat] /\ perm' \in [Client -> Nat]
  BY DEF TypeOK, Gestorben
<1> QED
  BY <1>1, <1>2 DEF TypeOK, Gestorben, registryVars

LEMMA TypMenue ==
  ASSUME TypeOK, NEW c \in Client, MainAntwort(c) \/ Benutzer(c) \/ Steuern(c)
  PROVE  TypeOK'
<1> USE DEF Main, Nimmt, registryVars
<1>1. CASE Angemeldet(c)
  <2>1. queue' \in [Client -> Seq(Antwort)]
    BY <1>1, GenommenTyp DEF Angemeldet
  <2> QED
    BY <1>1, <2>1 DEF TypeOK, Angemeldet
<1>2. CASE Abgewiesen(c)
  BY <1>2, TypGestorben DEF Abgewiesen, TypeOK
<1>3. CASE ListeGezeigt(c)
  <2>1. queue' \in [Client -> Seq(Antwort)]
    BY <1>3, GenommenTyp DEF ListeGezeigt
  <2> QED
    BY <1>3, <2>1 DEF TypeOK, ListeGezeigt
<1>4. CASE RoboterListe(c)
  <2>1. queue' \in [Client -> Seq(Antwort)]
    BY <1>4, GenommenTyp DEF RoboterListe
  <2> QED
    BY <1>4, <2>1 DEF TypeOK, RoboterListe
<1>5. CASE Bewegt(c)
  <2>1. queue' \in [Client -> Seq(Antwort)]
    BY <1>5, GenommenTyp DEF Bewegt
  <2>2. perm' \in [Client -> Nat]
    BY <1>5 DEF TypeOK, Bewegt
  <2>3. main' \in [Client -> {"aus", "anmeldung", "menue", "zeigt", "wartet",
                              "fragt", "waehlt", "bewegt", "ende"}]
    BY <1>5 DEF TypeOK, Bewegt
  <2> QED
    BY <1>5, <2>1, <2>2, <2>3 DEF TypeOK, Bewegt
<1>6. CASE NichtGefunden(c)
  BY <1>6 DEF TypeOK, NichtGefunden
<1>7. CASE Bewegen(c)
  BY <1>7 DEF TypeOK, Bewegen
<1>8. CASE Steuern(c)
  <2>1. anfragen' \in [Client -> [AnfrageTyp -> Nat]]
    BY <1>8, AnfragenTyp DEF Steuern, AnfrageTyp
  <2> QED
    BY <1>8, <2>1 DEF TypeOK, Steuern
<1> QED
  BY <1>1, <1>2, <1>3, <1>4, <1>5, <1>6, <1>7, <1>8 DEF MainAntwort, Benutzer

LEMMA TypSonst ==
  ASSUME TypeOK, NEW c \in Client,
         \/ Starten(c) \/ ListeZeigen(c) \/ Warten(c) \/ Ausnahme(c)
         \/ Beenden(c) \/ Absturz(c)
  PROVE  TypeOK'
<1> USE DEF Main, registryVars
<1>1. CASE Starten(c)
  <2>1. anfragen' \in [Client -> [AnfrageTyp -> Nat]]
    BY <1>1, AnfragenTyp DEF Starten, AnfrageTyp
  <2> QED
    BY <1>1, <2>1 DEF TypeOK, Starten
<1>2. CASE ListeZeigen(c)
  <2>1. anfragen' \in [Client -> [AnfrageTyp -> Nat]]
    BY <1>2, AnfragenTyp DEF ListeZeigen, AnfrageTyp
  <2> QED
    BY <1>2, <2>1 DEF TypeOK, ListeZeigen
<1>3. CASE Warten(c)
  BY <1>3 DEF TypeOK, Warten
<1>4. CASE Ausnahme(c)
  BY <1>4 DEF TypeOK, Ausnahme
<1>5. CASE Beenden(c)
  <2>1. anfragen' \in [Client -> [AnfrageTyp -> Nat]]
    BY <1>5, AnfragenTyp DEF Beenden, AnfrageTyp, TypeOK
  <2> QED
    BY <1>5, <2>1, TypGestorben DEF Beenden
<1>6. CASE Absturz(c)
  BY <1>6, TypGestorben DEF Absturz, TypeOK
<1> QED
  BY <1>1, <1>2, <1>3, <1>4, <1>5, <1>6

LEMMA TypSchritt == TypeOK /\ [Next]_vars => TypeOK'
<1> SUFFICES ASSUME TypeOK, [Next]_vars
             PROVE  TypeOK'
  OBVIOUS
<1>1. CASE Registry
  BY <1>1, TypRegistry DEF Registry
<1>2. ASSUME NEW c \in Client, ClientSchritt(c)
      PROVE  TypeOK'
  BY <1>2, TypManager, TypMenue, TypSonst DEF ClientSchritt
<1>3. ASSUME NEW c \in Client, handleMove(c)
      PROVE  TypeOK'
  BY <1>3, TypRegistry
<1>4. CASE UNCHANGED vars
  BY <1>4 DEF TypeOK, vars
<1> QED
  BY <1>1, <1>2, <1>3, <1>4 DEF Next

\* Semaphores never get below zero, queues hold answers only, and the states of the
\* two threads are the ones the code has, in every ring.
THEOREM Typkorrekt == Spec => []TypeOK
  BY TypInit, TypSchritt, PTL DEF Spec

-----------------------------------------------------------------------------
(***************************************************************************)
(* One token, when no client unregisters.  The registry may send a token   *)
(* only while there is none: until it has counted its first client.        *)
(***************************************************************************)
Ordnung ==
  /\ \A c \in Client : anfragen[c]["UNREGISTER"] = 0
  /\ sperre # Niemand => sperre \in registered
  /\ IsFiniteSet(registered)

NochNichtGezaehlt == registered = {} \/ (sperre # Niemand /\ registered = {sperre})

KeinerVorher == NochNichtGezaehlt => \A c \in Client : Tokens(c) = 0

IInv == TypeOK /\ Ordnung /\ KeinerVorher /\ EinToken

LEMMA IInvInit == Init => IInv
<1> SUFFICES ASSUME Init
             PROVE  IInv
  OBVIOUS
<1>1. Ordnung
  BY FS_EmptySet DEF Init, Ordnung, AnfrageTyp
<1>2. \A c \in Client : Tokens(c) = 0
  BY DEF Init, Tokens, Eins, Steuert
<1> QED
  BY <1>1, <1>2, TypInit DEF IInv, KeinerVorher, EinToken

LEMMA TokensNat ==
  ASSUME TypeOK, NEW c \in Client
  PROVE  Tokens(c) \in Nat
  BY DEF TypeOK, Tokens, Eins

\* Only client c is concerned, and the list of clients is left alone.
NurEigenes(c) ==
  /\ UNCHANGED <<registered, sperre>>
  /\ \A d \in Client \ {c} :
       /\ comToken'[d] = comToken[d] /\ perm'[d] = perm[d]
       /\ main'[d] = main[d] /\ manager'[d] = manager[d]

\* These steps neither give nor take a token: they hand it from one semaphore or thread
\* of the client to the other.
Behaltend(c) ==
  \/ TokenFreigeben(c) \/ TokenHolen(c) \/ (TokenBehalten(c) /\ Head(queue[c]).typ = "LIST")
  \/ (Angemeldet(c) /\ manager[c] # "fragt") \/ ListeGezeigt(c)
  \/ (RoboterListe(c) /\ Head(queue[c]).typ = "LIST") \/ Bewegt(c) \/ NichtGefunden(c) \/ Bewegen(c)
  \/ Steuern(c) \/ Starten(c) \/ ListeZeigen(c) \/ Warten(c) \/ handle_list(c) \/ handleMove(c)

\* In these the client may lose its token.
Verlierend(c) ==
  \/ TokenBehalten(c) /\ Head(queue[c]).typ # "LIST"
  \/ RoboterListe(c) /\ Head(queue[c]).typ # "LIST"
  \/ Angemeldet(c) /\ manager[c] = "fragt"
  \/ Ausnahme(c) \/ Gestorben(c)

LEMMA BehaltendLemma ==
  ASSUME TypeOK, NEW c \in Client, Behaltend(c)
  PROVE  NurEigenes(c) /\ Tokens(c)' = Tokens(c)
<1> USE DEF Main, Nimmt, registryVars
<1>1. CASE TokenFreigeben(c)
  <2>1. Tokens(c)' = Tokens(c)
    BY <1>1 DEF TypeOK, TokenFreigeben, Tokens, Steuert, Eins
  <2>2. NurEigenes(c)
    BY <1>1 DEF TypeOK, TokenFreigeben, NurEigenes
  <2> QED
    BY <2>1, <2>2
<1>2. CASE TokenHolen(c)
  <2>1. Tokens(c)' = Tokens(c)
    BY <1>2 DEF TypeOK, TokenHolen, Tokens, Steuert, Eins
  <2>2. NurEigenes(c)
    BY <1>2 DEF TypeOK, TokenHolen, NurEigenes
  <2> QED
    BY <2>1, <2>2
<1>3. CASE TokenBehalten(c) /\ Head(queue[c]).typ = "LIST"
  <2>1. Tokens(c)' = Tokens(c)
    BY <1>3 DEF TypeOK, TokenBehalten, Tokens, Steuert, Eins
  <2>2. NurEigenes(c)
    BY <1>3 DEF TypeOK, TokenBehalten, NurEigenes
  <2> QED
    BY <2>1, <2>2
<1>4. CASE Angemeldet(c) /\ manager[c] # "fragt"
  <2>1. Tokens(c)' = Tokens(c)
    BY <1>4 DEF TypeOK, Angemeldet, Tokens, Steuert, Eins
  <2>2. NurEigenes(c)
    BY <1>4 DEF TypeOK, Angemeldet, NurEigenes
  <2> QED
    BY <2>1, <2>2
<1>5. CASE ListeGezeigt(c)
  <2>1. Tokens(c)' = Tokens(c)
    BY <1>5 DEF TypeOK, ListeGezeigt, Tokens, Steuert, Eins
  <2>2. NurEigenes(c)
    BY <1>5 DEF TypeOK, ListeGezeigt, NurEigenes
  <2> QED
    BY <2>1, <2>2
<1>6. CASE RoboterListe(c) /\ Head(queue[c]).typ = "LIST"
  <2>1. Tokens(c)' = Tokens(c)
    BY <1>6 DEF TypeOK, RoboterListe, Tokens, Steuert, Eins
  <2>2. NurEigenes(c)
    BY <1>6 DEF TypeOK, RoboterListe, NurEigenes
  <2> QED
    BY <2>1, <2>2
<1>7. CASE Bewegt(c)
  <2>1. Tokens(c)' = Tokens(c)
    BY <1>7 DEF TypeOK, Bewegt, Tokens, Steuert, Eins
  <2>2. NurEigenes(c)
    BY <1>7 DEF TypeOK, Bewegt, NurEigenes
  <2> QED
    BY <2>1, <2>2
<1>8. CASE NichtGefunden(c)
  <2>1. Tokens(c)' = Tokens(c)
    BY <1>8 DEF TypeOK, NichtGefunden, Tokens, Steuert, Eins
  <2>2. NurEigenes(c)
    BY <1>8 DEF TypeOK, NichtGefunden, NurEigenes
  <2> QED
    BY <2>1, <2>2
<1>9. CASE Bewegen(c)
  <2>1. Tokens(c)' = Tokens(c)
    BY <1>9 DEF TypeOK, Bewegen, Tokens, Steuert, Eins
  <2>2. NurEigenes(c)
    BY <1>9 DEF TypeOK, Bewegen, NurEigenes
  <2> QED
    BY <2>1, <2>2
<1>10. CASE Steuern(c)
  <2>1. Tokens(c)' = Tokens(c)
    BY <1>10 DEF TypeOK, Steuern, Tokens, Steuert, Eins
  <2>2. NurEigenes(c)
    BY <1>10 DEF TypeOK, Steuern, NurEigenes
  <2> QED
    BY <2>1, <2>2
<1>11. CASE Starten(c)
  <2>1. Tokens(c)' = Tokens(c)
    BY <1>11 DEF TypeOK, Starten, Tokens, Steuert, Eins
  <2>2. NurEigenes(c)
    BY <1>11 DEF TypeOK, Starten, NurEigenes
  <2> QED
    BY <2>1, <2>2
<1>12. CASE ListeZeigen(c)
  <2>1. Tokens(c)' = Tokens(c)
    BY <1>12 DEF TypeOK, ListeZeigen, Tokens, Steuert, Eins
  <2>2. NurEigenes(c)
    BY <1>12 DEF TypeOK, ListeZeigen, NurEigenes
  <2> QED
    BY <2>1, <2>2
<1>13. CASE Warten(c)
  <2>1. Tokens(c)' = Tokens(c)
    BY <1>13 DEF TypeOK, Warten, Tokens, Steuert, Eins
  <2>2. NurEigenes(c)
    BY <1>13 DEF TypeOK, Warten, NurEigenes
  <2> QED
    BY <2>1, <2>2
<1>14. CASE handle_list(c)
  <2>1. Tokens(c)' = Tokens(c)
    BY <1>14 DEF TypeOK, handle_list, Tokens, Steuert, Eins
  <2>2. NurEigenes(c)
    BY <1>14 DEF TypeOK, handle_list, NurEigenes
  <2> QED
    BY <2>1, <2>2
<1>15. CASE handleMove(c)
  <2>1. Tokens(c)' = Tokens(c)
    BY <1>15 DEF TypeOK, handleMove, Tokens, Steuert, Eins
  <2>2. NurEigenes(c)
    BY <1>15 DEF TypeOK, handleMove, NurEigenes
  <2> QED
    BY <2>1, <2>2
<1> QED
  BY <1>1, <1>2, <1>3, <1>4, <1>5, <1>6, <1>7, <1>8, <1>9, <1>10, <1>11, <1>12, <1>13, <1>14, <1>15 DEF Behaltend

LEMMA VerlierendLemma ==
  ASSUME TypeOK, NEW c \in Client, Verlierend(c)
  PROVE  NurEigenes(c) /\ Tokens(c)' <= Tokens(c)
<1> USE DEF Main, Nimmt, registryVars
<1>1. CASE Angemeldet(c) /\ manager[c] = "fragt"
  <2>1. Tokens(c)' <= Tokens(c)
    BY <1>1 DEF TypeOK, Angemeldet, Tokens, Steuert, Eins
  <2>2. NurEigenes(c)
    BY <1>1 DEF TypeOK, Angemeldet, NurEigenes
  <2> QED
    BY <2>1, <2>2
<1>2. CASE TokenBehalten(c) /\ Head(queue[c]).typ # "LIST"
  <2>1. Tokens(c)' <= Tokens(c)
    BY <1>2 DEF TypeOK, TokenBehalten, Tokens, Steuert, Eins
  <2>2. NurEigenes(c)
    BY <1>2 DEF TypeOK, TokenBehalten, NurEigenes
  <2> QED
    BY <2>1, <2>2
<1>3. CASE RoboterListe(c) /\ Head(queue[c]).typ # "LIST"
  <2>1. Tokens(c)' <= Tokens(c)
    BY <1>3 DEF TypeOK, RoboterListe, Tokens, Steuert, Eins
  <2>2. NurEigenes(c)
    BY <1>3 DEF TypeOK, RoboterListe, NurEigenes
  <2> QED
    BY <2>1, <2>2
<1>4. CASE Ausnahme(c)
  <2>1. Tokens(c)' <= Tokens(c)
    BY <1>4 DEF TypeOK, Ausnahme, Tokens, Steuert, Eins
  <2>2. NurEigenes(c)
    BY <1>4 DEF TypeOK, Ausnahme, NurEigenes
  <2> QED
    BY <2>1, <2>2
<1>5. CASE Gestorben(c)
  <2>1. Tokens(c)' <= Tokens(c)
    BY <1>5 DEF TypeOK, Gestorben, Tokens, Steuert, Eins
  <2>2. NurEigenes(c)
    BY <1>5 DEF TypeOK, Gestorben, NurEigenes
  <2> QED
    BY <2>1, <2>2
<1> QED
  BY <1>1, <1>2, <1>3, <1>4, <1>5 DEF Verlierend

\* Every step of a client or of the robot is one of these, or passes the token on.
LEMMA Schrittarten ==
  ASSUME NEW c \in Client, ClientSchritt(c) \/ handle_list(c) \/ handleMove(c)
  PROVE  Behaltend(c) \/ Verlierend(c) \/ TokenWeitergeben(c)
  BY DEF ClientSchritt, Manager, MainAntwort, Benutzer, Behaltend, Verlierend, Abgewiesen,
     Beenden, Absturz

AnzahlenNat == \A c \in Client : Tokens(c) \in Nat

LEMMA AnzahlenVorher == TypeOK => AnzahlenNat
  BY TokensNat DEF AnzahlenNat

LEMMA TokensNatDanach == TypeOK' => \A c \in Client : Tokens(c)' \in Nat
<1>1. TypeOK' => AnzahlenNat'
  BY AnzahlenVorher, PTL
<1> QED
  BY <1>1 DEF AnzahlenNat

\* A step that gives no client a token and leaves the list of clients alone.
LEMMA OhneZuwachs ==
  ASSUME IInv, TypeOK', UNCHANGED <<registered, sperre>>,
         \A c \in Client : Tokens(c)' <= Tokens(c)
  PROVE  KeinerVorher' /\ EinToken'
<1>1. \A c \in Client : Tokens(c) \in Nat /\ Tokens(c)' \in Nat
  BY TokensNat, TokensNatDanach DEF IInv
<1>2. KeinerVorher'
  BY <1>1 DEF IInv, KeinerVorher, NochNichtGezaehlt
<1>3. EinToken'
  BY <1>1 DEF IInv, EinToken
<1> QED
  BY <1>2, <1>3

LEMMA TokenRegistry ==
  ASSUME IInv, TypeOK', NEW c \in Client,
         Eintragen(c) \/ Zaehlen(c)
  PROVE  KeinerVorher' /\ EinToken'
<1>1. CASE Eintragen(c)
  <2>1. \A d \in Client : Tokens(d)' = Tokens(d)
    BY <1>1 DEF Eintragen, Tokens, Eins, Steuert
  <2>2. EinToken'
    BY <2>1 DEF IInv, EinToken
  <2>3. ASSUME NochNichtGezaehlt'
        PROVE  NochNichtGezaehlt
    <3>1. CASE UNCHANGED registryVars
      BY <2>3, <3>1 DEF NochNichtGezaehlt, registryVars
    <3>2. CASE ~UNCHANGED registryVars
      <4>1. /\ \A d \in registered : nameVon[d] # nameVon[c]
            /\ registered' = registered \cup {c}
            /\ sperre' = c
        BY <1>1, <3>2 DEF Eintragen
      <4>2. c \notin registered
        BY <4>1
      <4> QED
        BY <2>3, <4>1, <4>2 DEF NochNichtGezaehlt
    <3> QED
      BY <3>1, <3>2
  <2>4. KeinerVorher'
    BY <2>1, <2>3 DEF IInv, KeinerVorher
  <2> QED
    BY <2>2, <2>4
<1>2. CASE Zaehlen(c)
  <2>1. c \in registered /\ registered' = registered /\ sperre' = Niemand
    BY <1>2, TokenAnnahme DEF Zaehlen, IInv, Ordnung
  <2>2. KeinerVorher'
    BY <2>1 DEF KeinerVorher, NochNichtGezaehlt
  <2>3. CASE ErsterClient(c)
    <3>1. registered = {c}
      BY <2>1, <2>3, FS_Singleton DEF ErsterClient, IInv, Ordnung
    <3>2. \A d \in Client : Tokens(d) = 0
      BY <1>2, <3>1, TokenAnnahme DEF Zaehlen, IInv, KeinerVorher, NochNichtGezaehlt
    <3>3. \A d \in Client : Tokens(d)' = Tokens(d) \/ (d = c /\ Tokens(d)' = Tokens(d) + 1)
      BY <1>2, SMTT(30) DEF Zaehlen, TokenAn, Tokens, Eins, Steuert, IInv, TypeOK
    <3> QED
      BY <2>2, <3>2, <3>3 DEF EinToken
  <2>4. CASE ~ErsterClient(c)
    <3>1. \A d \in Client : Tokens(d)' = Tokens(d)
      BY <1>2, <2>4 DEF Zaehlen, Tokens, Eins, Steuert
    <3> QED
      BY <2>2, <3>1 DEF IInv, EinToken
  <2> QED
    BY <2>3, <2>4
<1> QED
  BY <1>1, <1>2

\* A step of one client gives it no token more than it had.
LEMMA TokenClient ==
  ASSUME IInv, TypeOK', NEW c \in Client, NurEigenes(c), Tokens(c)' <= Tokens(c)
  PROVE  KeinerVorher' /\ EinToken'
<1>1. \A d \in Client \ {c} : Tokens(d)' = Tokens(d)
  BY DEF NurEigenes, Tokens, Steuert, Eins
<1>2. \A d \in Client : Tokens(d) \in Nat
  BY TokensNat DEF IInv
<1> QED
  BY <1>1, <1>2, OhneZuwachs DEF NurEigenes

\* The token moves from c to the neighbour.
LEMMA TokenWeiter ==
  ASSUME IInv, TypeOK', NEW c \in Client, TokenWeitergeben(c)
  PROVE  KeinerVorher' /\ EinToken'
<1>t. TypeOK
  BY DEF IInv
<1>1. PICK d \in extract_neighbors(c, Head(queue[c]).list) : comToken' = TokenAn(d)
  BY DEF TokenWeitergeben
<1>2. d # c
  BY <1>1 DEF extract_neighbors
<1>n. comToken[c] \in Nat /\ perm[c] \in Nat
  BY <1>t DEF TypeOK
<1>a. /\ manager[c] = "fragt" /\ manager'[c] = "lauscht"
      /\ main' = main /\ perm' = perm /\ comToken'[c] = comToken[c]
  BY <1>t, <1>1, <1>2 DEF TypeOK, TokenWeitergeben, TokenAn
<1>3. Tokens(c) \in Nat /\ Tokens(c) >= 1
  BY <1>n, <1>a DEF Tokens, Eins
<1>4. Tokens(c) = 1 /\ \A e \in Client \ {c} : Tokens(e) = 0
  BY <1>3, TokensNat DEF IInv, EinToken
<1>5. Tokens(c)' = Tokens(c) - 1
  BY <1>n, <1>a DEF Tokens, Steuert, Eins
<1>6. \A e \in Client \ {c} : Tokens(e)' <= 1 /\ (Tokens(e)' = 1 => e = d)
  <2>1. ASSUME NEW e \in Client \ {c}
        PROVE  /\ main'[e] = main[e] /\ manager'[e] = manager[e] /\ perm'[e] = perm[e]
               /\ comToken'[e] = IF e = d THEN comToken[e] + 1 ELSE comToken[e]
    BY <1>t, <1>1 DEF TypeOK, TokenWeitergeben, TokenAn
  <2>2. ASSUME NEW e \in Client \ {c}
        PROVE  Tokens(e)' = IF e = d THEN Tokens(e) + 1 ELSE Tokens(e)
    <3>1. comToken[e] \in Nat /\ perm[e] \in Nat
      BY <1>t DEF TypeOK
    <3>2. Eins(Steuert(e))' = Eins(Steuert(e)) /\ Eins(Steuert(e)) \in Nat
      BY <2>1 DEF Steuert, Eins
    <3>3. Eins(manager[e] = "fragt")' = Eins(manager[e] = "fragt")
          /\ Eins(manager[e] = "fragt") \in Nat
      BY <2>1 DEF Eins
    <3> QED
      BY <2>1, <3>1, <3>2, <3>3 DEF Tokens
  <2> QED
    BY <1>4, <2>2
<1>7. EinToken'
  BY <1>4, <1>5, <1>6 DEF EinToken
<1>8. ~NochNichtGezaehlt'
  BY <1>4 DEF IInv, KeinerVorher, NochNichtGezaehlt, TokenWeitergeben, registryVars
<1> QED
  BY <1>7, <1>8 DEF KeinerVorher

\* Without a shutdown nobody sends UNREGISTER; the lock is held for an entry.
LEMMA OrdnungSchritt ==
  ASSUME ~MitEnde, IInv, [Next]_vars
  PROVE  Ordnung'
<1>t. TypeOK /\ Ordnung
  BY DEF IInv
<1>1. ASSUME NEW c \in Client, NEW t \in {"REGISTER", "LIST"}
      PROVE  \A d \in Client : /\ Gefragt(c, t)[d]["UNREGISTER"] = 0
                               /\ Behandelt(c, t)[d]["UNREGISTER"] = 0
  BY <1>t DEF TypeOK, Ordnung, Gefragt, Behandelt, AnfrageTyp
<1>2. ASSUME NEW c \in Client, Eintragen(c)
      PROVE  Ordnung'
  <2>1. \A d \in Client : anfragen'[d]["UNREGISTER"] = 0
    BY <1>1, <1>2 DEF Eintragen
  <2>2. CASE UNCHANGED registryVars
    BY <1>t, <2>1, <2>2 DEF Ordnung, registryVars
  <2>3. CASE ~UNCHANGED registryVars
    <3>1. registered' = registered \cup {c} /\ sperre' = c
      BY <1>2, <2>3 DEF Eintragen
    <3>2. IsFiniteSet(registered \cup {c})
      BY <1>t, FS_AddElement DEF Ordnung
    <3> QED
      BY <2>1, <3>1, <3>2 DEF Ordnung
  <2> QED
    BY <2>2, <2>3
<1>3. ASSUME NEW c \in Client, Austragen(c)
      PROVE  FALSE
  BY <1>t, <1>3 DEF Ordnung, Austragen
<1>4. ASSUME NEW c \in Client, Zaehlen(c)
      PROVE  Ordnung'
  BY <1>t, <1>4 DEF Ordnung, Zaehlen
<1>5. ASSUME UNCHANGED <<registered, sperre>>,
             \A d \in Client : anfragen'[d]["UNREGISTER"] = 0
      PROVE  Ordnung'
  BY <1>t, <1>5 DEF Ordnung
<1>6. ASSUME NEW c \in Client, ClientSchritt(c) \/ handle_list(c) \/ handleMove(c)
      PROVE  UNCHANGED <<registered, sperre>>
  BY <1>6 DEF ClientSchritt, Manager, TokenFreigeben, TokenHolen, TokenWeitergeben,
     TokenBehalten, MainAntwort, Angemeldet, Abgewiesen, ListeGezeigt, RoboterListe, Bewegt,
     Benutzer, NichtGefunden, Bewegen, Steuern, Starten, ListeZeigen, Warten, Ausnahme,
     Beenden, Absturz, Gestorben, handle_list, handleMove, registryVars
<1>7. ASSUME NEW c \in Client, ClientSchritt(c) \/ handle_list(c) \/ handleMove(c)
      PROVE  \/ UNCHANGED anfragen
             \/ \E t \in {"REGISTER", "LIST"} : anfragen' \in {Gefragt(c, t), Behandelt(c, t)}
  BY <1>7 DEF ClientSchritt, Manager, TokenFreigeben, TokenHolen, TokenWeitergeben,
     TokenBehalten, MainAntwort, Angemeldet, Abgewiesen, ListeGezeigt, RoboterListe, Bewegt,
     Benutzer, NichtGefunden, Bewegen, Steuern, Starten, ListeZeigen, Warten, Ausnahme,
     Beenden, Absturz, handle_list, handleMove
<1>8. ASSUME NEW c \in Client, ClientSchritt(c) \/ handle_list(c) \/ handleMove(c)
      PROVE  Ordnung'
  <2>1. \A d \in Client : anfragen'[d]["UNREGISTER"] = 0
    BY <1>t, <1>1, <1>7, <1>8 DEF Ordnung
  <2> QED
    BY <1>5, <1>6, <1>8, <2>1
<1>9. CASE UNCHANGED vars
  BY <1>t, <1>9 DEF Ordnung, vars
<1> QED
  BY <1>2, <1>3, <1>4, <1>8, <1>9 DEF Next, Registry

LEMMA IInvSchritt ==
  ASSUME ~MitEnde, IInv, [Next]_vars
  PROVE  IInv'
<1>1. TypeOK'
  BY TypSchritt DEF IInv
<1>2. Ordnung'
  BY OrdnungSchritt
<1>3. KeinerVorher' /\ EinToken'
  <2>1. ASSUME NEW c \in Client, Eintragen(c) \/ Zaehlen(c)
        PROVE  KeinerVorher' /\ EinToken'
    BY <1>1, <2>1, TokenRegistry
  <2>2. ASSUME NEW c \in Client, Austragen(c)
        PROVE  FALSE
    BY <2>2 DEF IInv, Ordnung, Austragen
  <2>3. ASSUME NEW c \in Client, ClientSchritt(c) \/ handle_list(c) \/ handleMove(c)
        PROVE  KeinerVorher' /\ EinToken'
    <3>1. CASE TokenWeitergeben(c)
      BY <1>1, <3>1, TokenWeiter
    <3>2. CASE Behaltend(c) \/ Verlierend(c)
      <4>1. NurEigenes(c) /\ Tokens(c)' <= Tokens(c)
        BY <3>2, BehaltendLemma, VerlierendLemma, TokensNat DEF IInv
      <4> QED
        BY <1>1, <4>1, TokenClient
    <3> QED
      BY <2>3, <3>1, <3>2, Schrittarten
  <2>4. CASE UNCHANGED vars
    BY <2>4 DEF vars, IInv, KeinerVorher, NochNichtGezaehlt, EinToken, Tokens, Steuert, Eins
  <2> QED
    BY <2>1, <2>2, <2>3, <2>4 DEF Next, Registry
<1> QED
  BY <1>1, <1>2, <1>3 DEF IInv

\* However many clients register, clash, ask, control, fail and are killed in whatever
\* order: as long as none of them unregisters there is at most one token.
THEOREM HoechstensEinToken ==
  ASSUME ~MitEnde
  PROVE  Spec => []EinToken
<1>1. Init => IInv
  BY IInvInit
<1>2. IInv /\ [Next]_vars => IInv'
  BY IInvSchritt
<1>3. IInv => EinToken
  BY DEF IInv
<1> QED
  BY <1>1, <1>2, <1>3, PTL DEF Spec

-----------------------------------------------------------------------------
(***************************************************************************)
(* The ring implements Steuerrecht.                                        *)
(***************************************************************************)

\* Who has a token has the right, and controls the robot if anybody does.
BesitzerHatToken ==
  /\ \A c \in Client : Tokens(c) > 0 => Besitzer = c /\ (Gesteuert <=> Steuert(c))
  /\ (\A c \in Client : Tokens(c) = 0) => Besitzer = Niemand /\ ~Gesteuert

LEMMA BesitzerLemma == IInv => BesitzerHatToken
<1> SUFFICES ASSUME IInv
             PROVE  BesitzerHatToken
  OBVIOUS
<1>1. \A d \in Client : Tokens(d) \in Nat
  BY TokensNat DEF IInv
<1>2. \A d \in Client : Steuert(d) => Tokens(d) > 0
  BY DEF IInv, TypeOK, Tokens, Eins
<1>3. ASSUME NEW c \in Client, Tokens(c) > 0
      PROVE  Besitzer = c /\ (Gesteuert <=> Steuert(c))
  <2>1. \A d \in Client : Tokens(d) > 0 => d = c
    BY <1>1, <1>3 DEF IInv, EinToken
  <2> QED
    BY <1>2, <1>3, <2>1 DEF Besitzer, Gesteuert
<1>4. ASSUME \A c \in Client : Tokens(c) = 0
      PROVE  Besitzer = Niemand /\ ~Gesteuert
  BY <1>2, <1>4 DEF Besitzer, Gesteuert
<1> QED
  BY <1>3, <1>4 DEF BesitzerHatToken

LEMMA BesitzerDanach == IInv' => BesitzerHatToken'
  BY BesitzerLemma, PTL

LEMMA RechtInit == Init => Recht!Init
<1> SUFFICES ASSUME Init
             PROVE  Recht!Init
  OBVIOUS
<1>1. \A c \in Client : Tokens(c) = 0
  BY DEF Init, Tokens, Eins, Steuert
<1>2. Besitzer = Niemand
  BY <1>1 DEF Besitzer
<1>3. Gesteuert = FALSE
  BY DEF Gesteuert, Init, Steuert
<1> QED
  BY <1>2, <1>3 DEF Recht!Init

\* A client that hands its token from thread to thread, or loses it.
LEMMA RechtEigenes ==
  ASSUME IInv, IInv', NEW c \in Client, NurEigenes(c), Tokens(c)' <= Tokens(c)
  PROVE  [Recht!Next]_<<Besitzer, Gesteuert>>
<1>1. BesitzerHatToken /\ BesitzerHatToken'
  BY BesitzerLemma, BesitzerDanach
<1>2. \A d \in Client : Tokens(d) \in Nat /\ Tokens(d)' \in Nat
  BY TokensNat, TokensNatDanach DEF IInv
<1>3. \A d \in Client \ {c} : Tokens(d)' = Tokens(d) /\ Steuert(d)' = Steuert(d)
  BY DEF NurEigenes, Tokens, Steuert, Eins
<1>4. CASE \A d \in Client : Tokens(d) = 0
  <2>1. \A d \in Client : Tokens(d)' = 0
    BY <1>2, <1>3, <1>4
  <2> QED
    BY <1>1, <1>4, <2>1 DEF BesitzerHatToken, Gesteuert
<1>5. CASE \E d \in Client \ {c} : Tokens(d) > 0
  <2>1. PICK d \in Client \ {c} : Tokens(d) > 0
    BY <1>5
  <2>2. Besitzer = d /\ Besitzer' = d
    BY <1>1, <1>3, <2>1 DEF BesitzerHatToken
  <2>3. Gesteuert' = Gesteuert
    BY <1>1, <1>3, <2>1 DEF BesitzerHatToken, Gesteuert
  <2> QED
    BY <2>2, <2>3
<1>6. CASE Tokens(c) > 0 /\ Tokens(c)' > 0
  <2>1. Besitzer = c /\ Besitzer' = c /\ c # Niemand
    BY <1>1, <1>6, TokenAnnahme DEF BesitzerHatToken
  <2>2. Gesteuert \in BOOLEAN /\ Gesteuert' \in BOOLEAN
    BY DEF Gesteuert
  <2>3. CASE Gesteuert' = Gesteuert
    BY <2>1, <2>3
  <2>4. CASE Gesteuert = FALSE /\ Gesteuert' = TRUE
    BY <2>1, <2>4 DEF Recht!Next, Recht!Beginnen
  <2>5. CASE Gesteuert = TRUE /\ Gesteuert' = FALSE
    BY <2>1, <2>5 DEF Recht!Next, Recht!Aufhoeren
  <2>6. \/ Gesteuert' = Gesteuert
        \/ Gesteuert = FALSE /\ Gesteuert' = TRUE
        \/ Gesteuert = TRUE /\ Gesteuert' = FALSE
    BY <2>2
  <2> QED
    BY <2>3, <2>4, <2>5, <2>6
<1>7. CASE Tokens(c) > 0 /\ Tokens(c)' = 0
  <2>1. \A d \in Client : Tokens(d)' = 0
    <3>1. \A d \in Client \ {c} : Tokens(d) = 0
      BY <1>2, <1>7 DEF IInv, EinToken
    <3> QED
      BY <1>3, <1>7, <3>1
  <2>2. Besitzer # Niemand /\ Besitzer' = Niemand
    BY <1>1, <1>7, <2>1, TokenAnnahme DEF BesitzerHatToken
  <2>3. Gesteuert' = FALSE
    BY <1>1, <2>1 DEF BesitzerHatToken, Gesteuert
  <2> QED
    BY <2>2, <2>3 DEF Recht!Next, Recht!Verlieren
<1> QED
  BY <1>2, <1>4, <1>5, <1>6, <1>7

\* The token moves from c to its neighbour, and nobody controls the robot meanwhile.
LEMMA RechtWeiter ==
  ASSUME IInv, IInv', NEW c \in Client, TokenWeitergeben(c)
  PROVE  Recht!Next
<1>t. TypeOK
  BY DEF IInv
<1>1. PICK d \in extract_neighbors(c, Head(queue[c]).list) : comToken' = TokenAn(d)
  BY DEF TokenWeitergeben
<1>2. d # c /\ d \in Client
  <2>1. Head(queue[c]) \in Antwort
    BY <1>t DEF TokenWeitergeben, TypeOK
  <2>2. Head(queue[c]).list \subseteq Client
    BY <2>1 DEF Antwort
  <2> QED
    BY <1>1, <2>2 DEF extract_neighbors
<1>3. /\ manager[c] = "fragt"
      /\ main' = main /\ perm' = perm /\ comToken'[d] = comToken[d] + 1
  BY <1>t, <1>1, <1>2 DEF TypeOK, TokenWeitergeben, TokenAn
<1>4. /\ comToken[c] \in Nat /\ perm[c] \in Nat
      /\ comToken[d] \in Nat /\ perm[d] \in Nat
  BY <1>t, <1>2 DEF TypeOK
<1>5. Tokens(c) > 0 /\ Tokens(d)' > 0
  BY <1>3, <1>4 DEF Tokens, Eins
<1>6. ~Steuert(c)
  <2>1. Tokens(c) <= 1
    BY DEF IInv, EinToken
  <2> QED
    BY <1>3, <1>4, <2>1 DEF Tokens, Eins
<1>7. Besitzer = c /\ Besitzer' = d
  BY <1>2, <1>5, BesitzerLemma, BesitzerDanach DEF BesitzerHatToken
<1>8. ~Gesteuert /\ Gesteuert' = Gesteuert
  BY <1>3, <1>5, <1>6, BesitzerLemma DEF BesitzerHatToken, Gesteuert, Steuert
<1> QED
  BY <1>2, <1>7, <1>8, TokenAnnahme DEF Recht!Next, Recht!Weitergeben

\* The registry gives a first token only while nobody has one.
LEMMA RechtRegistry ==
  ASSUME IInv, IInv', NEW c \in Client, Eintragen(c) \/ Zaehlen(c)
  PROVE  [Recht!Next]_<<Besitzer, Gesteuert>>
<1>1. CASE UNCHANGED <<main, manager, perm, comToken>>
  <2>1. \A d \in Client : Tokens(d)' = Tokens(d) /\ Steuert(d)' = Steuert(d)
    BY <1>1 DEF Tokens, Steuert, Eins
  <2> QED
    BY <2>1 DEF Besitzer, Gesteuert
<1>2. CASE Zaehlen(c) /\ comToken' # comToken
  <2>1. ErsterClient(c) /\ sperre = c /\ comToken' = TokenAn(c)
    BY <1>2 DEF Zaehlen
  <2>2. registered = {c}
    BY <2>1, FS_Singleton, TokenAnnahme DEF ErsterClient, IInv, Ordnung
  <2>3. \A d \in Client : Tokens(d) = 0
    BY <2>1, <2>2, TokenAnnahme DEF IInv, KeinerVorher, NochNichtGezaehlt
  <2>4. Besitzer = Niemand /\ ~Gesteuert
    BY <2>3, BesitzerLemma DEF BesitzerHatToken
  <2>5. comToken[c] \in Nat /\ comToken'[c] = comToken[c] + 1
    BY <2>1 DEF IInv, TypeOK, TokenAn
  <2>6. Tokens(c)' > 0
    <3>1. perm' = perm /\ main' = main /\ manager' = manager /\ perm[c] \in Nat
      BY <1>2 DEF Zaehlen, IInv, TypeOK
    <3> QED
      BY <2>5, <3>1 DEF Tokens, Eins
  <2>7. Besitzer' = c
    BY <2>6, BesitzerDanach DEF BesitzerHatToken
  <2>8. Gesteuert' = Gesteuert
    BY <1>2 DEF Zaehlen, Gesteuert, Steuert
  <2> QED
    BY <2>4, <2>7, <2>8 DEF Recht!Next, Recht!Vergeben
<1> QED
  BY <1>1, <1>2 DEF Eintragen, Zaehlen

LEMMA RechtSchritt ==
  ASSUME ~MitEnde, IInv, IInv', [Next]_vars
  PROVE  [Recht!Next]_<<Besitzer, Gesteuert>>
<1>1. ASSUME NEW c \in Client, ClientSchritt(c) \/ handle_list(c) \/ handleMove(c)
      PROVE  [Recht!Next]_<<Besitzer, Gesteuert>>
  <2>1. CASE TokenWeitergeben(c)
    BY <2>1, RechtWeiter
  <2>2. CASE Behaltend(c) \/ Verlierend(c)
    <3>1. NurEigenes(c) /\ Tokens(c)' <= Tokens(c)
      BY <2>2, BehaltendLemma, VerlierendLemma, TokensNat DEF IInv
    <3> QED
      BY <3>1, RechtEigenes
  <2> QED
    BY <1>1, <2>1, <2>2, Schrittarten
<1>2. ASSUME NEW c \in Client, Austragen(c)
      PROVE  FALSE
  BY <1>2 DEF IInv, Ordnung, Austragen
<1>3. CASE UNCHANGED vars
  BY <1>3 DEF vars, Besitzer, Gesteuert, Tokens, Steuert, Eins
<1> QED
  BY <1>1, <1>2, <1>3, RechtRegistry DEF Next, Registry

\* In every ring without unregistering, the right to control the robot is given to one
\* client at a time, only the holder controls, and it moves on only while nobody does:
\* the detailed protocol implements Steuerrecht.
THEOREM RingErfuelltSteuerrecht ==
  ASSUME ~MitEnde
  PROVE  Spec => ErfuelltSteuerrecht
<1>1. Init => Recht!Init
  BY RechtInit
<1>2. IInv /\ IInv' /\ [Next]_vars => [Recht!Next]_<<Besitzer, Gesteuert>>
  BY RechtSchritt
<1>3. Spec => []IInv
  BY IInvInit, IInvSchritt, PTL DEF Spec
<1> QED
  BY <1>1, <1>2, <1>3, PTL DEF Spec, ErfuelltSteuerrecht, Recht!Spec

=============================================================================
