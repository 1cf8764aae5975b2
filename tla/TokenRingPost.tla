---------------------------- MODULE TokenRingPost ----------------------------
(***************************************************************************)
(* Proofs about requests, answers and entries of the token ring, for every *)
(* set of clients, every naming and all the ways to end.                   *)
(***************************************************************************)
EXTENDS TokenRingBeweis

-----------------------------------------------------------------------------
(***************************************************************************)
(* The inductive invariant: what is on its way for a client, and what it   *)
(* holds, by where its menu thread is.                                     *)
(***************************************************************************)

\* All answers that wait for c are of one of these types.
Nur(c, typen) == \A i \in DOMAIN queue[c] : queue[c][i].typ \in typen

Unbekannt(c) ==
  /\ anfragen[c]["REGISTER"] = 0 /\ anfragen[c]["UNREGISTER"] = 0
  /\ anfragen[c]["LIST"] = 0 /\ c \notin auftraege /\ queue[c] = <<>>
  /\ c \notin registered /\ manager[c] = "aus"

\* Its REGISTER is on its way, or the answer, which tells whether it was entered.
Anmeldend(c) ==
  /\ anfragen[c]["UNREGISTER"] = 0 /\ anfragen[c]["LIST"] = 0
  /\ c \notin auftraege /\ manager[c] = "aus"
  /\ anfragen[c]["REGISTER"] + Len(queue[c]) = 1
  /\ anfragen[c]["REGISTER"] = 1 => c \notin registered
  /\ Nur(c, {IF c \in registered THEN "REGISTER_RESPONSE" ELSE "ERROR"})

\* The token management does not ask while the robot is waited for.
Bewegend(c) ==
  /\ anfragen[c]["REGISTER"] = 0 /\ anfragen[c]["UNREGISTER"] = 0
  /\ anfragen[c]["LIST"] = 0 /\ c \in registered
  /\ Eins(c \in auftraege) + Len(queue[c]) = 1
  /\ Nur(c, {"MOVE_RESPONSE"})

\* Only lists are on their way, one for each thread that waits.
Bedienend(c) ==
  /\ anfragen[c]["REGISTER"] = 0 /\ anfragen[c]["UNREGISTER"] = 0
  /\ c \notin auftraege /\ c \in registered
  /\ anfragen[c]["LIST"] + Len(queue[c])
       = Eins(main[c] \in {"zeigt", "fragt"}) + Eins(manager[c] = "fragt")
  /\ Nur(c, {"LIST"})

\* A client that has ended may still have a REGISTER or an UNREGISTER on its way.
Beendet(c) ==
  /\ anfragen[c]["REGISTER"] > 0 => c \notin registered /\ anfragen[c]["UNREGISTER"] = 0
  /\ anfragen[c]["UNREGISTER"] > 0 => c \in registered /\ anfragen[c]["UNREGISTER"] = 1
  /\ anfragen[c]["REGISTER"] <= 1
  /\ manager[c] = "aus" /\ queue[c] = <<>>

\* The one permit of a client: free, used by its menu thread, or taken by its token
\* management, which does not take a second token meanwhile.
EinPermit(c) ==
  perm[c] + Eins(Steuert(c)) + Eins(manager[c] = "fragt")
    <= Eins(manager[c] \in {"gibtfrei", "fragt"})

Fach(c) ==
  /\ main[c] = "aus" => Unbekannt(c)
  /\ main[c] = "anmeldung" => Anmeldend(c)
  /\ main[c] = "bewegt" => Bewegend(c)
  /\ main[c] \in {"menue", "zeigt", "wartet", "fragt", "waehlt"} => Bedienend(c)
  /\ main[c] = "ende" => Beendet(c)
  /\ EinPermit(c)

NamenEinmal == \A c, d \in registered : nameVon[c] = nameVon[d] => c = d

PostInv == TypeOK /\ NamenEinmal /\ \A c \in Client : Fach(c)

-----------------------------------------------------------------------------
(***************************************************************************)
(* Queues.                                                                 *)
(***************************************************************************)

LEMMA KopfSchwanz ==
  ASSUME TypeOK, NEW c \in Client, queue[c] # <<>>, NEW typen, Nur(c, typen)
  PROVE  /\ Head(queue[c]).typ \in typen
         /\ Len(queue[c]) > 0 /\ Len(Genommen(c)[c]) = Len(queue[c]) - 1
         /\ \A i \in DOMAIN Genommen(c)[c] : Genommen(c)[c][i].typ \in typen
<1> DEFINE q == queue[c]
<1>1. q \in Seq(Antwort) /\ q # <<>> /\ \A i \in DOMAIN q : q[i].typ \in typen
  BY DEF TypeOK, Nur
<1>2. Genommen(c)[c] = Tail(q)
  BY DEF TypeOK, Genommen
<1> HIDE DEF q
<1>3. Len(q) > 0 /\ Head(q) = q[1] /\ 1 \in DOMAIN q
  BY <1>1
<1>4. Len(Tail(q)) = Len(q) - 1 /\ \A i \in DOMAIN Tail(q) : Tail(q)[i] = q[i + 1] /\ i + 1 \in DOMAIN q
  BY <1>1
<1> QED
  BY <1>1, <1>2, <1>3, <1>4 DEF q

LEMMA Angehaengt ==
  ASSUME TypeOK, NEW c \in Client, Lebt(c), NEW t, NEW liste, NEW typen, Nur(c, typen), t \in typen
  PROVE  /\ Len(Antworten(c, t, liste)[c]) = Len(queue[c]) + 1
         /\ \A i \in DOMAIN Antworten(c, t, liste)[c] : Antworten(c, t, liste)[c][i].typ \in typen
<1> DEFINE q == queue[c]
           a == [typ |-> t, list |-> liste]
<1>1. Antworten(c, t, liste)[c] = Append(q, a)
  BY DEF TypeOK, Antworten
<1>2. q \in Seq(Antwort) /\ \A i \in DOMAIN q : q[i].typ \in typen
  BY DEF TypeOK, Nur
<1>3. a.typ \in typen
  OBVIOUS
<1> HIDE DEF q, a
<1>4. /\ Len(Append(q, a)) = Len(q) + 1
      /\ \A i \in DOMAIN Append(q, a) : Append(q, a)[i] = IF i = Len(q) + 1 THEN a ELSE q[i]
      /\ \A i \in DOMAIN Append(q, a) : i = Len(q) + 1 \/ i \in DOMAIN q
  BY <1>2
<1> QED
  BY <1>1, <1>2, <1>3, <1>4 DEF q

-----------------------------------------------------------------------------
(***************************************************************************)
(* A step changes the compartment of one client.                           *)
(***************************************************************************)

Unveraendert(d) ==
  /\ main'[d] = main[d] /\ manager'[d] = manager[d] /\ perm'[d] = perm[d]
  /\ queue'[d] = queue[d] /\ anfragen'[d] = anfragen[d]
  /\ d \in auftraege' <=> d \in auftraege
  /\ d \in registered' <=> d \in registered

LEMMA FachBleibt ==
  ASSUME NEW d \in Client, Fach(d), Unveraendert(d)
  PROVE  Fach(d)'
  BY DEF Fach, Unveraendert, Unbekannt, Anmeldend, Bewegend, Bedienend, Beendet, EinPermit,
     Nur, Eins, Steuert

\* The other clients, and the entries, are left alone.
Allein(c) ==
  /\ \A d \in Client \ {c} : Unveraendert(d)
  /\ registered' = registered

LEMMA AlleinMenue ==
  ASSUME TypeOK, NEW c \in Client, ClientSchritt(c) \/ handle_list(c) \/ handleMove(c) \/ Zaehlen(c)
  PROVE  Allein(c)
<1> USE DEF Main, Nimmt, registryVars, Allein, Unveraendert
<1>1. CASE TokenFreigeben(c)
  BY <1>1 DEF TypeOK, TokenFreigeben
<1>2. CASE TokenHolen(c)
  BY <1>2 DEF TypeOK, TokenHolen, Gefragt
<1>3. CASE TokenWeitergeben(c)
  BY <1>3 DEF TypeOK, TokenWeitergeben, Genommen
<1>4. CASE TokenBehalten(c)
  BY <1>4 DEF TypeOK, TokenBehalten, Genommen
<1>5. CASE Angemeldet(c)
  BY <1>5 DEF TypeOK, Angemeldet, Genommen
<1>6. CASE Abgewiesen(c) \/ Beenden(c) \/ Absturz(c)
  BY <1>6 DEF TypeOK, Abgewiesen, Beenden, Absturz, Gestorben, Gefragt
<1>7. CASE ListeGezeigt(c)
  BY <1>7 DEF TypeOK, ListeGezeigt, Genommen
<1>8. CASE RoboterListe(c)
  BY <1>8 DEF TypeOK, RoboterListe, Genommen
<1>9. CASE Bewegt(c)
  BY <1>9 DEF TypeOK, Bewegt, Genommen
<1>10. CASE NichtGefunden(c)
  BY <1>10 DEF TypeOK, NichtGefunden
<1>11. CASE Bewegen(c)
  BY <1>11 DEF TypeOK, Bewegen
<1>12. CASE Steuern(c)
  BY <1>12 DEF TypeOK, Steuern, Gefragt
<1>13. CASE Starten(c)
  BY <1>13 DEF TypeOK, Starten, Gefragt
<1>14. CASE ListeZeigen(c)
  BY <1>14 DEF TypeOK, ListeZeigen, Gefragt
<1>15. CASE Warten(c)
  BY <1>15 DEF TypeOK, Warten
<1>16. CASE Ausnahme(c)
  BY <1>16 DEF TypeOK, Ausnahme
<1>17. CASE handle_list(c)
  BY <1>17 DEF TypeOK, handle_list, Behandelt, Antworten
<1>18. CASE handleMove(c)
  BY <1>18 DEF TypeOK, handleMove, Antworten
<1>19. CASE Zaehlen(c)
  BY <1>19 DEF TypeOK, Zaehlen
<1> QED
  BY <1>1, <1>2, <1>3, <1>4, <1>5, <1>6, <1>7, <1>8, <1>9,
     <1>10, <1>11, <1>12, <1>13, <1>14, <1>15, <1>16, <1>17, <1>18, <1>19
  DEF ClientSchritt, Manager, MainAntwort, Benutzer

-----------------------------------------------------------------------------
(***************************************************************************)
(* The compartment of the client that acts.                                *)
(***************************************************************************)

LEMMA Zahlen ==
  ASSUME TypeOK, NEW c \in Client
  PROVE  /\ anfragen[c]["REGISTER"] \in Nat /\ anfragen[c]["LIST"] \in Nat
         /\ anfragen[c]["UNREGISTER"] \in Nat
         /\ perm[c] \in Nat /\ Len(queue[c]) \in Nat
         /\ main[c] \in {"aus", "anmeldung", "menue", "zeigt", "wartet",
                         "fragt", "waehlt", "bewegt", "ende"}
         /\ manager[c] \in {"aus", "lauscht", "gibtfrei", "fragt", "tot"}
<1>1. queue[c] \in Seq(Antwort)
  BY DEF TypeOK
<1> QED
  BY <1>1 DEF TypeOK, AnfrageTyp

\* Where the token management runs, the client is in the menu, and not both threads use
\* the permit.
LEMMA ManagerLaeuft ==
  ASSUME TypeOK, NEW c \in Client, Fach(c), manager[c] # "aus"
  PROVE  /\ main[c] \in {"menue", "zeigt", "wartet", "fragt", "waehlt", "bewegt"}
         /\ manager[c] = "fragt" => ~Steuert(c) /\ main[c] # "bewegt" /\ perm[c] = 0 /\ Bedienend(c)
         /\ perm[c] > 0 => ~Steuert(c) /\ main[c] # "bewegt" /\ perm[c] = 1
                           /\ manager[c] = "gibtfrei" /\ Bedienend(c)
  BY Zahlen DEF Fach, Unbekannt, Anmeldend, Beendet, EinPermit, Eins, Steuert

LEMMA FachManager ==
  ASSUME TypeOK, NEW c \in Client, Fach(c), Manager(c)
  PROVE  Fach(c)'
<1> USE Zahlen DEF registryVars
<1>1. CASE TokenFreigeben(c)
  <2>1. manager[c] = "lauscht" /\ manager'[c] = "gibtfrei" /\ perm'[c] = perm[c] + 1
    BY <1>1 DEF TypeOK, TokenFreigeben
  <2>2. /\ main' = main /\ queue' = queue /\ anfragen' = anfragen
        /\ auftraege' = auftraege /\ registered' = registered
    BY <1>1 DEF TokenFreigeben
  <2>3. EinPermit(c)'
    BY <2>1, <2>2 DEF Fach, EinPermit, Eins, Steuert
  <2> QED
    BY <2>1, <2>2, <2>3, ManagerLaeuft DEF Fach, Bewegend, Bedienend, Nur, Eins
<1>2. CASE TokenHolen(c)
  <2>1. /\ manager[c] = "gibtfrei" /\ manager'[c] = "fragt"
        /\ perm[c] > 0 /\ perm'[c] = perm[c] - 1
        /\ anfragen'[c] = [anfragen[c] EXCEPT !["LIST"] = @ + 1]
    BY <1>2 DEF TypeOK, TokenHolen, Gefragt
  <2>2. /\ main' = main /\ queue' = queue
        /\ auftraege' = auftraege /\ registered' = registered
    BY <1>2 DEF TokenHolen
  <2>3. /\ anfragen'[c]["LIST"] = anfragen[c]["LIST"] + 1
        /\ anfragen'[c]["REGISTER"] = anfragen[c]["REGISTER"]
        /\ anfragen'[c]["UNREGISTER"] = anfragen[c]["UNREGISTER"]
    BY <2>1 DEF TypeOK, AnfrageTyp
  <2>4. EinPermit(c)'
    BY <2>1, <2>2, ManagerLaeuft DEF EinPermit, Eins, Steuert
  <2>5. Bedienend(c)'
    BY <2>1, <2>2, <2>3, ManagerLaeuft, SMTT(30) DEF Bedienend, Nur, Eins
  <2> QED
    BY <2>1, <2>2, <2>4, <2>5, ManagerLaeuft DEF Fach
<1>3. CASE TokenWeitergeben(c) \/ TokenBehalten(c)
  <2>1. manager[c] = "fragt" /\ queue[c] # <<>>
    BY <1>3 DEF TokenWeitergeben, TokenBehalten
  <2>2. /\ main' = main /\ queue'[c] = Genommen(c)[c] /\ anfragen' = anfragen
        /\ auftraege' = auftraege /\ registered' = registered
    BY <1>3 DEF TokenWeitergeben, TokenBehalten
  <2>3. /\ Nur(c, {"LIST"}) /\ Bedienend(c) /\ ~Steuert(c) /\ perm[c] = 0
        /\ main[c] \in {"menue", "zeigt", "wartet", "fragt", "waehlt"}
    <3>1. Bedienend(c) /\ ~Steuert(c) /\ perm[c] = 0 /\ main[c] # "bewegt"
      BY <2>1, ManagerLaeuft
    <3>2. main[c] \in {"menue", "zeigt", "wartet", "fragt", "waehlt"}
      BY <2>1, <3>1, ManagerLaeuft
    <3> QED
      BY <3>1, <3>2 DEF Bedienend
  <2>4. /\ Head(queue[c]).typ = "LIST" /\ Len(queue'[c]) = Len(queue[c]) - 1
        /\ Nur(c, {"LIST"})'
    <3>1. /\ Head(queue[c]).typ \in {"LIST"} /\ Len(Genommen(c)[c]) = Len(queue[c]) - 1
          /\ \A i \in DOMAIN Genommen(c)[c] : Genommen(c)[c][i].typ \in {"LIST"}
      BY <2>1, <2>3, KopfSchwanz
    <3> QED
      BY <2>2, <3>1 DEF Nur
  <2>5. \/ manager'[c] = "lauscht" /\ perm'[c] = 0
        \/ manager'[c] = "gibtfrei" /\ perm'[c] = 1
    <3>1. CASE TokenWeitergeben(c)
      BY <2>3, <3>1 DEF TypeOK, TokenWeitergeben
    <3>2. CASE TokenBehalten(c)
      <4>1. /\ perm' = [perm EXCEPT ![c] = @ + 1]
            /\ manager' = [manager EXCEPT ![c] = "gibtfrei"]
        BY <2>4, <3>2 DEF TokenBehalten
      <4> QED
        BY <2>3, <4>1 DEF TypeOK
    <3> QED
      BY <1>3, <3>1, <3>2
  <2>6. EinPermit(c)'
    <3>1. ~Steuert(c)'
      BY <2>2, <2>3 DEF Steuert
    <3> QED
      BY <2>5, <3>1 DEF EinPermit, Eins
  <2>7. Bedienend(c)'
    BY <2>1, <2>2, <2>3, <2>4, <2>5 DEF Bedienend, Eins
  <2> QED
    BY <2>2, <2>3, <2>6, <2>7 DEF Fach
<1> QED
  BY <1>1, <1>2, <1>3 DEF Manager

LEMMA Entnahme ==
  ASSUME TypeOK, NEW c \in Client, Nimmt(c), NEW typen, Nur(c, typen)
  PROVE  /\ Head(queue[c]).typ \in typen
         /\ Len(queue[c]) > 0 /\ Len(queue'[c]) = Len(queue[c]) - 1
         /\ \A i \in DOMAIN queue'[c] : queue'[c][i].typ \in typen
  BY KopfSchwanz DEF Nimmt

LEMMA GefragtWerte ==
  ASSUME TypeOK, NEW c \in Client, NEW t \in AnfrageTyp, NEW u \in AnfrageTyp
  PROVE  /\ Gefragt(c, t)[c][u] = anfragen[c][u] + Eins(u = t)
         /\ Behandelt(c, t)[c][u] = anfragen[c][u] - Eins(u = t)
  BY DEF TypeOK, Gefragt, Behandelt, Eins

LEMMA NurEines ==
  ASSUME NEW m \in Nat, NEW n \in Nat, m + n = 1, n > 0
  PROVE  m = 0 /\ n = 1
  OBVIOUS

LEMMA FachRegistrierung ==
  ASSUME TypeOK, NEW c \in Client, Fach(c), Starten(c) \/ Angemeldet(c)
  PROVE  Fach(c)'
<1> USE Zahlen DEF registryVars
<1>1. CASE Starten(c)
  <2>1. /\ main[c] = "aus" /\ main'[c] = "anmeldung"
        /\ anfragen' = Gefragt(c, "REGISTER")
        /\ UNCHANGED <<registered, manager, queue, perm, auftraege>>
    BY <1>1 DEF TypeOK, Starten, Main
  <2>2. Unbekannt(c) /\ EinPermit(c)
    BY <2>1 DEF Fach
  <2>3. /\ anfragen'[c]["REGISTER"] = 1 /\ anfragen'[c]["UNREGISTER"] = 0
        /\ anfragen'[c]["LIST"] = 0
    <3>1. /\ anfragen'[c]["REGISTER"] = anfragen[c]["REGISTER"] + 1
          /\ anfragen'[c]["UNREGISTER"] = anfragen[c]["UNREGISTER"] + 0
          /\ anfragen'[c]["LIST"] = anfragen[c]["LIST"] + 0
      BY <2>1, GefragtWerte DEF AnfrageTyp, Eins
    <3> QED
      BY <2>2, <3>1 DEF Unbekannt
  <2>4. Anmeldend(c)'
    BY <2>1, <2>2, <2>3 DEF Unbekannt, Anmeldend, Nur
  <2>5. EinPermit(c)'
    BY <2>1, <2>2 DEF EinPermit, Eins, Steuert
  <2> QED
    BY <2>1, <2>4, <2>5 DEF Fach
<1>2. CASE Angemeldet(c)
  <2>1. /\ main[c] = "anmeldung" /\ main'[c] = "menue" /\ manager'[c] = "lauscht"
        /\ UNCHANGED <<registered, anfragen, perm, auftraege>>
        /\ Nimmt(c) /\ Head(queue[c]).typ = "REGISTER_RESPONSE"
    BY <1>2 DEF TypeOK, Angemeldet, Main
  <2>2. Anmeldend(c) /\ EinPermit(c)
    BY <2>1 DEF Fach
  <2>3. /\ Head(queue[c]).typ \in {IF c \in registered THEN "REGISTER_RESPONSE" ELSE "ERROR"}
        /\ Len(queue[c]) > 0 /\ Len(queue'[c]) = Len(queue[c]) - 1
    BY <2>1, <2>2, Entnahme DEF Anmeldend
  <2>4. /\ c \in registered /\ anfragen[c]["REGISTER"] = 0 /\ Len(queue'[c]) = 0
    <3>1. c \in registered
      BY <2>1, <2>3
    <3>2. anfragen[c]["REGISTER"] + Len(queue[c]) = 1
      BY <2>2 DEF Anmeldend
    <3>3. anfragen[c]["REGISTER"] \in Nat /\ Len(queue[c]) \in Nat
      BY Zahlen
    <3>4. anfragen[c]["REGISTER"] = 0 /\ Len(queue[c]) = 1
      BY <2>3, <3>2, <3>3, NurEines
    <3> QED
      BY <2>3, <3>1, <3>4
  <2>5. Nur(c, {"LIST"})'
    <3>1. queue'[c] \in Seq(Antwort)
      BY <2>1, GenommenTyp DEF Nimmt
    <3>2. DOMAIN queue'[c] = {}
      BY <2>4, <3>1
    <3> QED
      BY <3>2 DEF Nur
  <2>6. Bedienend(c)'
    BY <2>1, <2>2, <2>4, <2>5 DEF Anmeldend, Bedienend, Eins
  <2>7. EinPermit(c)'
    BY <2>1, <2>2 DEF Anmeldend, EinPermit, Eins, Steuert
  <2> QED
    BY <2>1, <2>6, <2>7 DEF Fach
<1> QED
  BY <1>1, <1>2

\* Steps from one place of the menu to another with nothing but lists on their way.
LEMMA FachMenue ==
  ASSUME TypeOK, NEW c \in Client, Fach(c),
         \/ ListeZeigen(c) \/ ListeGezeigt(c) \/ Warten(c) \/ Steuern(c)
         \/ RoboterListe(c) \/ NichtGefunden(c) \/ Ausnahme(c)
  PROVE  Fach(c)'
<1> USE Zahlen DEF registryVars
<1> DEFINE Menue == {"menue", "zeigt", "wartet", "fragt", "waehlt"}
<1>1. /\ main[c] \in Menue /\ main'[c] \in Menue
      /\ UNCHANGED <<registered, manager, auftraege>>
  BY DEF TypeOK, ListeZeigen, ListeGezeigt, Warten, Steuern, RoboterListe, NichtGefunden,
     Ausnahme, Main
<1>2. Bedienend(c) /\ EinPermit(c)
  BY <1>1 DEF Fach
<1>3. CASE Warten(c) \/ NichtGefunden(c) \/ Ausnahme(c)
  <2>1. /\ queue' = queue /\ anfragen' = anfragen
        /\ main[c] \notin {"zeigt", "fragt"} /\ main'[c] \in {"menue", "wartet"}
    BY <1>3 DEF TypeOK, Warten, NichtGefunden, Ausnahme, Main
  <2>2. perm'[c] = perm[c] \/ (perm'[c] = perm[c] + 1 /\ main[c] = "waehlt")
    BY <1>3 DEF TypeOK, Warten, NichtGefunden, Ausnahme, Main
  <2>3. Bedienend(c)'
    BY <1>1, <1>2, <2>1 DEF Bedienend, Nur, Eins
  <2>4. EinPermit(c)'
    BY <1>1, <1>2, <2>1, <2>2 DEF EinPermit, Eins, Steuert
  <2> QED
    BY <1>1, <2>3, <2>4 DEF Fach
<1>4. CASE ListeZeigen(c) \/ Steuern(c)
  <2>1. /\ queue' = queue /\ anfragen' = Gefragt(c, "LIST")
        /\ \/ main[c] = "menue" /\ main'[c] = "zeigt" /\ perm'[c] = perm[c]
           \/ /\ main[c] = "wartet" /\ main'[c] = "fragt"
              /\ perm[c] > 0 /\ perm'[c] = perm[c] - 1
    BY <1>4 DEF TypeOK, ListeZeigen, Steuern, Main
  <2>2. /\ anfragen'[c]["REGISTER"] = anfragen[c]["REGISTER"]
        /\ anfragen'[c]["UNREGISTER"] = anfragen[c]["UNREGISTER"]
        /\ anfragen'[c]["LIST"] = anfragen[c]["LIST"] + 1
    BY <2>1, GefragtWerte DEF AnfrageTyp, Eins
  <2>3. Bedienend(c)'
    BY <1>1, <1>2, <2>1, <2>2 DEF Bedienend, Nur, Eins
  <2>4. EinPermit(c)'
    BY <1>1, <1>2, <2>1 DEF EinPermit, Eins, Steuert
  <2> QED
    BY <1>1, <2>3, <2>4 DEF Fach
<1>5. CASE ListeGezeigt(c) \/ RoboterListe(c)
  <2>1. Nimmt(c) /\ anfragen' = anfragen /\ perm' = perm
    BY <1>5 DEF ListeGezeigt, RoboterListe
  <2>2. /\ Len(queue[c]) > 0 /\ Len(queue'[c]) = Len(queue[c]) - 1
        /\ Nur(c, {"LIST"})'
    BY <1>2, <2>1, Entnahme DEF Bedienend, Nur
  <2>3. \/ main[c] = "zeigt" /\ main'[c] = "menue"
        \/ main[c] = "fragt" /\ main'[c] \in {"waehlt", "menue"}
    BY <1>5 DEF TypeOK, ListeGezeigt, RoboterListe, Main
  <2>4. Bedienend(c)'
    BY <1>1, <1>2, <2>1, <2>2, <2>3, SMTT(30) DEF Bedienend, Eins
  <2>5. EinPermit(c)'
    BY <1>1, <1>2, <2>1, <2>3 DEF EinPermit, Eins, Steuert
  <2> QED
    BY <1>1, <2>4, <2>5 DEF Fach
<1> QED
  BY <1>3, <1>4, <1>5

LEMMA LeereQueue ==
  ASSUME TypeOK', NEW c \in Client, Len(queue'[c]) = 0, NEW typen
  PROVE  \A i \in DOMAIN queue'[c] : queue'[c][i].typ \in typen
<1>1. queue'[c] \in Seq(Antwort)
  BY DEF TypeOK
<1> QED
  BY <1>1

LEMMA FachBewegen ==
  ASSUME TypeOK, TypeOK', NEW c \in Client, Fach(c), Bewegen(c) \/ Bewegt(c)
  PROVE  Fach(c)'
<1> USE Zahlen DEF registryVars
<1>1. CASE Bewegen(c)
  <2>1. /\ main[c] = "waehlt" /\ main'[c] = "bewegt" /\ c \in auftraege'
        /\ UNCHANGED <<registered, anfragen, manager, queue, perm>>
    BY <1>1 DEF TypeOK, Bewegen, Main
  <2>2. Bedienend(c) /\ EinPermit(c)
    BY <2>1 DEF Fach
  <2>3. manager[c] # "fragt"
    BY <2>1, ManagerLaeuft DEF Steuert
  <2>4. Len(queue[c]) = 0 /\ anfragen[c]["LIST"] = 0
    <3>1. anfragen[c]["LIST"] + Len(queue[c]) = 0
      BY <2>1, <2>2, <2>3 DEF Bedienend, Eins
    <3>2. anfragen[c]["LIST"] \in Nat /\ Len(queue[c]) \in Nat
      BY Zahlen
    <3> QED
      BY <3>1, <3>2
  <2>5. Nur(c, {"MOVE_RESPONSE"})'
    <3>1. Len(queue'[c]) = 0
      BY <2>1, <2>4
    <3> QED
      BY <3>1, LeereQueue DEF Nur
  <2>6. Bewegend(c)'
    BY <2>1, <2>2, <2>4, <2>5 DEF Bedienend, Bewegend, Eins
  <2>7. EinPermit(c)'
    BY <2>1, <2>2 DEF EinPermit, Eins, Steuert
  <2> QED
    BY <2>1, <2>6, <2>7 DEF Fach
<1>2. CASE Bewegt(c)
  <2>1. /\ main[c] = "bewegt" /\ main'[c] = "menue" /\ perm'[c] = perm[c] + 1
        /\ UNCHANGED <<registered, anfragen, manager, auftraege>>
        /\ Nimmt(c)
    BY <1>2 DEF TypeOK, Bewegt, Main
  <2>2. Bewegend(c) /\ EinPermit(c)
    BY <2>1 DEF Fach
  <2>3. manager[c] # "fragt"
    BY <2>1, ManagerLaeuft DEF Steuert
  <2>4. Len(queue[c]) > 0 /\ Len(queue'[c]) = Len(queue[c]) - 1
    BY <2>1, <2>2, Entnahme DEF Bewegend
  <2>5. c \notin auftraege /\ Len(queue'[c]) = 0
    <3>1. Eins(c \in auftraege) \in Nat /\ Len(queue[c]) \in Nat
      BY Zahlen DEF Eins
    <3>2. Eins(c \in auftraege) + Len(queue[c]) = 1
      BY <2>2 DEF Bewegend
    <3>3. Eins(c \in auftraege) = 0 /\ Len(queue[c]) = 1
      BY <2>4, <3>1, <3>2, NurEines
    <3> QED
      BY <2>4, <3>3 DEF Eins
  <2>6. Nur(c, {"LIST"})'
    BY <2>5, LeereQueue DEF Nur
  <2>7. Bedienend(c)'
    BY <2>1, <2>2, <2>3, <2>5, <2>6 DEF Bewegend, Bedienend, Eins
  <2>8. EinPermit(c)'
    BY <2>1, <2>2 DEF EinPermit, Eins, Steuert
  <2> QED
    BY <2>1, <2>7, <2>8 DEF Fach
<1> QED
  BY <1>1, <1>2

\* Whatever is left of a client that ends: a REGISTER that makes it a dead entry, or one
\* UNREGISTER for its own entry.
LEMMA FachEnde ==
  ASSUME TypeOK, NEW c \in Client, Fach(c), Abgewiesen(c) \/ Beenden(c) \/ Absturz(c)
  PROVE  Fach(c)'
<1> USE Zahlen DEF registryVars
<1>1. /\ main'[c] = "ende" /\ manager'[c] = "aus" /\ perm'[c] = 0 /\ queue'[c] = <<>>
      /\ registered' = registered
  BY DEF TypeOK, Abgewiesen, Beenden, Absturz, Gestorben
<1>2. EinPermit(c)'
  BY <1>1 DEF EinPermit, Eins, Steuert
<1>3. main[c] \notin {"aus", "ende"}
  BY DEF Abgewiesen, Beenden, Absturz, Lebt
<1>4. /\ anfragen[c]["UNREGISTER"] = 0 /\ anfragen[c]["REGISTER"] <= 1
      /\ anfragen[c]["REGISTER"] > 0 => c \notin registered
      /\ main[c] # "anmeldung" => c \in registered /\ anfragen[c]["REGISTER"] = 0
  <2>1. CASE main[c] = "anmeldung"
    BY <2>1 DEF Fach, Anmeldend
  <2>2. CASE main[c] # "anmeldung"
    <3>1. Bewegend(c) \/ Bedienend(c)
      BY <1>3, <2>2 DEF Fach
    <3> QED
      BY <2>2, <3>1 DEF Bewegend, Bedienend
  <2> QED
    BY <2>1, <2>2
<1>5. \/ anfragen' = anfragen
      \/ main[c] # "anmeldung" /\ anfragen' = Gefragt(c, "UNREGISTER")
  BY DEF Abgewiesen, Beenden, Absturz
<1>6. Beendet(c)'
  <2>1. CASE anfragen' = anfragen
    BY <1>1, <1>4, <2>1 DEF Beendet
  <2>2. CASE main[c] # "anmeldung" /\ anfragen' = Gefragt(c, "UNREGISTER")
    <3>1. /\ anfragen'[c]["REGISTER"] = anfragen[c]["REGISTER"]
          /\ anfragen'[c]["UNREGISTER"] = anfragen[c]["UNREGISTER"] + 1
      BY <2>2, GefragtWerte DEF AnfrageTyp, Eins
    <3> QED
      BY <1>1, <1>4, <2>2, <3>1 DEF Beendet
  <2> QED
    BY <1>5, <2>1, <2>2
<1> QED
  BY <1>1, <1>2, <1>6 DEF Fach

\* The registry and the robot answer; a client that is gone hears nothing.
LEMMA FachAntwort ==
  ASSUME TypeOK, NEW c \in Client, Fach(c), handle_list(c) \/ handleMove(c)
  PROVE  Fach(c)'
<1> USE Zahlen DEF registryVars
<1>1. /\ main' = main /\ manager' = manager /\ perm' = perm /\ registered' = registered
  BY DEF handle_list, handleMove
<1>2. EinPermit(c)'
  BY <1>1 DEF Fach, EinPermit, Eins, Steuert
<1>3. CASE handle_list(c)
  <2>1. /\ anfragen[c]["LIST"] > 0 /\ auftraege' = auftraege
        /\ queue' = Antworten(c, "LIST", registered)
        /\ anfragen' = Behandelt(c, "LIST")
    BY <1>3 DEF handle_list
  <2>2. /\ anfragen'[c]["REGISTER"] = anfragen[c]["REGISTER"]
        /\ anfragen'[c]["UNREGISTER"] = anfragen[c]["UNREGISTER"]
        /\ anfragen'[c]["LIST"] = anfragen[c]["LIST"] - 1
    BY <2>1, GefragtWerte DEF AnfrageTyp, Eins
  <2>3. main[c] \in {"menue", "zeigt", "wartet", "fragt", "waehlt"} \/ main[c] = "ende"
    BY <2>1 DEF Fach, Unbekannt, Anmeldend, Bewegend
  <2>4. CASE main[c] = "ende"
    <3>1. Beendet(c)'
      BY <1>1, <2>1, <2>2, <2>4 DEF Fach, Beendet, Antworten, Lebt
    <3> QED
      BY <1>1, <1>2, <2>4, <3>1 DEF Fach
  <2>5. CASE main[c] \in {"menue", "zeigt", "wartet", "fragt", "waehlt"}
    <3>1. Bedienend(c) /\ Lebt(c)
      BY <2>5 DEF Fach, Lebt
    <3>2. Nur(c, {"LIST"})
      BY <3>1 DEF Bedienend
    <3>3. Len(queue'[c]) = Len(queue[c]) + 1 /\ Nur(c, {"LIST"})'
      BY <2>1, <3>1, <3>2, Angehaengt DEF Nur
    <3>4. Bedienend(c)'
      BY <1>1, <2>1, <2>2, <3>1, <3>3 DEF Bedienend, Eins
    <3> QED
      BY <1>1, <1>2, <2>5, <3>4 DEF Fach
  <2> QED
    BY <2>3, <2>4, <2>5
<1>4. CASE handleMove(c)
  <2>1. /\ c \in auftraege /\ c \notin auftraege' /\ anfragen' = anfragen
        /\ queue' = Antworten(c, "MOVE_RESPONSE", {})
    BY <1>4 DEF handleMove
  <2>2. main[c] = "bewegt" \/ main[c] = "ende"
    BY <2>1 DEF Fach, Unbekannt, Anmeldend, Bedienend
  <2>3. CASE main[c] = "ende"
    <3>1. Beendet(c)'
      BY <1>1, <2>1, <2>3 DEF Fach, Beendet, Antworten, Lebt
    <3> QED
      BY <1>1, <1>2, <2>3, <3>1 DEF Fach
  <2>4. CASE main[c] = "bewegt"
    <3>1. Bewegend(c) /\ Lebt(c)
      BY <2>4 DEF Fach, Lebt
    <3>2. Nur(c, {"MOVE_RESPONSE"})
      BY <3>1 DEF Bewegend
    <3>3. Len(queue'[c]) = Len(queue[c]) + 1 /\ Nur(c, {"MOVE_RESPONSE"})'
      BY <2>1, <3>1, <3>2, Angehaengt DEF Nur
    <3>4. Eins(c \in auftraege) = 1 /\ Eins(c \in auftraege)' = 0
      BY <2>1 DEF Eins
    <3>5. Eins(c \in auftraege)' + Len(queue'[c]) = 1
      BY <3>1, <3>3, <3>4 DEF Bewegend
    <3>6. Bewegend(c)'
      BY <1>1, <2>1, <3>1, <3>3, <3>5 DEF Bewegend
    <3> QED
      BY <1>1, <1>2, <2>4, <3>6 DEF Fach
  <2> QED
    BY <2>2, <2>3, <2>4
<1> QED
  BY <1>3, <1>4

-----------------------------------------------------------------------------
(***************************************************************************)
(* The registry.                                                           *)
(***************************************************************************)

\* UNREGISTER comes from a client that has ended, for its own entry.
LEMMA AustragenEnde ==
  ASSUME TypeOK, NEW c \in Client, Fach(c), anfragen[c]["UNREGISTER"] > 0
  PROVE  /\ main[c] = "ende" /\ Beendet(c)
         /\ anfragen[c]["UNREGISTER"] = 1 /\ anfragen[c]["REGISTER"] = 0
<1>1. main[c] = "ende"
  BY Zahlen DEF Fach, Unbekannt, Anmeldend, Bewegend, Bedienend
<1>2. Beendet(c)
  BY <1>1 DEF Fach
<1>3. anfragen[c]["REGISTER"] \in Nat
  BY Zahlen
<1> QED
  BY <1>1, <1>2, <1>3 DEF Beendet

LEMMA RegistryAllein ==
  ASSUME PostInv, NEW c \in Client, Eintragen(c) \/ Austragen(c)
  PROVE  /\ \A d \in Client \ {c} : Unveraendert(d)
         /\ NamenEinmal'
<1> USE DEF registryVars
<1>1. CASE Eintragen(c)
  <2>1. \A d \in Client \ {c} : Unveraendert(d)
    BY <1>1 DEF PostInv, TypeOK, Eintragen, Behandelt, Antworten, Unveraendert
  <2>2. CASE registered' = registered
    BY <2>1, <2>2 DEF PostInv, NamenEinmal
  <2>3. CASE registered' # registered
    <3>1. /\ \A d \in registered : nameVon[d] # nameVon[c]
          /\ registered' = registered \cup {c}
      BY <1>1, <2>3 DEF Eintragen
    <3> QED
      BY <2>1, <3>1 DEF PostInv, NamenEinmal
  <2> QED
    BY <2>2, <2>3
<1>2. CASE Austragen(c)
  <2>1. c \in registered
    BY <1>2, AustragenEnde DEF PostInv, Beendet, Austragen
  <2>2. registered' = registered \ {c}
    <3>1. \A d \in registered : nameVon[d] = nameVon[c] <=> d = c
      BY <2>1 DEF PostInv, NamenEinmal
    <3>2. registered' = {d \in registered : nameVon[d] # nameVon[c]}
      BY <1>2 DEF Austragen
    <3> QED
      BY <3>1, <3>2
  <2>3. NamenEinmal'
    BY <2>2 DEF PostInv, NamenEinmal
  <2>4. \A d \in Client \ {c} : Unveraendert(d)
    BY <1>2, <2>2 DEF PostInv, TypeOK, Austragen, Behandelt, Unveraendert
  <2> QED
    BY <2>3, <2>4
<1> QED
  BY <1>1, <1>2

LEMMA FachAustragen ==
  ASSUME PostInv, NEW c \in Client, Austragen(c)
  PROVE  Fach(c)'
<1> USE Zahlen DEF registryVars
<1>1. TypeOK /\ Fach(c)
  BY DEF PostInv
<1>2. /\ anfragen[c]["UNREGISTER"] > 0 /\ anfragen' = Behandelt(c, "UNREGISTER")
      /\ UNCHANGED <<main, manager, queue, perm, auftraege>>
  BY DEF Austragen
<1>3. /\ main[c] = "ende" /\ Beendet(c)
      /\ anfragen[c]["UNREGISTER"] = 1 /\ anfragen[c]["REGISTER"] = 0
  BY <1>1, <1>2, AustragenEnde
<1>4. anfragen'[c]["UNREGISTER"] = 0 /\ anfragen'[c]["REGISTER"] = 0
  <2>1. /\ anfragen'[c]["REGISTER"] = anfragen[c]["REGISTER"] - 0
        /\ anfragen'[c]["UNREGISTER"] = anfragen[c]["UNREGISTER"] - 1
    BY <1>1, <1>2, GefragtWerte DEF AnfrageTyp, Eins
  <2> QED
    BY <1>3, <2>1
<1>5. Beendet(c)' /\ EinPermit(c)'
  BY <1>1, <1>2, <1>3, <1>4 DEF Fach, Beendet, EinPermit, Eins, Steuert
<1> QED
  BY <1>2, <1>3, <1>5 DEF Fach

LEMMA FachEintragen ==
  ASSUME PostInv, NEW c \in Client, Eintragen(c)
  PROVE  Fach(c)'
<1> USE Zahlen DEF registryVars
<1>1. TypeOK /\ Fach(c)
  BY DEF PostInv
<1>2. /\ anfragen[c]["REGISTER"] > 0 /\ anfragen' = Behandelt(c, "REGISTER")
      /\ UNCHANGED <<main, manager, perm, auftraege>>
  BY DEF Eintragen
<1>3. /\ anfragen'[c]["REGISTER"] = anfragen[c]["REGISTER"] - 1
      /\ anfragen'[c]["UNREGISTER"] = anfragen[c]["UNREGISTER"]
      /\ anfragen'[c]["LIST"] = anfragen[c]["LIST"]
  BY <1>1, <1>2, GefragtWerte DEF AnfrageTyp, Eins
<1>4. main[c] \in {"anmeldung", "ende"}
  BY <1>1, <1>2 DEF Fach, Unbekannt, Bewegend, Bedienend
<1>5. EinPermit(c)'
  BY <1>1, <1>2 DEF Fach, EinPermit, Eins, Steuert
<1>6. CASE main[c] = "ende"
  <2>1. queue' = queue
    BY <1>6 DEF Eintragen, Antworten, Lebt
  <2>2. Beendet(c)
    BY <1>1, <1>6 DEF Fach
  <2>3. anfragen[c]["REGISTER"] = 1
    BY <1>1, <1>2, <2>2 DEF Beendet
  <2>4. Beendet(c)'
    BY <1>2, <1>3, <2>1, <2>2, <2>3 DEF Beendet
  <2> QED
    BY <1>2, <1>5, <1>6, <2>4 DEF Fach
<1>7. CASE main[c] = "anmeldung"
  <2>1. Anmeldend(c) /\ Lebt(c)
    BY <1>1, <1>7 DEF Fach, Lebt
  <2>2. anfragen[c]["REGISTER"] = 1 /\ Len(queue[c]) = 0 /\ c \notin registered
    <3>1. anfragen[c]["REGISTER"] \in Nat /\ Len(queue[c]) \in Nat
      BY <1>1, Zahlen
    <3>2. Len(queue[c]) + anfragen[c]["REGISTER"] = 1
      BY <2>1, <3>1 DEF Anmeldend
    <3>3. anfragen[c]["REGISTER"] = 1 /\ Len(queue[c]) = 0
      BY <1>2, <3>1, <3>2, NurEines
    <3> QED
      BY <2>1, <3>3 DEF Anmeldend
  <2>3. \A typen : Nur(c, typen)
    <3>1. DOMAIN queue[c] = {}
      <4>1. queue[c] \in Seq(Antwort)
        BY <1>1 DEF TypeOK
      <4> QED
        BY <2>2, <4>1
    <3> QED
      BY <3>1 DEF Nur
  <2>4. \/ queue' = Antworten(c, "ERROR", {}) /\ c \notin registered'
        \/ queue' = Antworten(c, "REGISTER_RESPONSE", {}) /\ c \in registered'
    BY <2>2 DEF Eintragen
  <2>5. /\ Len(queue'[c]) = 1
        /\ Nur(c, {IF c \in registered THEN "REGISTER_RESPONSE" ELSE "ERROR"})'
    <3>1. CASE queue' = Antworten(c, "ERROR", {}) /\ c \notin registered'
      <4>1. /\ Len(queue'[c]) = Len(queue[c]) + 1
            /\ \A i \in DOMAIN queue'[c] : queue'[c][i].typ \in {"ERROR"}
        BY <1>1, <2>1, <2>3, <3>1, Angehaengt
      <4> QED
        BY <2>2, <3>1, <4>1 DEF Nur
    <3>2. CASE queue' = Antworten(c, "REGISTER_RESPONSE", {}) /\ c \in registered'
      <4>1. /\ Len(queue'[c]) = Len(queue[c]) + 1
            /\ \A i \in DOMAIN queue'[c] : queue'[c][i].typ \in {"REGISTER_RESPONSE"}
        BY <1>1, <2>1, <2>3, <3>2, Angehaengt
      <4> QED
        BY <2>2, <3>2, <4>1 DEF Nur
    <3> QED
      BY <2>4, <3>1, <3>2
  <2>6. Anmeldend(c)'
    BY <1>2, <1>3, <2>1, <2>2, <2>5 DEF Anmeldend
  <2> QED
    BY <1>2, <1>5, <1>7, <2>6 DEF Fach
<1> QED
  BY <1>4, <1>6, <1>7

-----------------------------------------------------------------------------
(***************************************************************************)
(* The invariant and what follows from it.                                 *)
(***************************************************************************)

LEMMA PostInit == Init => PostInv
<1> SUFFICES ASSUME Init
             PROVE  PostInv
  OBVIOUS
<1>1. ASSUME NEW c \in Client
      PROVE  Fach(c)
  BY DEF Init, AnfrageTyp, Fach, Unbekannt, EinPermit, Eins, Steuert
<1>2. NamenEinmal
  BY DEF Init, NamenEinmal
<1> QED
  BY <1>1, <1>2, TypInit DEF PostInv

LEMMA FachSchritt ==
  ASSUME PostInv, TypeOK', NEW c \in Client,
         ClientSchritt(c) \/ handle_list(c) \/ handleMove(c) \/ Zaehlen(c)
  PROVE  Fach(c)'
<1>1. TypeOK /\ Fach(c)
  BY DEF PostInv
<1>2. CASE Zaehlen(c)
  <2>1. Unveraendert(c)
    BY <1>2 DEF Zaehlen, Unveraendert
  <2> QED
    BY <1>1, <2>1, FachBleibt
<1>3. CASE ClientSchritt(c)
  BY <1>1, <1>3, FachManager, FachRegistrierung, FachMenue, FachBewegen, FachEnde
  DEF ClientSchritt, MainAntwort, Benutzer
<1>4. CASE handle_list(c) \/ handleMove(c)
  BY <1>1, <1>4, FachAntwort
<1> QED
  BY <1>2, <1>3, <1>4

LEMMA PostSchritt == PostInv /\ [Next]_vars => PostInv'
<1> SUFFICES ASSUME PostInv, [Next]_vars
             PROVE  PostInv'
  OBVIOUS
<1>1. TypeOK'
  BY TypSchritt DEF PostInv
<1>2. ASSUME NEW c \in Client, Fach(c)', NamenEinmal', \A d \in Client \ {c} : Unveraendert(d)
      PROVE  PostInv'
  <2>1. \A d \in Client \ {c} : Fach(d)'
    BY <1>2, FachBleibt DEF PostInv
  <2> QED
    BY <1>1, <1>2, <2>1 DEF PostInv
<1>3. ASSUME NEW c \in Client,
             ClientSchritt(c) \/ handle_list(c) \/ handleMove(c) \/ Zaehlen(c)
      PROVE  PostInv'
  <2>1. Allein(c)
    BY <1>3, AlleinMenue DEF PostInv
  <2>2. NamenEinmal'
    BY <2>1 DEF Allein, PostInv, NamenEinmal
  <2> QED
    BY <1>1, <1>2, <1>3, <2>1, <2>2, FachSchritt DEF Allein
<1>4. ASSUME NEW c \in Client, Eintragen(c) \/ Austragen(c)
      PROVE  PostInv'
  BY <1>2, <1>4, RegistryAllein, FachEintragen, FachAustragen
<1>5. CASE UNCHANGED vars
  <2>1. \A c \in Client : Unveraendert(c)
    BY <1>5 DEF vars, Unveraendert
  <2>2. \A c \in Client : Fach(c)'
    BY <2>1, FachBleibt DEF PostInv
  <2>3. NamenEinmal'
    BY <1>5 DEF vars, PostInv, NamenEinmal
  <2> QED
    BY <1>1, <2>2, <2>3 DEF PostInv
<1> QED
  BY <1>3, <1>4, <1>5 DEF Next, Registry

LEMMA PostInvariante == Spec => []PostInv
  BY PostInit, PostSchritt, PTL DEF Spec

\* Although two threads take answers from one queue and no answer names its request:
\* every request and every answer on its way has exactly one thread that waits for it,
\* in every ring, whoever ends when and how.
THEOREM JedeAntwortErwartet == Spec => []AntwortenGehenAuf
<1>1. ASSUME PostInv, NEW c \in Client, Lebt(c)
      PROVE  Unterwegs(c) = Wartende(c)
  <2>1. TypeOK /\ Fach(c)
    BY <1>1 DEF PostInv
  <2>2. CASE main[c] = "anmeldung"
    BY <2>1, <2>2, Zahlen DEF Fach, Anmeldend, Unterwegs, Wartende, Eins
  <2>3. CASE main[c] = "bewegt"
    <3>1. manager[c] # "fragt"
      BY <2>1, <2>3, ManagerLaeuft
    <3>2. Bewegend(c)
      BY <2>1, <2>3 DEF Fach
    <3>3. Wartende(c) = 1
      BY <2>3, <3>1 DEF Wartende, Eins
    <3>4. Eins(c \in auftraege) \in Nat /\ Len(queue[c]) \in Nat
      BY <2>1, Zahlen DEF Eins
    <3>5. Unterwegs(c) = 0 + 0 + Eins(c \in auftraege) + Len(queue[c])
      BY <3>2 DEF Bewegend, Unterwegs
    <3>6. Eins(c \in auftraege) + Len(queue[c]) = 1
      BY <3>2 DEF Bewegend
    <3> QED
      BY <3>3, <3>4, <3>5, <3>6
  <2>4. CASE main[c] \in {"menue", "zeigt", "wartet", "fragt", "waehlt"}
    BY <2>1, <2>4, Zahlen DEF Fach, Bedienend, Unterwegs, Wartende, Eins
  <2> QED
    BY <1>1, <2>1, <2>2, <2>3, <2>4, Zahlen DEF Lebt
<1>2. PostInv => AntwortenGehenAuf
  BY <1>1 DEF AntwortenGehenAuf
<1> QED
  BY <1>2, PostInvariante, PTL

\* No thread takes an answer of a kind it does not wait for: the token management never
\* gets the robot's answer, nor the menu thread a list instead of it.
THEOREM RichtigeAntwort == Spec => []AntwortPasst
<1>1. ASSUME PostInv, NEW c \in Client
      PROVE  Nur(c, IF main[c] = "anmeldung" THEN {"REGISTER_RESPONSE", "ERROR"}
                    ELSE IF main[c] = "bewegt" THEN {"MOVE_RESPONSE"}
                    ELSE {"LIST"})
  <2>1. TypeOK /\ Fach(c)
    BY <1>1 DEF PostInv
  <2>2. CASE main[c] = "anmeldung"
    BY <2>1, <2>2 DEF Fach, Anmeldend, Nur
  <2>3. CASE main[c] = "bewegt"
    BY <2>1, <2>3 DEF Fach, Bewegend
  <2>4. CASE main[c] \in {"menue", "zeigt", "wartet", "fragt", "waehlt"}
    BY <2>1, <2>4 DEF Fach, Bedienend
  <2>5. CASE main[c] \in {"aus", "ende"}
    <3>1. queue[c] = <<>>
      BY <2>1, <2>5 DEF Fach, Unbekannt, Beendet
    <3> QED
      BY <3>1 DEF Nur
  <2> QED
    BY <2>1, <2>2, <2>3, <2>4, <2>5, Zahlen
<1>2. PostInv => AntwortPasst
  BY <1>1 DEF AntwortPasst, Nur
<1> QED
  BY <1>2, PostInvariante, PTL

\* Although UNREGISTER names an entry and not a client, no other client, rejected, ended
\* or started with the same name, takes a living client out of the list.
THEOREM EintragBleibt == Spec => []BleibtEingetragen
<1>1. PostInv => BleibtEingetragen
  BY Zahlen DEF PostInv, Fach, Bewegend, Bedienend, BleibtEingetragen
<1> QED
  BY <1>1, PostInvariante, PTL

-----------------------------------------------------------------------------
(***************************************************************************)
(* The token is not lost, as long as no client is ended and no exception   *)
(* ends the control of the robot.                                          *)
(***************************************************************************)

\* Only a living, entered client is ever sent a token or named in a list.
Eingetragen(c) ==
  /\ c \in registered => Lebt(c)
  /\ c \notin registered => comToken[c] = 0
  /\ main[c] = "ende" => anfragen[c]["REGISTER"] = 0
  /\ \A i \in DOMAIN queue[c] : queue[c][i].list \subseteq registered

NichtVerloren == NochNichtGezaehlt \/ \E c \in Client : Tokens(c) > 0

TokenInv == IInv /\ PostInv /\ NichtVerloren /\ \A c \in Client : Eingetragen(c)

LEMMA OhneEintrag ==
  ASSUME PostInv, NEW c \in Client, c \notin registered
  PROVE  manager[c] = "aus" /\ perm[c] = 0 /\ ~Steuert(c)
<1>1. TypeOK /\ Fach(c)
  BY DEF PostInv
<1>2. main[c] \in {"aus", "anmeldung", "ende"}
  BY <1>1, Zahlen DEF Fach, Bewegend, Bedienend
<1>3. manager[c] = "aus"
  BY <1>1, <1>2 DEF Fach, Unbekannt, Anmeldend, Beendet
<1> QED
  BY <1>1, <1>2, <1>3, Zahlen DEF Fach, EinPermit, Eins, Steuert

LEMMA AbgewiesenOhneEintrag ==
  ASSUME PostInv, NEW c \in Client, Abgewiesen(c)
  PROVE  c \notin registered /\ anfragen[c]["REGISTER"] = 0
<1>1. TypeOK /\ Fach(c) /\ main[c] = "anmeldung"
  BY DEF PostInv, Abgewiesen
<1>2. Anmeldend(c) /\ queue[c] # <<>> /\ Head(queue[c]).typ = "ERROR"
  BY <1>1 DEF Fach, Abgewiesen
<1>3. /\ Head(queue[c]).typ \in {IF c \in registered THEN "REGISTER_RESPONSE" ELSE "ERROR"}
      /\ Len(queue[c]) > 0
  BY <1>1, <1>2, KopfSchwanz DEF Anmeldend
<1>4. anfragen[c]["REGISTER"] \in Nat /\ Len(queue[c]) \in Nat
  BY <1>1, Zahlen
<1>5. anfragen[c]["REGISTER"] + Len(queue[c]) = 1
  BY <1>2 DEF Anmeldend
<1> QED
  BY <1>2, <1>3, <1>4, <1>5, NurEines

\* With the right answers only, and nobody ended, the threads of a client never drop the
\* token.
LEMMA UngestoerterSchritt ==
  ASSUME ~MitEnde, ~MitAbsturz, ~MitAusnahmen, PostInv, NEW c \in Client,
         ClientSchritt(c) \/ handle_list(c) \/ handleMove(c)
  PROVE  Behaltend(c) \/ TokenWeitergeben(c) \/ Abgewiesen(c)
<1>1. TypeOK /\ Fach(c)
  BY DEF PostInv
<1>2. ASSUME TokenBehalten(c) \/ RoboterListe(c)
      PROVE  Head(queue[c]).typ = "LIST"
  <2>1. queue[c] # <<>> /\ (manager[c] = "fragt" \/ main[c] = "fragt")
    BY <1>2 DEF TokenBehalten, RoboterListe, Nimmt, Main
  <2>2. Bedienend(c)
    <3>1. CASE main[c] = "fragt"
      BY <1>1, <3>1 DEF Fach
    <3>2. CASE manager[c] = "fragt"
      BY <1>1, <3>2, ManagerLaeuft
    <3> QED
      BY <2>1, <3>1, <3>2
  <2>3. Head(queue[c]).typ \in {"LIST"}
    BY <1>1, <2>1, <2>2, KopfSchwanz DEF Bedienend
  <2> QED
    BY <2>3
<1>3. ASSUME Angemeldet(c)
      PROVE  manager[c] # "fragt"
  BY <1>1, <1>3 DEF Angemeldet, Main, Fach, Anmeldend
<1> QED
  BY <1>2, <1>3 DEF ClientSchritt, Manager, MainAntwort, Benutzer, Behaltend, Ausnahme,
     Beenden, Absturz

Typen == {"REGISTER_RESPONSE", "ERROR", "LIST", "MOVE_RESPONSE"}

LEMMA ListenBleiben ==
  ASSUME TypeOK, NEW c \in Client, Eingetragen(c), registered \subseteq registered',
         \/ queue'[c] \in {queue[c], <<>>}
         \/ queue[c] # <<>> /\ queue'[c] = Genommen(c)[c]
         \/ \E t \in Typen, liste \in {{}, registered} : queue'[c] = Antworten(c, t, liste)[c]
  PROVE  \A i \in DOMAIN queue'[c] : queue'[c][i].list \subseteq registered'
<1> DEFINE q == queue[c]
<1>1. q \in Seq(Antwort) /\ \A i \in DOMAIN q : q[i].list \subseteq registered'
  BY DEF TypeOK, Eingetragen
<1>2. CASE queue'[c] \in {queue[c], <<>>}
  BY <1>1, <1>2
<1>3. CASE queue[c] # <<>> /\ queue'[c] = Genommen(c)[c]
  <2>1. queue'[c] = Tail(q) /\ q # <<>>
    BY <1>3 DEF TypeOK, Genommen
  <2> HIDE DEF q
  <2>2. \A i \in DOMAIN Tail(q) : Tail(q)[i] = q[i + 1] /\ i + 1 \in DOMAIN q
    BY <1>1, <2>1
  <2> QED
    BY <1>1, <2>1, <2>2
<1>4. CASE \E t \in Typen, liste \in {{}, registered} : queue'[c] = Antworten(c, t, liste)[c]
  <2>1. PICK t \in Typen, liste \in {{}, registered} : queue'[c] = Antworten(c, t, liste)[c]
    BY <1>4
  <2> DEFINE a == [typ |-> t, list |-> liste]
  <2>2. queue'[c] = Append(q, a) \/ queue'[c] = q
    BY <2>1 DEF TypeOK, Antworten
  <2>3. a.list \subseteq registered'
    OBVIOUS
  <2> HIDE DEF q, a
  <2>4. /\ \A i \in DOMAIN Append(q, a) : Append(q, a)[i] = IF i = Len(q) + 1 THEN a ELSE q[i]
        /\ \A i \in DOMAIN Append(q, a) : i = Len(q) + 1 \/ i \in DOMAIN q
    BY <1>1
  <2> QED
    BY <1>1, <2>2, <2>3, <2>4
<1> QED
  BY <1>2, <1>3, <1>4

\* What one client does with its queue.
LEMMA QueueSchritt ==
  ASSUME TypeOK, NEW c \in Client,
         \/ Behaltend(c) \/ TokenWeitergeben(c) \/ Abgewiesen(c)
         \/ Zaehlen(c) \/ Eintragen(c)
  PROVE  \/ queue'[c] \in {queue[c], <<>>}
         \/ queue[c] # <<>> /\ queue'[c] = Genommen(c)[c]
         \/ \E t \in Typen, liste \in {{}, registered} : queue'[c] = Antworten(c, t, liste)[c]
<1>1. CASE handle_list(c) \/ handleMove(c) \/ Eintragen(c)
  <2>1. \/ queue' = Antworten(c, "LIST", registered)
        \/ queue' = Antworten(c, "MOVE_RESPONSE", {})
        \/ queue' = Antworten(c, "ERROR", {})
        \/ queue' = Antworten(c, "REGISTER_RESPONSE", {})
    BY <1>1 DEF handle_list, handleMove, Eintragen
  <2>2. /\ "LIST" \in Typen /\ "MOVE_RESPONSE" \in Typen
        /\ "ERROR" \in Typen /\ "REGISTER_RESPONSE" \in Typen
    BY DEF Typen
  <2>3. {} \in {{}, registered} /\ registered \in {{}, registered}
    OBVIOUS
  <2> QED
    BY <2>1, <2>2, <2>3
<1>2. CASE TokenBehalten(c) \/ TokenWeitergeben(c) \/ Angemeldet(c) \/ ListeGezeigt(c)
           \/ RoboterListe(c) \/ Bewegt(c)
  BY <1>2 DEF TokenBehalten, TokenWeitergeben, Angemeldet, ListeGezeigt, RoboterListe, Bewegt,
     Nimmt
<1>3. CASE TokenFreigeben(c) \/ TokenHolen(c) \/ NichtGefunden(c) \/ Bewegen(c) \/ Steuern(c)
           \/ Starten(c) \/ ListeZeigen(c) \/ Warten(c) \/ Zaehlen(c)
  BY <1>3 DEF TokenFreigeben, TokenHolen, NichtGefunden, Bewegen, Steuern, Starten, ListeZeigen,
     Warten, Zaehlen
<1>4. CASE Abgewiesen(c)
  BY <1>4 DEF TypeOK, Abgewiesen, Gestorben
<1> QED
  BY <1>1, <1>2, <1>3, <1>4 DEF Behaltend

\* The compartment after a step: a token comes to entered clients only.
LEMMA EingetragenSchritt ==
  ASSUME TokenInv, PostInv', NEW c \in Client,
         \/ Behaltend(c) \/ TokenWeitergeben(c) \/ Abgewiesen(c)
         \/ Zaehlen(c) \/ Eintragen(c)
  PROVE  \A d \in Client : Eingetragen(d)'
<1> USE DEF registryVars
<1>t. TypeOK /\ PostInv /\ IInv /\ TypeOK'
  BY DEF TokenInv, PostInv
<1>e. \A d \in Client : Eingetragen(d)
  BY DEF TokenInv
<1>1. registered \subseteq registered'
      /\ \A d \in registered' : d \in registered \/ (d = c /\ Eintragen(c))
  <2>1. CASE Eintragen(c)
    BY <2>1 DEF Eintragen
  <2>2. CASE Zaehlen(c)
    BY <2>2 DEF Zaehlen
  <2>3. CASE Abgewiesen(c)
    BY <2>3 DEF Abgewiesen, Gestorben
  <2>4. CASE TokenWeitergeben(c)
    BY <2>4 DEF TokenWeitergeben
  <2>5. CASE Behaltend(c)
    BY <1>t, <2>5, BehaltendLemma DEF NurEigenes
  <2> QED
    BY <2>1, <2>2, <2>3, <2>4, <2>5
<1>2. \A d \in Client \ {c} : Unveraendert(d)
  <2>1. CASE Eintragen(c)
    BY <1>t, <2>1, RegistryAllein
  <2>2. CASE Zaehlen(c) \/ handle_list(c) \/ handleMove(c) \/ ClientSchritt(c)
    BY <1>t, <2>2, AlleinMenue DEF Allein
  <2> QED
    BY <2>1, <2>2 DEF Behaltend, ClientSchritt, Manager, MainAntwort, Benutzer
<1>3. \A d \in Client : comToken'[d] # 0 => comToken[d] # 0 \/ d \in registered
  <2>1. CASE Eintragen(c) \/ handle_list(c) \/ handleMove(c)
    BY <2>1 DEF Eintragen, handle_list, handleMove
  <2>2. CASE Zaehlen(c)
    BY <1>t, <2>2, TokenAnnahme DEF Zaehlen, TokenAn, TypeOK, IInv, Ordnung
  <2>3. CASE TokenWeitergeben(c)
    <3>1. PICK d \in extract_neighbors(c, Head(queue[c]).list) : comToken' = TokenAn(d)
      BY <2>3 DEF TokenWeitergeben
    <3>2. Head(queue[c]).list \subseteq registered
      <4>1. queue[c] \in Seq(Antwort) /\ queue[c] # <<>>
        BY <1>t, <2>3 DEF TypeOK, TokenWeitergeben
      <4>2. Head(queue[c]) = queue[c][1] /\ 1 \in DOMAIN queue[c]
        BY <4>1
      <4> QED
        BY <1>e, <4>2 DEF Eingetragen
    <3>3. d \in registered
      BY <3>1, <3>2 DEF extract_neighbors
    <3> QED
      BY <1>t, <3>1, <3>3 DEF TokenAn, TypeOK
  <2>4. CASE TokenFreigeben(c) \/ Abgewiesen(c)
    BY <1>t, <2>4, SMTT(30) DEF TypeOK, TokenFreigeben, Abgewiesen, Gestorben
  <2>5. CASE TokenHolen(c) \/ TokenBehalten(c) \/ Angemeldet(c) \/ ListeGezeigt(c) \/ RoboterListe(c)
             \/ Bewegt(c)
    BY <2>5 DEF TokenHolen, TokenBehalten, Angemeldet, ListeGezeigt, RoboterListe, Bewegt
  <2>6. CASE NichtGefunden(c) \/ Bewegen(c) \/ Steuern(c) \/ Starten(c) \/ ListeZeigen(c)
             \/ Warten(c)
    BY <2>6 DEF NichtGefunden, Bewegen, Steuern, Starten, ListeZeigen, Warten
  <2> QED
    BY <2>1, <2>2, <2>3, <2>4, <2>5, <2>6 DEF Behaltend
<1>4. ASSUME NEW d \in Client, d # c
      PROVE  Eingetragen(d)'
  <2>1. /\ main'[d] = main[d] /\ queue'[d] = queue[d] /\ anfragen'[d] = anfragen[d]
        /\ d \in registered' <=> d \in registered
    BY <1>2, <1>4 DEF Unveraendert
  <2>2. \A i \in DOMAIN queue'[d] : queue'[d][i].list \subseteq registered'
    BY <1>1, <1>e, <2>1 DEF Eingetragen
  <2> QED
    BY <1>3, <1>e, <2>1, <2>2 DEF Eingetragen, Lebt
<1>5. \A i \in DOMAIN queue'[c] : queue'[c][i].list \subseteq registered'
  BY <1>1, <1>e, <1>t, QueueSchritt, ListenBleiben
<1>6. c \notin registered' => comToken'[c] = 0
  BY <1>1, <1>3, <1>e DEF Eingetragen
<1>7. (c \in registered' => Lebt(c)') /\ (main'[c] = "ende" => anfragen'[c]["REGISTER"] = 0)
  <2>1. CASE Abgewiesen(c)
    <3>1. c \notin registered /\ anfragen[c]["REGISTER"] = 0
      BY <1>t, <2>1, AbgewiesenOhneEintrag
    <3> QED
      BY <2>1, <3>1 DEF Abgewiesen, Gestorben
  <2>2. CASE Eintragen(c)
    <3>1. anfragen[c]["REGISTER"] # 0 /\ main' = main
      BY <2>2 DEF Eintragen
    <3>2. main[c] = "anmeldung"
      <4>1. Fach(c) /\ Eingetragen(c)
        BY <1>e, <1>t DEF PostInv
      <4>2. main[c] # "ende"
        BY <3>1, <4>1 DEF Eingetragen
      <4> QED
        BY <1>t, <3>1, <4>1, <4>2, Zahlen DEF Fach, Unbekannt, Bewegend, Bedienend
    <3> QED
      BY <3>1, <3>2 DEF Lebt
  <2>3. CASE Zaehlen(c) \/ handleMove(c)
    <3>1. main' = main /\ anfragen' = anfragen /\ registered' = registered
      BY <2>3 DEF Zaehlen, handleMove
    <3> QED
      BY <1>e, <3>1 DEF Eingetragen, Lebt
  <2>4. CASE handle_list(c)
    <3>1. main' = main /\ anfragen' = Behandelt(c, "LIST") /\ registered' = registered
      BY <2>4 DEF handle_list
    <3>2. anfragen'[c]["REGISTER"] = anfragen[c]["REGISTER"]
      <4>1. anfragen'[c]["REGISTER"] = anfragen[c]["REGISTER"] - 0
        BY <1>t, <3>1, GefragtWerte DEF AnfrageTyp, Eins
      <4> QED
        BY <1>t, <4>1, Zahlen
    <3> QED
      BY <1>e, <3>1, <3>2 DEF Eingetragen, Lebt
  <2>5. CASE TokenWeitergeben(c) \/ TokenFreigeben(c) \/ TokenHolen(c) \/ TokenBehalten(c)
    <3>1. manager[c] # "aus" /\ main' = main
      BY <2>5 DEF TokenWeitergeben, TokenFreigeben, TokenHolen, TokenBehalten
    <3>2. Lebt(c)
      BY <1>t, <3>1, ManagerLaeuft DEF PostInv, Lebt
    <3> QED
      BY <3>1, <3>2 DEF Lebt
  <2>6. CASE Angemeldet(c) \/ ListeGezeigt(c) \/ RoboterListe(c) \/ Bewegt(c) \/ NichtGefunden(c)
             \/ Bewegen(c) \/ Steuern(c) \/ Starten(c) \/ ListeZeigen(c) \/ Warten(c)
    <3>1. main'[c] \notin {"aus", "ende"}
      BY <1>t, <2>6 DEF TypeOK, Angemeldet, ListeGezeigt, RoboterListe, Bewegt, NichtGefunden,
         Bewegen, Steuern, Starten, ListeZeigen, Warten, Main
    <3> QED
      BY <3>1 DEF Lebt
  <2> QED
    BY <2>1, <2>2, <2>3, <2>4, <2>5, <2>6 DEF Behaltend
<1>8. Eingetragen(c)'
  BY <1>5, <1>6, <1>7 DEF Eingetragen
<1> QED
  BY <1>4, <1>8

LEMMA NichtVerlorenSchritt ==
  ASSUME TokenInv, TypeOK', NEW c \in Client,
         \/ Behaltend(c) \/ TokenWeitergeben(c) \/ Abgewiesen(c)
         \/ Zaehlen(c) \/ Eintragen(c)
  PROVE  NichtVerloren'
<1> USE DEF registryVars
<1>t. TypeOK /\ PostInv /\ IInv
  BY DEF TokenInv, PostInv
<1>e. \A d \in Client : Eingetragen(d)
  BY DEF TokenInv
<1>n. \A d \in Client : Tokens(d) \in Nat /\ Tokens(d)' \in Nat
  BY <1>t, TokensNat, TokensNatDanach
<1>1. ASSUME \A d \in Client : Tokens(d)' = Tokens(d), UNCHANGED <<registered, sperre>>
      PROVE  NichtVerloren'
  BY <1>1 DEF TokenInv, NichtVerloren, NochNichtGezaehlt
<1>2. ASSUME NurEigenes(c), Tokens(c)' = Tokens(c)
      PROVE  NichtVerloren'
  <2>1. \A d \in Client \ {c} : Tokens(d)' = Tokens(d)
    BY <1>2 DEF NurEigenes, Tokens, Steuert, Eins
  <2> QED
    BY <1>1, <1>2, <2>1 DEF NurEigenes
<1>3. CASE Behaltend(c)
  BY <1>2, <1>3, <1>t, BehaltendLemma
<1>4. CASE Abgewiesen(c)
  <2>1. NurEigenes(c) /\ Tokens(c)' <= Tokens(c)
    BY <1>4, <1>t, VerlierendLemma DEF Abgewiesen, Verlierend
  <2>2. Tokens(c) = 0
    <3>1. c \notin registered
      BY <1>4, <1>t, AbgewiesenOhneEintrag
    <3>2. comToken[c] = 0 /\ manager[c] = "aus" /\ perm[c] = 0 /\ ~Steuert(c)
      BY <1>e, <1>t, <3>1, OhneEintrag DEF Eingetragen
    <3> QED
      BY <3>2 DEF Tokens, Eins
  <2> QED
    BY <1>2, <1>n, <2>1, <2>2
<1>5. CASE TokenWeitergeben(c)
  <2>1. PICK d \in extract_neighbors(c, Head(queue[c]).list) : comToken' = TokenAn(d)
    BY <1>5 DEF TokenWeitergeben
  <2>2. d \in Client
    <3>1. Head(queue[c]) \in Antwort
      BY <1>5, <1>t DEF TokenWeitergeben, TypeOK
    <3>2. Head(queue[c]).list \subseteq Client
      BY <3>1 DEF Antwort
    <3> QED
      BY <2>1, <3>2 DEF extract_neighbors
  <2>3. comToken[d] \in Nat /\ comToken'[d] = comToken[d] + 1
    BY <1>t, <2>1, <2>2 DEF TypeOK, TokenAn
  <2>4. perm'[d] \in Nat
    BY <2>2 DEF TypeOK
  <2>5. Tokens(d)' > 0
    BY <2>3, <2>4 DEF Tokens, Eins
  <2> QED
    BY <2>2, <2>5 DEF NichtVerloren
<1>6. CASE Eintragen(c)
  <2>1. sperre = Niemand /\ \A d \in Client : Tokens(d)' = Tokens(d)
    BY <1>6 DEF Eintragen, Tokens, Eins, Steuert
  <2>2. CASE registered = {}
    <3>1. registered' = {} \/ (registered' = {c} /\ sperre' = c)
      BY <1>6, <2>2 DEF Eintragen
    <3> QED
      BY <3>1, TokenAnnahme DEF NichtVerloren, NochNichtGezaehlt
  <2>3. CASE registered # {}
    <3>1. ~NochNichtGezaehlt
      BY <2>1, <2>3 DEF NochNichtGezaehlt
    <3> QED
      BY <2>1, <3>1 DEF TokenInv, NichtVerloren
  <2> QED
    BY <2>2, <2>3
<1>7. CASE Zaehlen(c)
  <2>1. /\ sperre = c /\ c \in registered /\ Lebt(c)
        /\ UNCHANGED <<main, manager, perm>>
    BY <1>7, <1>e, <1>t, TokenAnnahme DEF Zaehlen, IInv, Ordnung, Eingetragen
  <2>2. CASE ErsterClient(c)
    <3>1. comToken'[c] = comToken[c] + 1 /\ comToken[c] \in Nat /\ perm'[c] \in Nat
      BY <1>7, <1>t, <2>1, <2>2 DEF Zaehlen, TokenAn, TypeOK
    <3>2. Tokens(c)' > 0
      BY <3>1 DEF Tokens, Eins
    <3> QED
      BY <3>2 DEF NichtVerloren
  <2>3. CASE ~ErsterClient(c)
    <3>1. comToken' = comToken
      BY <1>7, <2>3 DEF Zaehlen
    <3>2. \A d \in Client : Tokens(d)' = Tokens(d)
      BY <2>1, <3>1 DEF Tokens, Eins, Steuert
    <3>3. registered # {c}
      BY <2>3, FS_Singleton DEF ErsterClient
    <3>4. ~NochNichtGezaehlt
      BY <2>1, <3>3 DEF NochNichtGezaehlt
    <3> QED
      BY <3>2, <3>4 DEF TokenInv, NichtVerloren
  <2> QED
    BY <2>2, <2>3
<1> QED
  BY <1>3, <1>4, <1>5, <1>6, <1>7

LEMMA TokenInvInit == Init => TokenInv
<1> SUFFICES ASSUME Init
             PROVE  TokenInv
  OBVIOUS
<1>1. ASSUME NEW c \in Client
      PROVE  Eingetragen(c)
  BY DEF Init, Eingetragen
<1>2. NichtVerloren
  BY DEF Init, NichtVerloren, NochNichtGezaehlt
<1> QED
  BY <1>1, <1>2, IInvInit, PostInit DEF TokenInv

LEMMA TokenInvSchritt ==
  ASSUME ~MitEnde, ~MitAbsturz, ~MitAusnahmen, TokenInv, [Next]_vars
  PROVE  TokenInv'
<1>1. IInv' /\ PostInv' /\ TypeOK'
  BY IInvSchritt, PostSchritt DEF TokenInv, PostInv
<1>2. ASSUME NEW c \in Client,
             \/ Behaltend(c) \/ TokenWeitergeben(c) \/ Abgewiesen(c)
             \/ Zaehlen(c) \/ Eintragen(c)
      PROVE  TokenInv'
  BY <1>1, <1>2, EingetragenSchritt, NichtVerlorenSchritt DEF TokenInv
<1>3. ASSUME NEW c \in Client, Austragen(c)
      PROVE  FALSE
  BY <1>3 DEF TokenInv, IInv, Ordnung, Austragen
<1>4. ASSUME NEW c \in Client, ClientSchritt(c) \/ handle_list(c) \/ handleMove(c)
      PROVE  TokenInv'
  BY <1>2, <1>4, UngestoerterSchritt DEF TokenInv
<1>5. CASE UNCHANGED vars
  <2>1. NichtVerloren'
    BY <1>5 DEF vars, TokenInv, NichtVerloren, NochNichtGezaehlt, Tokens, Steuert, Eins
  <2>2. \A c \in Client : Eingetragen(c)'
    BY <1>5 DEF vars, TokenInv, Eingetragen, Lebt
  <2> QED
    BY <1>1, <2>1, <2>2 DEF TokenInv
<1> QED
  BY <1>2, <1>3, <1>4, <1>5 DEF Next, Registry

\* The token is never lost while no client ends and no exception cuts a control short: from
\* the first registration on some client has it, whoever registers under whatever name.
THEOREM TokenGehtNichtVerloren ==
  ASSUME ~MitEnde, ~MitAbsturz, ~MitAusnahmen
  PROVE  Spec => []TokenDa
<1>1. TokenInv /\ [Next]_vars => TokenInv'
  BY TokenInvSchritt
<1>2. TokenInv => TokenDa
  <2> SUFFICES ASSUME TokenInv, registered # {}, sperre = Niemand
               PROVE  \E c \in Client : Tokens(c) = 1
    BY DEF TokenDa
  <2>1. PICK c \in Client : Tokens(c) > 0
    BY DEF TokenInv, NichtVerloren, NochNichtGezaehlt
  <2>2. Tokens(c) \in Nat /\ Tokens(c) <= 1
    BY TokensNat DEF TokenInv, IInv, EinToken
  <2> QED
    BY <2>1, <2>2
<1> QED
  BY <1>1, <1>2, TokenInvInit, PTL DEF Spec

=============================================================================
