------------------------------ MODULE TokenRing ------------------------------
(***************************************************************************)
(* Who may control the robot: the registry and the terminal clients of     *)
(* distributed-robotarm-control, which pass a token around.                *)
(*                                                                         *)
(* The registry handles every request in a thread of its pool, in any      *)
(* order; only REGISTER holds a lock.  A client has two threads, the menu  *)
(* (main) and the token management (manager).  They share the token        *)
(* semaphore and the queue of answers in COM.                              *)
(*                                                                         *)
(* Sending opens a connection of its own: it fails when the receiver is    *)
(* gone, otherwise the message is in the receiver's queue.  The registry   *)
(* and the robot stay up.  The shutdown hook of a client is one step: once *)
(* it has closed COM, its other threads get no answer and no token.        *)
(***************************************************************************)
EXTENDS Integers, Sequences, FiniteSets

CONSTANTS
  Client,        \* the client processes, each started at most once
  Niemand,       \* not a client
  nameVon,       \* the name a process is started with
  MitListe,      \* may the user ask for the list of nodes (menu entry 2)?
  MitEnde,       \* may clients be shut down by ctrl+c?
  MitAbsturz,    \* may clients be killed?
  MitAusnahmen   \* may do_robot_control_rpc end with an exception?

ASSUME TokenAnnahme ==
  /\ Niemand \notin Client
  /\ DOMAIN nameVon = Client
  /\ {MitListe, MitEnde, MitAbsturz, MitAusnahmen} \subseteq BOOLEAN

VARIABLES
  registered,   \* the clients in registered_endpoints
  id,           \* the number a client was given; 0: none
  id_counter,   \* the last number given
  anfragen,     \* how many requests of a client the registry has not handled
  sperre,       \* the client whose REGISTER holds the lock
  main,         \* where the menu thread of a client is
  manager,      \* where its token management is
  queue,        \* its answers not yet taken: message_queue and pending_messages
  comToken,     \* permits of COM.token_semaphore
  perm,         \* permits of Client.token_semaphore
  auftraege     \* clients whose MOVE the robot has not answered

vars == <<registered, id, id_counter, anfragen, sperre, main, manager, queue,
          comToken, perm, auftraege>>

registryVars == <<registered, id, id_counter, sperre>>

AnfrageTyp == {"REGISTER", "UNREGISTER", "LIST"}
Antwort == [typ : {"REGISTER_RESPONSE", "ERROR", "LIST", "MOVE_RESPONSE"}, list : SUBSET Client]

TypeOK ==
  /\ registered \subseteq Client
  /\ id \in [Client -> Nat]
  /\ id_counter \in Nat
  /\ anfragen \in [Client -> [AnfrageTyp -> Nat]]
  /\ sperre \in Client \cup {Niemand}
  /\ main \in [Client -> {"aus", "anmeldung", "menue", "zeigt", "wartet",
                          "fragt", "waehlt", "bewegt", "ende"}]
  /\ manager \in [Client -> {"aus", "lauscht", "gibtfrei", "fragt", "tot"}]
  /\ queue \in [Client -> Seq(Antwort)]
  /\ comToken \in [Client -> Nat]
  /\ perm \in [Client -> Nat]
  /\ auftraege \subseteq Client

Init ==
  /\ registered = {}
  /\ id = [c \in Client |-> 0]
  /\ id_counter = 0
  /\ anfragen = [c \in Client |-> [t \in AnfrageTyp |-> 0]]
  /\ sperre = Niemand
  /\ main = [c \in Client |-> "aus"]
  /\ manager = [c \in Client |-> "aus"]
  /\ queue = [c \in Client |-> <<>>]
  /\ comToken = [c \in Client |-> 0]
  /\ perm = [c \in Client |-> 0]
  /\ auftraege = {}

-----------------------------------------------------------------------------
Lebt(c) == main[c] \notin {"aus", "ende"}

\* COM.sendTo with a request for the registry, and a thread of its pool taking it
Gefragt(c, typ)   == [anfragen EXCEPT ![c][typ] = @ + 1]
Behandelt(c, typ) == [anfragen EXCEPT ![c][typ] = @ - 1]

\* COM.sendTo with an answer for c; nobody hears of a failure.
Antworten(c, typ, list) ==
  IF Lebt(c) THEN [queue EXCEPT ![c] = Append(@, [typ |-> typ, list |-> list])] ELSE queue

\* get_next_message
Genommen(c) == [queue EXCEPT ![c] = Tail(@)]

TokenAn(c) == [comToken EXCEPT ![c] = @ + 1]

-----------------------------------------------------------------------------
(***************************************************************************)
(* The registry: update_client_registries.                                 *)
(***************************************************************************)

\* REGISTER up to the answer; the lock is kept if the client was entered.
Eintragen(c) ==
  /\ sperre = Niemand
  /\ anfragen[c]["REGISTER"] > 0
  /\ anfragen' = Behandelt(c, "REGISTER")
  /\ \/ /\ \E d \in registered : nameVon[d] = nameVon[c]
        /\ queue' = Antworten(c, "ERROR", {})
        /\ UNCHANGED registryVars
     \/ /\ \A d \in registered : nameVon[d] # nameVon[c]
        /\ id_counter' = id_counter + 1
        /\ id' = [id EXCEPT ![c] = id_counter + 1]
        /\ registered' = registered \cup {c}
        /\ queue' = Antworten(c, "REGISTER_RESPONSE", {})
        /\ sperre' = c
  /\ UNCHANGED <<main, manager, comToken, perm, auftraege>>

\* (altered) every newcomer is sent a token
ErsterClient_jeder(c) == c \in registered

\* client_count == 1
ErsterClient(c) == Cardinality(registered) = 1

\* The rest of REGISTER: the clients are counted, the first one gets the token.
Zaehlen(c) ==
  /\ sperre = c
  /\ sperre' = Niemand
  /\ comToken' = IF ErsterClient(c) /\ Lebt(c) THEN TokenAn(c) ELSE comToken
  /\ UNCHANGED <<registered, id, id_counter, anfragen, main, manager, queue, perm, auftraege>>

Austragen(c) ==
  /\ anfragen[c]["UNREGISTER"] > 0
  /\ anfragen' = Behandelt(c, "UNREGISTER")
  /\ registered' = {d \in registered : nameVon[d] # nameVon[c]}
  /\ UNCHANGED <<id, id_counter, sperre, main, manager, queue, comToken, perm, auftraege>>

handle_list(c) ==
  /\ anfragen[c]["LIST"] > 0
  /\ anfragen' = Behandelt(c, "LIST")
  /\ queue' = Antworten(c, "LIST", registered)
  /\ UNCHANGED <<registryVars, main, manager, comToken, perm, auftraege>>

Registry ==
  \E c \in Client :
    Eintragen(c) \/ Zaehlen(c) \/ Austragen(c) \/ handle_list(c)

-----------------------------------------------------------------------------
(***************************************************************************)
(* The token management: start_token_management.                           *)
(***************************************************************************)

\* wait_for_token, token_semaphore.release
TokenFreigeben(c) ==
  /\ manager[c] = "lauscht" /\ comToken[c] > 0
  /\ comToken' = [comToken EXCEPT ![c] = @ - 1]
  /\ perm' = [perm EXCEPT ![c] = @ + 1]
  /\ manager' = [manager EXCEPT ![c] = "gibtfrei"]
  /\ UNCHANGED <<registryVars, anfragen, main, queue, auftraege>>

\* (altered) the token is passed on without waiting until it is not used
TokenHolen_sofort(c) ==
  /\ manager[c] = "gibtfrei"
  /\ perm' = [perm EXCEPT ![c] = IF @ > 0 THEN @ - 1 ELSE 0]
  /\ anfragen' = Gefragt(c, "LIST")
  /\ manager' = [manager EXCEPT ![c] = "fragt"]
  /\ UNCHANGED <<registryVars, main, queue, comToken, auftraege>>

\* After 500 ms token_semaphore.acquire, then the clients are asked for.
TokenHolen(c) ==
  /\ manager[c] = "gibtfrei" /\ perm[c] > 0
  /\ perm' = [perm EXCEPT ![c] = @ - 1]
  /\ anfragen' = Gefragt(c, "LIST")
  /\ manager' = [manager EXCEPT ![c] = "fragt"]
  /\ UNCHANGED <<registryVars, main, queue, comToken, auftraege>>

\* (altered) the token goes to the first other client of the list
extract_neighbors_erster(c, nodes) ==
  {d \in nodes \ {c} : \A e \in nodes \ {c} : id[d] <= id[e]}

\* extract_neighbors: the next client by number, round the end; nobody if there
\* is no other client or c itself is not listed.
extract_neighbors(c, nodes) ==
  LET naechste == {d \in nodes : id[d] > id[c]}
      kreis    == IF naechste = {} THEN nodes ELSE naechste
  IN  {d \in kreis \ {c} : c \in nodes /\ \A e \in kreis : id[d] <= id[e]}

\* attempt_send_token with the answer: the token is forwarded ...
TokenWeitergeben(c) ==
  /\ manager[c] = "fragt" /\ queue[c] # <<>>
  /\ \E d \in extract_neighbors(c, Head(queue[c]).list) :
       /\ Lebt(d)
       /\ comToken' = TokenAn(d)
  /\ queue' = Genommen(c)
  /\ manager' = [manager EXCEPT ![c] = "lauscht"]
  /\ UNCHANGED <<registryVars, anfragen, main, perm, auftraege>>

\* ... or retained, when there is no neighbour or sending fails.  An answer without a
\* list ends the thread with a NullPointerException.
TokenBehalten(c) ==
  LET liste == Head(queue[c]).typ = "LIST" IN
  /\ manager[c] = "fragt" /\ queue[c] # <<>>
  /\ \A d \in extract_neighbors(c, Head(queue[c]).list) : ~Lebt(d)
  /\ perm' = [perm EXCEPT ![c] = @ + (IF liste THEN 1 ELSE 0)]
  /\ manager' = [manager EXCEPT ![c] = IF liste THEN "gibtfrei" ELSE "tot"]
  /\ queue' = Genommen(c)
  /\ UNCHANGED <<registryVars, anfragen, main, comToken, auftraege>>

Manager(c) ==
  TokenFreigeben(c) \/ TokenHolen(c) \/ TokenWeitergeben(c) \/ TokenBehalten(c)

-----------------------------------------------------------------------------
(***************************************************************************)
(* The menu thread: main, handle_root.                                     *)
(***************************************************************************)
Main(c, von, nach) == main[c] = von /\ main' = [main EXCEPT ![c] = nach]

\* The thread takes the next answer, whatever it is.
Nimmt(c) == queue[c] # <<>> /\ queue' = Genommen(c)

\* The process is gone with all it held.
Gestorben(c) ==
  /\ main' = [main EXCEPT ![c] = "ende"]
  /\ manager' = [manager EXCEPT ![c] = "aus"]
  /\ queue' = [queue EXCEPT ![c] = <<>>]
  /\ comToken' = [comToken EXCEPT ![c] = 0]
  /\ perm' = [perm EXCEPT ![c] = 0]
  /\ UNCHANGED <<registryVars, auftraege>>

\* RegistrationUtility.register
Starten(c) ==
  /\ Main(c, "aus", "anmeldung")
  /\ anfragen' = Gefragt(c, "REGISTER")
  /\ UNCHANGED <<registryVars, manager, queue, comToken, perm, auftraege>>

Angemeldet(c) ==
  /\ Main(c, "anmeldung", "menue")
  /\ Nimmt(c) /\ Head(queue[c]).typ = "REGISTER_RESPONSE"
  /\ manager' = [manager EXCEPT ![c] = "lauscht"]
  /\ UNCHANGED <<registryVars, anfragen, comToken, perm, auftraege>>

\* (altered) a rejected client unregisters as well
Abgewiesen_meldetAb(c) ==
  /\ main[c] = "anmeldung"
  /\ queue[c] # <<>> /\ Head(queue[c]).typ = "ERROR"
  /\ Gestorben(c)
  /\ anfragen' = Gefragt(c, "UNREGISTER")

\* The name is taken: shutdown without unregister.
Abgewiesen(c) ==
  /\ main[c] = "anmeldung"
  /\ queue[c] # <<>> /\ Head(queue[c]).typ = "ERROR"
  /\ Gestorben(c)
  /\ UNCHANGED anfragen

\* list_nodes
ListeZeigen(c) ==
  /\ MitListe
  /\ Main(c, "menue", "zeigt")
  /\ anfragen' = Gefragt(c, "LIST")
  /\ UNCHANGED <<registryVars, manager, queue, comToken, perm, auftraege>>

ListeGezeigt(c) ==
  /\ Main(c, "zeigt", "menue")
  /\ Nimmt(c)
  /\ UNCHANGED <<registryVars, anfragen, manager, comToken, perm, auftraege>>

\* request_control
Warten(c) ==
  /\ Main(c, "menue", "wartet")
  /\ UNCHANGED <<registryVars, anfragen, manager, queue, comToken, perm, auftraege>>

\* (altered) the permit is taken without waiting for it
Steuern_ohneWarten(c) ==
  /\ Main(c, "wartet", "fragt")
  /\ perm' = [perm EXCEPT ![c] = @ - 1]
  /\ anfragen' = Gefragt(c, "LIST")
  /\ UNCHANGED <<registryVars, manager, queue, comToken, auftraege>>

\* token_semaphore.acquire, then do_robot_control_rpc asks for the robots.
Steuern(c) ==
  /\ Main(c, "wartet", "fragt")
  /\ perm[c] > 0
  /\ perm' = [perm EXCEPT ![c] = @ - 1]
  /\ anfragen' = Gefragt(c, "LIST")
  /\ UNCHANGED <<registryVars, manager, queue, comToken, auftraege>>

\* An answer without a list is a NullPointerException too: back to the menu.
RoboterListe(c) ==
  /\ Nimmt(c)
  /\ Main(c, "fragt", IF Head(queue[c]).typ = "LIST" THEN "waehlt" ELSE "menue")
  /\ UNCHANGED <<registryVars, anfragen, manager, comToken, perm, auftraege>>

\* (altered) the token is kept when the user names no robot
NichtGefunden_ohneFreigabe(c) ==
  /\ Main(c, "waehlt", "menue")
  /\ UNCHANGED <<registryVars, anfragen, manager, queue, comToken, perm, auftraege>>

\* The user names no robot of the list: token_semaphore.release.
NichtGefunden(c) ==
  /\ Main(c, "waehlt", "menue")
  /\ perm' = [perm EXCEPT ![c] = @ + 1]
  /\ UNCHANGED <<registryVars, anfragen, manager, queue, comToken, auftraege>>

\* No number is entered, or MOVE cannot be sent: handle_root catches the
\* exception, and request_control does not come to its release.
Ausnahme(c) ==
  /\ MitAusnahmen
  /\ Main(c, "waehlt", "menue")
  /\ UNCHANGED <<registryVars, anfragen, manager, queue, comToken, perm, auftraege>>

Bewegen(c) ==
  /\ Main(c, "waehlt", "bewegt")
  /\ auftraege' = auftraege \cup {c}
  /\ UNCHANGED <<registryVars, anfragen, manager, queue, comToken, perm>>

\* RobotNode.handleMove
handleMove(c) ==
  /\ c \in auftraege
  /\ auftraege' = auftraege \ {c}
  /\ queue' = Antworten(c, "MOVE_RESPONSE", {})
  /\ UNCHANGED <<registryVars, anfragen, main, manager, comToken, perm>>

\* (altered) the robot's answer is not waited for
Bewegt_ohneAntwort(c) ==
  /\ Main(c, "bewegt", "menue")
  /\ perm' = [perm EXCEPT ![c] = @ + 1]
  /\ UNCHANGED <<registryVars, anfragen, manager, queue, comToken, auftraege>>

\* Any answer is taken for the robot's: token_semaphore.release.
Bewegt(c) ==
  /\ Main(c, "bewegt", "menue")
  /\ Nimmt(c)
  /\ perm' = [perm EXCEPT ![c] = @ + 1]
  /\ UNCHANGED <<registryVars, anfragen, manager, comToken, auftraege>>

\* ctrl+c: shutdown.  A client that has registered unregisters, unless an answer is
\* waiting: then pending_messages.release(Integer.MAX_VALUE) throws an Error.  It
\* does not if the answer is still in the socket.
Beenden(c) ==
  /\ MitEnde /\ Lebt(c)
  /\ Gestorben(c)
  /\ \/ /\ main[c] # "anmeldung"
        /\ anfragen' = Gefragt(c, "UNREGISTER")
     \/ /\ main[c] = "anmeldung" \/ queue[c] # <<>>
        /\ UNCHANGED anfragen

\* The process is killed.
Absturz(c) ==
  /\ MitAbsturz /\ Lebt(c)
  /\ Gestorben(c)
  /\ UNCHANGED anfragen

Benutzer(c) == NichtGefunden(c) \/ Bewegen(c)

MainAntwort(c) ==
  \/ Angemeldet(c) \/ Abgewiesen(c) \/ ListeGezeigt(c)
  \/ RoboterListe(c) \/ Bewegt(c)

ClientSchritt(c) ==
  \/ Manager(c) \/ MainAntwort(c) \/ Benutzer(c) \/ Steuern(c)
  \/ Starten(c) \/ ListeZeigen(c) \/ Warten(c) \/ Ausnahme(c)
  \/ Beenden(c) \/ Absturz(c)

Next == Registry \/ \E c \in Client : ClientSchritt(c) \/ handleMove(c)

Spec == Init /\ [][Next]_vars

\* The registry, the robot and the threads of a client go on, a user who controls the
\* robot decides.  A thread that waits for a semaphore gets a permit if there is
\* one again and again: token_semaphore has a permit for 500 ms every time.
Fairness ==
  \A c \in Client :
    /\ WF_vars(Eintragen(c)) /\ WF_vars(Zaehlen(c)) /\ WF_vars(Austragen(c))
    /\ WF_vars(handle_list(c)) /\ WF_vars(handleMove(c))
    /\ WF_vars(Benutzer(c))
    /\ SF_vars(Manager(c)) /\ SF_vars(MainAntwort(c)) /\ SF_vars(Steuern(c))

FairSpec == Spec /\ Fairness

-----------------------------------------------------------------------------
(***************************************************************************)
(* Properties.                                                             *)
(***************************************************************************)
Steuert(c) == main[c] \in {"fragt", "waehlt", "bewegt"}

Eins(bedingung) == IF bedingung THEN 1 ELSE 0

\* The tokens a client has: received, free for its menu thread, in use, or about to
\* be passed on.
Tokens(c) == comToken[c] + perm[c] + Eins(Steuert(c)) + Eins(manager[c] = "fragt")

\* There is never more than one token: no client has two of them and no two
\* clients have one, although two semaphores count them and registry, menu thread
\* and token management all hand them on.
EinToken ==
  \A c, d \in Client : Tokens(c) <= 1 /\ (Tokens(c) = 1 /\ Tokens(d) = 1 => c = d)

\* The token is not lost either: as long as no client ends, one of them has it from
\* the first registration on.
TokenDa == registered # {} /\ sperre = Niemand => \E c \in Client : Tokens(c) = 1

\* Two threads take their answers from one queue, and an answer does not say to which
\* request it belongs.  Still every request and every answer on its way has one
\* thread that waits for it, so that none is left over for the next request ...
Unterwegs(c) == anfragen[c]["REGISTER"] + anfragen[c]["LIST"] + Eins(c \in auftraege)
                + Len(queue[c])

Wartende(c) == Eins(main[c] \in {"anmeldung", "zeigt", "fragt", "bewegt"})
               + Eins(manager[c] = "fragt")

AntwortenGehenAuf == \A c \in Client : Lebt(c) => Unterwegs(c) = Wartende(c)

\* ... and no thread takes an answer of a kind it does not wait for.
AntwortPasst ==
  \A c \in Client : \A i \in DOMAIN queue[c] :
    queue[c][i].typ \in
      IF main[c] = "anmeldung" THEN {"REGISTER_RESPONSE", "ERROR"}
      ELSE IF main[c] = "bewegt" THEN {"MOVE_RESPONSE"}
      ELSE {"LIST"}

\* UNREGISTER names the entry, not the client: still no other client, rejected, ended or
\* started again with the same name, takes a living client out of the list.
BleibtEingetragen ==
  \A c \in Client : main[c] \notin {"aus", "anmeldung", "ende"} => c \in registered

\* A client that waits for its turn gets it, unless it is ended itself.
KommtDran == \A c \in Client : main[c] = "wartet" ~> Steuert(c) \/ main[c] = "ende"

\* What the ring is for: the right to control the robot.
Besitzer ==
  IF \E c \in Client : Tokens(c) > 0
  THEN CHOOSE c \in Client : Tokens(c) > 0
  ELSE Niemand

Gesteuert == \E c \in Client : Steuert(c)

Recht == INSTANCE Steuerrecht WITH besitzer <- Besitzer, steuert <- Gesteuert

\* The ring implements it: control begins with the holder only, and the right moves
\* on only while nobody controls the robot.
ErfuelltSteuerrecht == Recht!Spec

=============================================================================
