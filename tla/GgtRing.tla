------------------------------- MODULE GgtRing -------------------------------
(***************************************************************************)
(* One round of the distributed computation of a greatest common divisor:  *)
(* the workers of distributed-gcd-ring, each with a message queue of its   *)
(* own at the broker, linked to a ring.                                    *)
(*                                                                         *)
(* A worker process has two threads: main, which runs the constructor of   *)
(* WorkerListener, and the thread of the JMS session, which runs onMessage *)
(* as soon as the listener is registered, that is before the constructor   *)
(* has a producer to send with.  Until then MessageBroker.send drops what  *)
(* it is given.                                                            *)
(***************************************************************************)
EXTENDS Integers, Sequences

CONSTANTS
  Worker,         \* the workers of the ring
  links, rechts,  \* prev and next of each worker
  Eingaben        \* the numbers that may be entered, one per worker

ASSUME RingAnnahme ==
  /\ links \in [Worker -> Worker]
  /\ rechts \in [Worker -> Worker]
  /\ \A w \in Worker : links[rechts[w]] = w /\ rechts[links[w]] = w

\* The workers form one ring: whoever is reached from a worker is everybody.
ASSUME EinRing ==
  \A S \in SUBSET Worker :
    S # {} /\ (\A w \in S : links[w] \in S /\ rechts[w] \in S) => S = Worker

Zahl == Nat \ {0}

ASSUME EingabenAnnahme == Eingaben \subseteq [Worker -> Zahl]

VARIABLES
  start,   \* number entered for each worker
  M,       \* current value of each worker
  main,    \* how far the constructor has come
  erst,    \* the value the constructor has read for its first UPDATE
  rest,    \* the value onMessage has still to send to the right; 0: none
  queue    \* values of the UPDATE messages waiting for each worker

vars == <<start, M, main, erst, rest, queue>>

TypeOK ==
  /\ start \in [Worker -> Zahl]
  /\ M \in [Worker -> Zahl]
  /\ main \in [Worker -> {"aus", "hoert", "verbunden", "gelesen", "links", "laeuft"}]
  /\ erst \in [Worker -> Zahl]
  /\ rest \in [Worker -> Nat]
  /\ queue \in [Worker -> Seq(Zahl)]

Init ==
  /\ start \in Eingaben
  /\ M = start
  /\ main = [w \in Worker |-> "aus"]
  /\ erst = start
  /\ rest = [w \in Worker |-> 0]
  /\ queue = [w \in Worker |-> <<>>]

\* Is MessageBroker.producer set?
KannSenden(w) == main[w] \notin {"aus", "hoert"}

\* MessageBroker.send: without a producer the message is lost.
Gesendet(w, ziel, y) ==
  IF KannSenden(w) THEN [queue EXCEPT ![ziel] = Append(@, y)] ELSE queue

-----------------------------------------------------------------------------
(***************************************************************************)
(* The main thread: the constructor of WorkerListener.                     *)
(***************************************************************************)

\* broker.start registers the listener ...
Registrieren(w) ==
  /\ main[w] = "aus"
  /\ main' = [main EXCEPT ![w] = "hoert"]
  /\ UNCHANGED <<start, M, erst, rest, queue>>

\* ... and creates the producer last.
ProducerAnlegen(w) ==
  /\ main[w] = "hoert"
  /\ main' = [main EXCEPT ![w] = "verbunden"]
  /\ UNCHANGED <<start, M, erst, rest, queue>>

\* update.value = M
\* (altered) the number the process was started with is sent
Lesen_Startwert(w) ==
  /\ main[w] = "verbunden"
  /\ erst' = [erst EXCEPT ![w] = start[w]]
  /\ main' = [main EXCEPT ![w] = "gelesen"]
  /\ UNCHANGED <<start, M, rest, queue>>

Lesen(w) ==
  /\ main[w] = "verbunden"
  /\ erst' = [erst EXCEPT ![w] = M[w]]
  /\ main' = [main EXCEPT ![w] = "gelesen"]
  /\ UNCHANGED <<start, M, rest, queue>>

ErstesUpdateLinks(w) ==
  /\ main[w] = "gelesen"
  /\ queue' = Gesendet(w, links[w], erst[w])
  /\ main' = [main EXCEPT ![w] = "links"]
  /\ UNCHANGED <<start, M, erst, rest>>

\* (altered) only the left neighbour hears of the start value
ErstesUpdateRechts_fehlt(w) ==
  /\ main[w] = "links"
  /\ main' = [main EXCEPT ![w] = "laeuft"]
  /\ UNCHANGED <<start, M, erst, rest, queue>>

ErstesUpdateRechts(w) ==
  /\ main[w] = "links"
  /\ queue' = Gesendet(w, rechts[w], erst[w])
  /\ main' = [main EXCEPT ![w] = "laeuft"]
  /\ UNCHANGED <<start, M, erst, rest>>

(***************************************************************************)
(* The session thread: onMessage with an UPDATE.                           *)
(***************************************************************************)

\* (altered) the plain remainder
NaechstesM_Rest(m, y) == m % y

\* (altered) the remainder is shifted only on one side
NaechstesM_Versatz(m, y) == (m % y) + 1

\* (altered) the smaller value is taken over
NaechstesM_Minimum(m, y) == y

NaechstesM(m, y) == ((m - 1) % y) + 1

Entnommen(w) == [queue EXCEPT ![w] = Tail(@)]

Bereit(w) == main[w] # "aus" /\ rest[w] = 0 /\ queue[w] # <<>>

\* processUpdate for a smaller value, up to the first of its two sends.
processUpdate(w) ==
  LET y == Head(queue[w])
      neu == NaechstesM(M[w], y)
  IN  /\ Bereit(w)
      /\ y < M[w]
      /\ M' = [M EXCEPT ![w] = neu]
      /\ queue' = IF KannSenden(w)
                  THEN [Entnommen(w) EXCEPT ![links[w]] = Append(@, neu)]
                  ELSE Entnommen(w)
      /\ rest' = [rest EXCEPT ![w] = neu]
      /\ UNCHANGED <<start, main, erst>>

UpdateRechts(w) ==
  /\ rest[w] # 0
  /\ queue' = Gesendet(w, rechts[w], rest[w])
  /\ rest' = [rest EXCEPT ![w] = 0]
  /\ UNCHANGED <<start, M, main, erst>>

\* processUpdate for a value that is not smaller.

\* (altered) the worker's own value is neither smaller nor larger
UpdateVerwerfen_echt(w) ==
  /\ Bereit(w)
  /\ Head(queue[w]) > M[w]
  /\ queue' = Entnommen(w)
  /\ UNCHANGED <<start, M, main, erst, rest>>

UpdateVerwerfen(w) ==
  /\ Bereit(w)
  /\ Head(queue[w]) >= M[w]
  /\ queue' = Entnommen(w)
  /\ UNCHANGED <<start, M, main, erst, rest>>

-----------------------------------------------------------------------------
Next ==
  \E w \in Worker :
    \/ Registrieren(w)
    \/ ProducerAnlegen(w)
    \/ Lesen(w)
    \/ ErstesUpdateLinks(w)
    \/ ErstesUpdateRechts(w)
    \/ processUpdate(w)
    \/ UpdateRechts(w)
    \/ UpdateVerwerfen(w)

Spec == Init /\ [][Next]_vars

\* Both threads of every worker keep running.
Main(w) ==
  \/ Registrieren(w) \/ ProducerAnlegen(w) \/ Lesen(w)
  \/ ErstesUpdateLinks(w) \/ ErstesUpdateRechts(w)

Session(w) == processUpdate(w) \/ UpdateRechts(w) \/ UpdateVerwerfen(w)

FairSpec == Spec /\ \A w \in Worker : WF_vars(Main(w)) /\ WF_vars(Session(w))

-----------------------------------------------------------------------------
(***************************************************************************)
(* Properties.                                                             *)
(***************************************************************************)
teilt(d, n) == n % d = 0

\* Nothing is left to send or to handle.
Fertig ==
  \A w \in Worker : main[w] = "laeuft" /\ rest[w] = 0 /\ queue[w] = <<>>

\* q holds a value that brings a worker down to m or below.
Enthaelt(q, m) == \E i \in 1 .. Len(q) : q[i] <= m

\* n is, or will be, no larger than w by what it holds and what waits for it.
Beliefert(w, n) == M[n] <= M[w] \/ Enthaelt(queue[n], M[w])

\* Every worker's current value has reached both neighbours, waits for them or
\* will still be sent: no interleaving of the constructor and onMessage, and no
\* UPDATE dropped for want of a producer, leaves a neighbour out.
Versorgung ==
  \A w \in Worker :
    /\ \/ Beliefert(w, links[w])
       \/ main[w] \in {"aus", "hoert", "verbunden"}
       \/ main[w] = "gelesen" /\ erst[w] = M[w]
    /\ \/ Beliefert(w, rechts[w])
       \/ main[w] \in {"aus", "hoert", "verbunden"}
       \/ main[w] \in {"gelesen", "links"} /\ erst[w] = M[w]
       \/ rest[w] = M[w]

\* When the messages have run dry, all workers hold the same value: no update
\* is missing, although those before the producer exists were dropped and the
\* first UPDATE may be overtaken by later ones.
Einigung == Fertig => \A v, w \in Worker : M[v] = M[w]

\* A common divisor d of the numbers entered divides every value a worker holds or
\* has sent: no reduction loses it, and the result is a multiple of it.
TeilerBleibt(d) ==
  (\A w \in Worker : teilt(d, start[w]))
  => \A w \in Worker :
       /\ teilt(d, M[w])
       /\ \A i \in 1 .. Len(queue[w]) : teilt(d, queue[w][i])

\* TeilerBleibt for every number that may be a common divisor: no reduction in any
\* order of the updates loses one.
TeilerBleiben == \A w \in Worker : \A d \in 1 .. start[w] : TeilerBleibt(d)

\* m divides every number entered, and no larger number does.
IstGGT(m) ==
  /\ \A w \in Worker : teilt(m, start[w])
  /\ \A v \in Worker : \A d \in m + 1 .. start[v] :
       \E w \in Worker : ~teilt(d, start[w])

\* When the messages have run dry, every worker holds the greatest common divisor
\* of the numbers entered, whatever was dropped or overtaken on the way.
FertigIstGGT == Fertig => \A w \in Worker : IstGGT(M[w])
=============================================================================
