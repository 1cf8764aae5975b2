---------------------------- MODULE GgtRingBeweis ----------------------------
(***************************************************************************)
(* Proofs about GgtRing, for every ring and all numbers.                   *)
(***************************************************************************)
EXTENDS GgtRing, TLAPS

-----------------------------------------------------------------------------
(***************************************************************************)
(* The reduction of a worker's value.                                      *)
(***************************************************************************)

\* The new value is at least 1 and at most the value received, which is what
\* makes the worker no larger than its neighbour.
LEMMA NaechstesMGrenzen ==
  ASSUME NEW m \in Zahl, NEW y \in Zahl
  PROVE  NaechstesM(m, y) \in Zahl /\ NaechstesM(m, y) <= y
<1>1. m - 1 \in Nat /\ y > 0
  BY DEF Zahl
<1>2. (m - 1) % y \in 0 .. y - 1
  BY <1>1, SMT DEF Zahl
<1> QED
  BY <1>2 DEF NaechstesM, Zahl

\* The new value is the old one less a multiple of the value received.
LEMMA NaechstesMVielfaches ==
  ASSUME NEW m \in Zahl, NEW y \in Zahl
  PROVE  \E k \in Nat : NaechstesM(m, y) = m - y * k
<1> DEFINE k == (m - 1) \div y
<1>1. m - 1 \in Nat /\ y \in Nat /\ y > 0
  BY DEF Zahl
<1>2. k \in Nat /\ m - 1 = y * k + ((m - 1) % y)
  BY <1>1, SMT
<1>3. NaechstesM(m, y) = m - y * k
  BY <1>1, <1>2 DEF NaechstesM
<1> QED
  BY <1>2, <1>3

LEMMA TeiltFaktor ==
  ASSUME NEW d \in Zahl, NEW n \in Nat
  PROVE  teilt(d, n) <=> \E k \in Int : n = d * k
<1>1. ASSUME teilt(d, n) PROVE \E k \in Int : n = d * k
  <2>1. n = d * (n \div d) + (n % d) /\ n \div d \in Int
    BY SMT DEF Zahl
  <2> QED
    BY <2>1, <1>1 DEF teilt, Zahl
<1>2. ASSUME NEW k \in Int, n = d * k PROVE teilt(d, n)
  BY <1>2, SMT DEF teilt, Zahl
<1> QED
  BY <1>1, <1>2

\* A common divisor of both values divides the new one.
LEMMA NaechstesMTeiler ==
  ASSUME NEW d \in Zahl, NEW m \in Zahl, NEW y \in Zahl,
         teilt(d, m), teilt(d, y)
  PROVE  teilt(d, NaechstesM(m, y))
<1>1. PICK a \in Int : m = d * a
  BY TeiltFaktor DEF Zahl
<1>2. PICK b \in Int : y = d * b
  BY TeiltFaktor DEF Zahl
<1>3. PICK k \in Nat : NaechstesM(m, y) = m - y * k
  BY NaechstesMVielfaches
<1>4. d * a - (d * b) * k = d * (a - b * k)
  BY SMT DEF Zahl
<1>5. NaechstesM(m, y) = d * (a - b * k) /\ a - b * k \in Int
  BY <1>1, <1>2, <1>3, <1>4
<1> QED
  BY <1>5, TeiltFaktor, NaechstesMGrenzen DEF Zahl

-----------------------------------------------------------------------------
(***************************************************************************)
(* Queues.                                                                 *)
(***************************************************************************)
LEMMA EnthaeltAppend ==
  ASSUME NEW q \in Seq(Zahl), NEW y \in Zahl, NEW m \in Zahl
  PROVE  Enthaelt(Append(q, y), m) <=> Enthaelt(q, m) \/ y <= m
<1>1. Len(Append(q, y)) = Len(q) + 1 /\ Len(q) \in Nat
  OBVIOUS
<1>2. \A i \in 1 .. Len(q) : Append(q, y)[i] = q[i]
  OBVIOUS
<1>3. Append(q, y)[Len(q) + 1] = y
  OBVIOUS
<1> QED
  BY <1>1, <1>2, <1>3 DEF Enthaelt

LEMMA EnthaeltTail ==
  ASSUME NEW q \in Seq(Zahl), q # <<>>, NEW m \in Zahl
  PROVE  Enthaelt(q, m) <=> Head(q) <= m \/ Enthaelt(Tail(q), m)
<1>1. Len(Tail(q)) = Len(q) - 1 /\ Len(q) \in Nat \ {0} /\ Head(q) = q[1]
  OBVIOUS
<1>2. \A i \in 1 .. Len(q) - 1 : Tail(q)[i] = q[i + 1]
  OBVIOUS
<1>3. ASSUME NEW i \in 1 .. Len(q), i # 1
      PROVE  i - 1 \in 1 .. Len(q) - 1 /\ Tail(q)[i - 1] = q[i]
  BY <1>1, <1>2, <1>3
<1>4. ASSUME Enthaelt(q, m) PROVE Head(q) <= m \/ Enthaelt(Tail(q), m)
  BY <1>1, <1>3, <1>4 DEF Enthaelt
<1>5. ASSUME NEW i \in 1 .. Len(q) - 1 PROVE i + 1 \in 1 .. Len(q)
  BY <1>1
<1>6. ASSUME Head(q) <= m \/ Enthaelt(Tail(q), m) PROVE Enthaelt(q, m)
  BY <1>1, <1>2, <1>5, <1>6 DEF Enthaelt
<1> QED
  BY <1>4, <1>6

-----------------------------------------------------------------------------
(***************************************************************************)
(* Type correctness.                                                       *)
(***************************************************************************)
LEMMA TypInit == Init => TypeOK
  BY EingabenAnnahme DEF Init, TypeOK

LEMMA TypGesendet ==
  ASSUME TypeOK, NEW w \in Worker, NEW z \in Worker, NEW y \in Zahl
  PROVE  Gesendet(w, z, y) \in [Worker -> Seq(Zahl)]
  BY DEF TypeOK, Gesendet

LEMMA TypSchritt == TypeOK /\ [Next]_vars => TypeOK'
<1> SUFFICES ASSUME TypeOK, [Next]_vars PROVE TypeOK'
  OBVIOUS
<1> USE RingAnnahme
<1>1. ASSUME NEW w \in Worker, Registrieren(w) PROVE TypeOK'
  BY <1>1 DEF TypeOK, Registrieren
<1>2. ASSUME NEW w \in Worker, ProducerAnlegen(w) PROVE TypeOK'
  BY <1>2 DEF TypeOK, ProducerAnlegen
<1>3. ASSUME NEW w \in Worker, Lesen(w) PROVE TypeOK'
  BY <1>3 DEF TypeOK, Lesen
<1>4. ASSUME NEW w \in Worker, ErstesUpdateLinks(w) PROVE TypeOK'
  <2>1. queue' \in [Worker -> Seq(Zahl)]
    BY <1>4, TypGesendet DEF TypeOK, ErstesUpdateLinks
  <2> QED
    BY <1>4, <2>1 DEF TypeOK, ErstesUpdateLinks
<1>5. ASSUME NEW w \in Worker, ErstesUpdateRechts(w) PROVE TypeOK'
  <2>1. queue' \in [Worker -> Seq(Zahl)]
    BY <1>5, TypGesendet DEF TypeOK, ErstesUpdateRechts
  <2> QED
    BY <1>5, <2>1 DEF TypeOK, ErstesUpdateRechts
<1>6. ASSUME NEW w \in Worker, processUpdate(w) PROVE TypeOK'
  <2> DEFINE y == Head(queue[w])
             neu == NaechstesM(M[w], y)
  <2>1. queue[w] \in Seq(Zahl) /\ queue[w] # <<>>
    BY <1>6 DEF TypeOK, processUpdate, Bereit
  <2>2. y \in Zahl /\ Tail(queue[w]) \in Seq(Zahl)
    BY <2>1
  <2>3. neu \in Zahl
    BY <2>2, NaechstesMGrenzen DEF TypeOK
  <2>4. Entnommen(w) \in [Worker -> Seq(Zahl)]
    BY <2>2 DEF Entnommen, TypeOK
  <2>5. queue' \in [Worker -> Seq(Zahl)]
    <3>1. CASE KannSenden(w)
      <4>1. queue' = [Entnommen(w) EXCEPT ![links[w]] = Append(@, neu)]
        BY <1>6, <3>1 DEF processUpdate
      <4>2. links[w] \in Worker /\ Append(Entnommen(w)[links[w]], neu) \in Seq(Zahl)
        BY <2>3, <2>4
      <4> QED
        BY <4>1, <4>2, <2>4
    <3>2. CASE ~KannSenden(w)
      BY <1>6, <3>2, <2>4 DEF processUpdate
    <3> QED
      BY <3>1, <3>2
  <2>6. M' \in [Worker -> Zahl] /\ rest' \in [Worker -> Nat]
    BY <1>6, <2>3 DEF processUpdate, TypeOK, Zahl
  <2> QED
    BY <1>6, <2>5, <2>6 DEF TypeOK, processUpdate
<1>7. ASSUME NEW w \in Worker, UpdateRechts(w) PROVE TypeOK'
  <2>1. rest[w] \in Zahl
    BY <1>7 DEF TypeOK, UpdateRechts, Zahl
  <2>2. queue' \in [Worker -> Seq(Zahl)]
    BY <1>7, <2>1, TypGesendet DEF TypeOK, UpdateRechts
  <2> QED
    BY <1>7, <2>2 DEF TypeOK, UpdateRechts
<1>8. ASSUME NEW w \in Worker, UpdateVerwerfen(w) PROVE TypeOK'
  BY <1>8 DEF TypeOK, UpdateVerwerfen, Bereit, Entnommen
<1>9. CASE UNCHANGED vars
  BY <1>9 DEF TypeOK, vars
<1> QED
  BY <1>1, <1>2, <1>3, <1>4, <1>5, <1>6, <1>7, <1>8, <1>9 DEF Next

\* Every value a worker holds, reads, owes or finds in its queue is a positive
\* number, so no remainder is taken by zero.
THEOREM Typkorrekt == Spec => []TypeOK
  BY TypInit, TypSchritt, PTL DEF Spec

-----------------------------------------------------------------------------
(***************************************************************************)
(* Agreement: the inductive invariant is TypeOK /\ Versorgung.             *)
(***************************************************************************)
LinksVersorgt(w) ==
  \/ Beliefert(w, links[w])
  \/ main[w] \in {"aus", "hoert", "verbunden"}
  \/ main[w] = "gelesen" /\ erst[w] = M[w]

RechtsVersorgt(w) ==
  \/ Beliefert(w, rechts[w])
  \/ main[w] \in {"aus", "hoert", "verbunden"}
  \/ main[w] \in {"gelesen", "links"} /\ erst[w] = M[w]
  \/ rest[w] = M[w]

LEMMA VersorgungTeile ==
  Versorgung <=> \A w \in Worker : LinksVersorgt(w) /\ RechtsVersorgt(w)
  BY DEF Versorgung, LinksVersorgt, RechtsVersorgt

\* A send takes nothing away, and what is sent is there.
LEMMA SendenBeliefert ==
  ASSUME TypeOK, NEW w \in Worker, NEW z \in Worker, NEW y \in Zahl,
         M' = M, queue' = Gesendet(w, z, y),
         NEW v \in Worker, NEW n \in Worker
  PROVE  /\ Beliefert(v, n) => Beliefert(v, n)'
         /\ KannSenden(w) /\ n = z /\ y = M[v] => Beliefert(v, n)'
<1>1. queue[n] \in Seq(Zahl) /\ M[v] \in Zahl
  BY DEF TypeOK
<1>2. CASE KannSenden(w) /\ n = z
  <2>1. queue'[n] = Append(queue[n], y)
    BY <1>2 DEF Gesendet, TypeOK
  <2>2. Enthaelt(queue'[n], M[v]) <=> Enthaelt(queue[n], M[v]) \/ y <= M[v]
    BY <1>1, <2>1, EnthaeltAppend
  <2>3. y = M[v] => y <= M[v]
    BY DEF Zahl
  <2> QED
    BY <2>2, <2>3 DEF Beliefert
<1>3. CASE ~(KannSenden(w) /\ n = z)
  <2>1. queue'[n] = queue[n]
    BY <1>3 DEF Gesendet, TypeOK
  <2> QED
    BY <1>3, <2>1 DEF Beliefert
<1> QED
  BY <1>2, <1>3

\* Handling a message leaves the worker no larger than the message was.
LEMMA VerbrauchBeliefert ==
  ASSUME TypeOK, NEW w \in Worker, queue[w] # <<>>,
         M' \in [Worker -> Zahl], M'[w] <= Head(queue[w]), M'[w] <= M[w],
         \A x \in Worker \ {w} : M'[x] = M[x],
         NEW v \in Worker, M'[v] = M[v] \/ v = w,
         NEW n \in Worker, v = w => M'[w] = M[w] \/ n = w,
         queue'[n] \in Seq(Zahl),
         \A m \in Zahl : Enthaelt(IF n = w THEN Tail(queue[n]) ELSE queue[n], m)
                           => Enthaelt(queue'[n], m)
  PROVE  Beliefert(v, n) => Beliefert(v, n)'
<1> SUFFICES ASSUME Beliefert(v, n) PROVE Beliefert(v, n)'
  OBVIOUS
<1>1. /\ M[v] \in Zahl /\ M[n] \in Zahl /\ M[w] \in Zahl
      /\ M'[v] \in Zahl /\ M'[n] \in Zahl /\ M'[w] \in Zahl
      /\ queue[w] \in Seq(Zahl) /\ queue[n] \in Seq(Zahl)
  BY DEF TypeOK
<1>2. Head(queue[w]) \in Zahl
  BY <1>1
<1>3. CASE v = w /\ n = w
  BY <1>1, <1>3 DEF Beliefert, Zahl
<1>4. CASE ~(v = w /\ n = w)
  <2>1. M'[v] = M[v]
    BY <1>4
  <2>2. CASE n = w
    <3>1. CASE M[n] <= M[v]
      BY <1>1, <2>1, <2>2, <3>1 DEF Beliefert, Zahl
    <3>2. CASE Enthaelt(queue[n], M[v])
      <4>1. Head(queue[w]) <= M[v] \/ Enthaelt(Tail(queue[n]), M[v])
        BY <1>1, <2>2, <3>2, EnthaeltTail
      <4>2. CASE Head(queue[w]) <= M[v]
        <5>1. M'[n] <= M'[v]
          BY <1>1, <1>2, <2>1, <2>2, <4>2 DEF Zahl
        <5> QED
          BY <5>1 DEF Beliefert
      <4>3. CASE Enthaelt(Tail(queue[n]), M[v])
        BY <1>1, <2>1, <2>2, <4>3 DEF Beliefert
      <4> QED
        BY <4>1, <4>2, <4>3
    <3> QED
      BY <3>1, <3>2 DEF Beliefert
  <2>3. CASE n # w
    <3>1. M'[n] = M[n]
      BY <2>3
    <3> QED
      BY <1>1, <2>1, <2>3, <3>1 DEF Beliefert
  <2> QED
    BY <2>2, <2>3
<1> QED
  BY <1>3, <1>4

LEMMA VersorgungInit == Init => Versorgung
  BY DEF Init, Versorgung

\* A step of the constructor that sends y or nothing: only main and erst of w
\* change beside the queues.
LEMMA VersorgungAndere ==
  ASSUME TypeOK, NEW w \in Worker, NEW v \in Worker \ {w},
         M'[v] = M[v], main'[v] = main[v], erst'[v] = erst[v], rest'[v] = rest[v],
         \A n \in Worker : Beliefert(v, n) => Beliefert(v, n)',
         LinksVersorgt(v) /\ RechtsVersorgt(v)
  PROVE  LinksVersorgt(v)' /\ RechtsVersorgt(v)'
<1>1. links[v] \in Worker /\ rechts[v] \in Worker
  BY RingAnnahme
<1>2. LinksVersorgt(v)'
  BY <1>1 DEF LinksVersorgt
<1>3. RechtsVersorgt(v)'
  BY <1>1 DEF RechtsVersorgt
<1> QED
  BY <1>2, <1>3

LEMMA VersorgungSchritt == TypeOK /\ Versorgung /\ [Next]_vars => Versorgung'
<1> SUFFICES ASSUME TypeOK, Versorgung, [Next]_vars PROVE Versorgung'
  OBVIOUS
<1>t. TypeOK'
  BY TypSchritt
<1>v. \A v \in Worker : LinksVersorgt(v) /\ RechtsVersorgt(v)
  BY VersorgungTeile
<1>z. ASSUME \A v \in Worker : LinksVersorgt(v)' /\ RechtsVersorgt(v)'
      PROVE  Versorgung'
  BY <1>z DEF Versorgung, LinksVersorgt, RechtsVersorgt
<1>r. \A w \in Worker : links[w] \in Worker /\ rechts[w] \in Worker
  BY RingAnnahme
<1>1. ASSUME NEW w \in Worker, Registrieren(w) PROVE Versorgung'
  <2>1. \A v, n \in Worker : Beliefert(v, n)' <=> Beliefert(v, n)
    BY <1>1 DEF Registrieren, Beliefert
  <2>2. main'[w] = "hoert" /\ \A v \in Worker \ {w} : main'[v] = main[v]
    BY <1>1 DEF Registrieren, TypeOK
  <2>3. LinksVersorgt(w)' /\ RechtsVersorgt(w)'
    BY <2>2 DEF LinksVersorgt, RechtsVersorgt
  <2>4. ASSUME NEW v \in Worker \ {w} PROVE LinksVersorgt(v)' /\ RechtsVersorgt(v)'
    BY <1>1, <1>v, <2>1, <2>2, VersorgungAndere DEF Registrieren
  <2> QED
    BY <1>z, <2>3, <2>4
<1>2. ASSUME NEW w \in Worker, ProducerAnlegen(w) PROVE Versorgung'
  <2>1. \A v, n \in Worker : Beliefert(v, n)' <=> Beliefert(v, n)
    BY <1>2 DEF ProducerAnlegen, Beliefert
  <2>2. main'[w] = "verbunden" /\ \A v \in Worker \ {w} : main'[v] = main[v]
    BY <1>2 DEF ProducerAnlegen, TypeOK
  <2>3. LinksVersorgt(w)' /\ RechtsVersorgt(w)'
    BY <2>2 DEF LinksVersorgt, RechtsVersorgt
  <2>4. ASSUME NEW v \in Worker \ {w} PROVE LinksVersorgt(v)' /\ RechtsVersorgt(v)'
    BY <1>2, <1>v, <2>1, <2>2, VersorgungAndere DEF ProducerAnlegen
  <2> QED
    BY <1>z, <2>3, <2>4
<1>3. ASSUME NEW w \in Worker, Lesen(w) PROVE Versorgung'
  <2>1. \A v, n \in Worker : Beliefert(v, n)' <=> Beliefert(v, n)
    BY <1>3 DEF Lesen, Beliefert
  <2>2. /\ main'[w] = "gelesen" /\ erst'[w] = M'[w]
        /\ \A v \in Worker \ {w} : main'[v] = main[v] /\ erst'[v] = erst[v]
    BY <1>3 DEF Lesen, TypeOK
  <2>3. LinksVersorgt(w)' /\ RechtsVersorgt(w)'
    BY <2>2 DEF LinksVersorgt, RechtsVersorgt
  <2>4. ASSUME NEW v \in Worker \ {w} PROVE LinksVersorgt(v)' /\ RechtsVersorgt(v)'
    BY <1>3, <1>v, <2>1, <2>2, VersorgungAndere DEF Lesen
  <2> QED
    BY <1>z, <2>3, <2>4
<1>4. ASSUME NEW w \in Worker, ErstesUpdateLinks(w) PROVE Versorgung'
  <2>1. KannSenden(w) /\ erst[w] \in Zahl
    BY <1>4 DEF ErstesUpdateLinks, KannSenden, TypeOK
  <2>2. /\ main'[w] = "links" /\ main[w] = "gelesen"
        /\ \A v \in Worker \ {w} : main'[v] = main[v]
    BY <1>4 DEF ErstesUpdateLinks, TypeOK
  <2>3. ASSUME NEW v \in Worker, NEW n \in Worker
        PROVE  /\ Beliefert(v, n) => Beliefert(v, n)'
               /\ n = links[w] /\ erst[w] = M[v] => Beliefert(v, n)'
    BY <1>4, <1>r, <2>1, SendenBeliefert DEF ErstesUpdateLinks
  <2>4. LinksVersorgt(w)'
    BY <1>v, <1>r, <2>2, <2>3 DEF LinksVersorgt
  <2>5. RechtsVersorgt(w)'
    BY <1>4, <1>v, <1>r, <2>2, <2>3 DEF RechtsVersorgt, ErstesUpdateLinks
  <2>6. ASSUME NEW v \in Worker \ {w} PROVE LinksVersorgt(v)' /\ RechtsVersorgt(v)'
    BY <1>4, <1>v, <2>2, <2>3, VersorgungAndere DEF ErstesUpdateLinks
  <2> QED
    BY <1>z, <2>4, <2>5, <2>6
<1>5. ASSUME NEW w \in Worker, ErstesUpdateRechts(w) PROVE Versorgung'
  <2>1. KannSenden(w) /\ erst[w] \in Zahl
    BY <1>5 DEF ErstesUpdateRechts, KannSenden, TypeOK
  <2>2. /\ main'[w] = "laeuft" /\ main[w] = "links"
        /\ \A v \in Worker \ {w} : main'[v] = main[v]
    BY <1>5 DEF ErstesUpdateRechts, TypeOK
  <2>3. ASSUME NEW v \in Worker, NEW n \in Worker
        PROVE  /\ Beliefert(v, n) => Beliefert(v, n)'
               /\ n = rechts[w] /\ erst[w] = M[v] => Beliefert(v, n)'
    BY <1>5, <1>r, <2>1, SendenBeliefert DEF ErstesUpdateRechts
  <2>4. LinksVersorgt(w)'
    BY <1>v, <1>r, <2>2, <2>3 DEF LinksVersorgt
  <2>5. RechtsVersorgt(w)'
    BY <1>5, <1>v, <1>r, <2>2, <2>3 DEF RechtsVersorgt, ErstesUpdateRechts
  <2>6. ASSUME NEW v \in Worker \ {w} PROVE LinksVersorgt(v)' /\ RechtsVersorgt(v)'
    BY <1>5, <1>v, <2>2, <2>3, VersorgungAndere DEF ErstesUpdateRechts
  <2> QED
    BY <1>z, <2>4, <2>5, <2>6
<1>6. ASSUME NEW w \in Worker, processUpdate(w) PROVE Versorgung'
  <2> DEFINE y == Head(queue[w])
             neu == NaechstesM(M[w], y)
  <2>1. /\ queue[w] \in Seq(Zahl) /\ queue[w] # <<>>
        /\ M[w] \in Zahl /\ y < M[w]
    BY <1>6 DEF TypeOK, processUpdate, Bereit
  <2>2. y \in Zahl /\ Tail(queue[w]) \in Seq(Zahl)
    BY <2>1
  <2>3. neu \in Zahl /\ neu <= y
    BY <2>1, <2>2, NaechstesMGrenzen
  <2>4. /\ M'[w] = neu /\ rest'[w] = neu
        /\ \A x \in Worker \ {w} : M'[x] = M[x] /\ rest'[x] = rest[x]
        /\ M' \in [Worker -> Zahl]
        /\ main' = main /\ erst' = erst
    BY <1>6, <2>3 DEF processUpdate, TypeOK, Zahl
  <2>5. M'[w] <= Head(queue[w]) /\ M'[w] <= M[w]
    BY <2>1, <2>2, <2>3, <2>4 DEF Zahl
  <2>6. /\ Entnommen(w) \in [Worker -> Seq(Zahl)]
        /\ \A n \in Worker : Entnommen(w)[n] = IF n = w THEN Tail(queue[n]) ELSE queue[n]
    BY <2>2 DEF Entnommen, TypeOK
  <2>7. queue' \in [Worker -> Seq(Zahl)]
    BY <1>t DEF TypeOK
  <2>8. ASSUME NEW n \in Worker
        PROVE  \/ queue'[n] = Entnommen(w)[n]
               \/ queue'[n] = Append(Entnommen(w)[n], neu)
    BY <1>6, <2>6 DEF processUpdate
  <2>9. ASSUME NEW n \in Worker, NEW m \in Zahl, Enthaelt(Entnommen(w)[n], m)
        PROVE  Enthaelt(queue'[n], m)
    <3>1. CASE queue'[n] = Entnommen(w)[n]
      BY <2>9, <3>1
    <3>2. CASE queue'[n] = Append(Entnommen(w)[n], neu)
      <4>1. Entnommen(w)[n] \in Seq(Zahl)
        BY <2>6
      <4> QED
        BY <2>3, <2>9, <3>2, <4>1, EnthaeltAppend
    <3> QED
      BY <2>8, <3>1, <3>2
  <2>10. ASSUME NEW v \in Worker \ {w}, NEW n \in Worker
         PROVE  Beliefert(v, n) => Beliefert(v, n)'
    <3>1. \A m \in Zahl : Enthaelt(IF n = w THEN Tail(queue[n]) ELSE queue[n], m)
                             => Enthaelt(queue'[n], m)
      BY <2>6, <2>9
    <3>2. queue'[n] \in Seq(Zahl)
      BY <2>7
    <3> QED
      BY <2>1, <2>4, <2>5, <3>1, <3>2, VerbrauchBeliefert
  <2>11. LinksVersorgt(w)'
    <3>1. CASE KannSenden(w)
      <4> DEFINE n == links[w]
      <4>1. n \in Worker /\ Entnommen(w)[n] \in Seq(Zahl)
        BY <1>r, <2>6
      <4>2. queue'[n] = Append(Entnommen(w)[n], neu)
        BY <1>6, <2>6, <3>1, <4>1 DEF processUpdate
      <4>3. neu <= neu
        BY <2>3 DEF Zahl
      <4>4. Enthaelt(queue'[n], M'[w])
        BY <2>3, <2>4, <4>1, <4>2, <4>3, EnthaeltAppend
      <4> QED
        BY <4>4 DEF LinksVersorgt, Beliefert
    <3>2. CASE ~KannSenden(w)
      BY <2>4, <3>2 DEF KannSenden, LinksVersorgt
    <3> QED
      BY <3>1, <3>2
  <2>12. RechtsVersorgt(w)'
    BY <2>4 DEF RechtsVersorgt
  <2>13. ASSUME NEW v \in Worker \ {w} PROVE LinksVersorgt(v)' /\ RechtsVersorgt(v)'
    BY <1>v, <2>4, <2>10, VersorgungAndere
  <2> QED
    BY <1>z, <2>11, <2>12, <2>13
<1>7. ASSUME NEW w \in Worker, UpdateRechts(w) PROVE Versorgung'
  <2>1. rest[w] \in Zahl
    BY <1>7 DEF TypeOK, UpdateRechts, Zahl
  <2>2. /\ main' = main /\ erst' = erst /\ M' = M
        /\ \A v \in Worker \ {w} : rest'[v] = rest[v]
    BY <1>7 DEF UpdateRechts, TypeOK
  <2>3. ASSUME NEW v \in Worker, NEW n \in Worker
        PROVE  /\ Beliefert(v, n) => Beliefert(v, n)'
               /\ KannSenden(w) /\ n = rechts[w] /\ rest[w] = M[v] => Beliefert(v, n)'
    BY <1>7, <1>r, <2>1, SendenBeliefert DEF UpdateRechts
  <2>4. LinksVersorgt(w)'
    BY <1>v, <1>r, <2>2, <2>3 DEF LinksVersorgt
  <2>5. RechtsVersorgt(w)'
    BY <1>v, <1>r, <2>2, <2>3 DEF RechtsVersorgt, KannSenden
  <2>6. ASSUME NEW v \in Worker \ {w} PROVE LinksVersorgt(v)' /\ RechtsVersorgt(v)'
    BY <1>v, <2>2, <2>3, VersorgungAndere
  <2> QED
    BY <1>z, <2>4, <2>5, <2>6
<1>8. ASSUME NEW w \in Worker, UpdateVerwerfen(w) PROVE Versorgung'
  <2>1. /\ queue[w] \in Seq(Zahl) /\ queue[w] # <<>>
        /\ M[w] \in Zahl /\ M[w] <= Head(queue[w])
    BY <1>8 DEF TypeOK, UpdateVerwerfen, Bereit, Zahl
  <2>2. main' = main /\ erst' = erst /\ M' = M /\ rest' = rest /\ M \in [Worker -> Zahl]
    BY <1>8 DEF UpdateVerwerfen, TypeOK
  <2>3. ASSUME NEW n \in Worker
        PROVE  /\ queue'[n] = IF n = w THEN Tail(queue[n]) ELSE queue[n]
               /\ queue'[n] \in Seq(Zahl)
    BY <1>8, <1>t DEF UpdateVerwerfen, Entnommen, TypeOK
  <2>4. M[w] <= M[w]
    BY <2>1 DEF Zahl
  <2>5. ASSUME NEW v \in Worker, NEW n \in Worker
        PROVE  Beliefert(v, n) => Beliefert(v, n)'
    BY <2>1, <2>2, <2>3, <2>4, VerbrauchBeliefert
  <2>6. ASSUME NEW v \in Worker PROVE LinksVersorgt(v)' /\ RechtsVersorgt(v)'
    BY <1>v, <1>r, <2>2, <2>5 DEF LinksVersorgt, RechtsVersorgt
  <2> QED
    BY <1>z, <2>6
<1>9. CASE UNCHANGED vars
  BY <1>9 DEF vars, Versorgung, Beliefert
<1> QED
  BY <1>1, <1>2, <1>3, <1>4, <1>5, <1>6, <1>7, <1>8, <1>9 DEF Next

\* In every ring, whatever the threads of the workers interleave and whatever was
\* dropped before a producer existed: a worker's value has reached both
\* neighbours, waits for them or will still be sent.
THEOREM ImmerVersorgt == Spec => []Versorgung
<1>1. Init => TypeOK /\ Versorgung
  BY TypInit, VersorgungInit
<1>2. TypeOK /\ Versorgung /\ [Next]_vars => (TypeOK /\ Versorgung)'
  BY TypSchritt, VersorgungSchritt
<1> QED
  BY <1>1, <1>2, PTL DEF Spec

\* When nothing is left to send, the workers no larger than a given one are
\* closed under the neighbour relation, so they are the whole ring.
LEMMA FertigEinig == TypeOK /\ Versorgung => Einigung
<1> SUFFICES ASSUME TypeOK, Versorgung, Fertig,
                    NEW v \in Worker, NEW w \in Worker
             PROVE  M[v] <= M[w]
  BY DEF Einigung, TypeOK, Zahl
<1> DEFINE S == {x \in Worker : M[x] <= M[w]}
<1>1. \A x \in Worker : M[x] \in Nat
  BY DEF TypeOK, Zahl
<1>2. ASSUME NEW x \in Worker, NEW n \in Worker, Beliefert(x, n)
      PROVE  M[n] <= M[x]
  BY <1>2 DEF Beliefert, Enthaelt, Fertig
<1>3. \A x \in Worker : M[links[x]] <= M[x] /\ M[rechts[x]] <= M[x]
  <2> TAKE x \in Worker
  <2>1. links[x] \in Worker /\ rechts[x] \in Worker /\ M[x] # 0
    BY RingAnnahme DEF TypeOK, Zahl
  <2>2. Beliefert(x, links[x]) /\ Beliefert(x, rechts[x])
    BY <2>1 DEF Versorgung, Fertig
  <2> QED
    BY <1>2, <2>1, <2>2
<1>4. \A x \in S : links[x] \in S /\ rechts[x] \in S
  <2> TAKE x \in S
  <2>1. links[x] \in Worker /\ rechts[x] \in Worker
    BY RingAnnahme
  <2>2. M[links[x]] <= M[w] /\ M[rechts[x]] <= M[w]
    BY <1>1, <1>3, <2>1
  <2> QED
    BY <2>1, <2>2
<1>5. w \in S /\ S \in SUBSET Worker
  BY <1>1
<1>6. S = Worker
  BY <1>4, <1>5, EinRing
<1> QED
  BY <1>6

\* In every ring the workers hold one value when the messages have run dry.
THEOREM EinigAmEnde == Spec => []Einigung
  BY Typkorrekt, ImmerVersorgt, FertigEinig, PTL

-----------------------------------------------------------------------------
(***************************************************************************)
(* Common divisors: what the constructor has read and what onMessage owes  *)
(* join the values and queues of TeilerBleibt.                             *)
(***************************************************************************)
AlleTeilbar(d, q) == \A i \in 1 .. Len(q) : teilt(d, q[i])

Teilbar(d) ==
  (\A w \in Worker : teilt(d, start[w]))
  => \A w \in Worker :
       /\ teilt(d, M[w])
       /\ teilt(d, erst[w])
       /\ teilt(d, rest[w])
       /\ AlleTeilbar(d, queue[w])

LEMMA TeilbarAppend ==
  ASSUME NEW d \in Zahl, NEW q \in Seq(Zahl), NEW y \in Zahl,
         AlleTeilbar(d, q), teilt(d, y)
  PROVE  AlleTeilbar(d, Append(q, y))
<1>1. Len(Append(q, y)) = Len(q) + 1 /\ Len(q) \in Nat
  OBVIOUS
<1>2. \A i \in 1 .. Len(q) : Append(q, y)[i] = q[i]
  OBVIOUS
<1>3. Append(q, y)[Len(q) + 1] = y
  OBVIOUS
<1> QED
  BY <1>1, <1>2, <1>3 DEF AlleTeilbar

LEMMA TeilbarTail ==
  ASSUME NEW d \in Zahl, NEW q \in Seq(Zahl), q # <<>>, AlleTeilbar(d, q)
  PROVE  teilt(d, Head(q)) /\ AlleTeilbar(d, Tail(q))
<1>1. Len(Tail(q)) = Len(q) - 1 /\ Len(q) \in Nat \ {0} /\ Head(q) = q[1]
  OBVIOUS
<1>2. \A i \in 1 .. Len(q) - 1 : Tail(q)[i] = q[i + 1]
  OBVIOUS
<1>3. \A i \in 1 .. Len(q) - 1 : i + 1 \in 1 .. Len(q)
  BY <1>1
<1>4. 1 \in 1 .. Len(q)
  BY <1>1
<1> QED
  BY <1>1, <1>2, <1>3, <1>4 DEF AlleTeilbar

LEMMA TeilbarGesendet ==
  ASSUME TypeOK, NEW d \in Zahl, NEW w \in Worker, NEW z \in Worker, NEW y \in Zahl,
         teilt(d, y), \A v \in Worker : AlleTeilbar(d, queue[v])
  PROVE  \A v \in Worker : AlleTeilbar(d, Gesendet(w, z, y)[v])
<1> TAKE v \in Worker
<1>1. queue[v] \in Seq(Zahl)
  BY DEF TypeOK
<1>2. CASE Gesendet(w, z, y)[v] = queue[v]
  BY <1>2
<1>3. CASE Gesendet(w, z, y)[v] = Append(queue[v], y)
  BY <1>1, <1>3, TeilbarAppend
<1> QED
  BY <1>2, <1>3 DEF Gesendet, TypeOK

LEMMA TeilbarInit ==
  ASSUME NEW d \in Zahl, Init
  PROVE  Teilbar(d)
<1>1. teilt(d, 0)
  BY SMT DEF teilt, Zahl
<1>2. \A w \in Worker : /\ M[w] = start[w] /\ erst[w] = start[w]
                        /\ rest[w] = 0 /\ queue[w] = <<>>
  BY DEF Init
<1>3. AlleTeilbar(d, <<>>)
  BY DEF AlleTeilbar
<1> QED
  BY <1>1, <1>2, <1>3, Zenon DEF Teilbar

LEMMA TeilbarSchritt ==
  ASSUME NEW d \in Zahl, TypeOK, Teilbar(d), [Next]_vars
  PROVE  Teilbar(d)'
<1>0. start' = start
  BY DEF Next, Registrieren, ProducerAnlegen, Lesen, ErstesUpdateLinks,
         ErstesUpdateRechts, processUpdate, UpdateRechts, UpdateVerwerfen, vars
<1> SUFFICES ASSUME \A w \in Worker : teilt(d, start[w])
             PROVE  \A w \in Worker : /\ teilt(d, M'[w]) /\ teilt(d, erst'[w])
                                      /\ teilt(d, rest'[w]) /\ AlleTeilbar(d, queue'[w])
  BY <1>0 DEF Teilbar
<1>t. \A w \in Worker : /\ teilt(d, M[w]) /\ teilt(d, erst[w])
                        /\ teilt(d, rest[w]) /\ AlleTeilbar(d, queue[w])
  BY DEF Teilbar
<1>n. teilt(d, 0)
  BY SMT DEF teilt, Zahl
<1>r. \A w \in Worker : links[w] \in Worker /\ rechts[w] \in Worker
  BY RingAnnahme
<1> DEFINE Ziel == \A w \in Worker : /\ teilt(d, M'[w]) /\ teilt(d, erst'[w])
                                     /\ teilt(d, rest'[w]) /\ AlleTeilbar(d, queue'[w])
<1>1. ASSUME NEW w \in Worker, Registrieren(w) \/ ProducerAnlegen(w) PROVE Ziel
  BY <1>1, <1>t DEF Registrieren, ProducerAnlegen
<1>2. ASSUME NEW w \in Worker, Lesen(w) PROVE Ziel
  BY <1>2, <1>t DEF Lesen, TypeOK
<1>3. ASSUME NEW w \in Worker, ErstesUpdateLinks(w) PROVE Ziel
  <2>1. \A v \in Worker : AlleTeilbar(d, Gesendet(w, links[w], erst[w])[v])
    BY <1>t, <1>r, TeilbarGesendet DEF TypeOK
  <2> QED
    BY <1>3, <1>t, <2>1 DEF ErstesUpdateLinks
<1>4. ASSUME NEW w \in Worker, ErstesUpdateRechts(w) PROVE Ziel
  <2>1. \A v \in Worker : AlleTeilbar(d, Gesendet(w, rechts[w], erst[w])[v])
    BY <1>t, <1>r, TeilbarGesendet DEF TypeOK
  <2> QED
    BY <1>4, <1>t, <2>1 DEF ErstesUpdateRechts
<1>5. ASSUME NEW w \in Worker, processUpdate(w) PROVE Ziel
  <2> DEFINE y == Head(queue[w])
             neu == NaechstesM(M[w], y)
  <2>1. queue[w] \in Seq(Zahl) /\ queue[w] # <<>> /\ M[w] \in Zahl
    BY <1>5 DEF TypeOK, processUpdate, Bereit
  <2>2. y \in Zahl /\ Tail(queue[w]) \in Seq(Zahl)
    BY <2>1
  <2>3. teilt(d, y) /\ AlleTeilbar(d, Tail(queue[w]))
    BY <1>t, <2>1, TeilbarTail
  <2>4. neu \in Zahl /\ teilt(d, neu)
    BY <1>t, <2>1, <2>2, <2>3, NaechstesMGrenzen, NaechstesMTeiler
  <2>5. ASSUME NEW v \in Worker
        PROVE  /\ Entnommen(w)[v] \in Seq(Zahl)
               /\ AlleTeilbar(d, Entnommen(w)[v])
               /\ queue'[v] = Entnommen(w)[v] \/ queue'[v] = Append(Entnommen(w)[v], neu)
    BY <1>5, <1>t, <2>2, <2>3 DEF Entnommen, TypeOK, processUpdate
  <2>6. ASSUME NEW v \in Worker PROVE AlleTeilbar(d, queue'[v])
    BY <2>4, <2>5, TeilbarAppend
  <2>7. \A v \in Worker : teilt(d, M'[v]) /\ teilt(d, rest'[v]) /\ erst'[v] = erst[v]
    BY <1>5, <1>t, <2>4 DEF processUpdate, TypeOK
  <2> QED
    BY <1>t, <2>6, <2>7
<1>6. ASSUME NEW w \in Worker, UpdateRechts(w) PROVE Ziel
  <2>1. rest[w] \in Zahl
    BY <1>6 DEF TypeOK, UpdateRechts, Zahl
  <2>2. \A v \in Worker : AlleTeilbar(d, Gesendet(w, rechts[w], rest[w])[v])
    BY <1>t, <1>r, <2>1, TeilbarGesendet
  <2> QED
    BY <1>6, <1>t, <1>n, <2>2 DEF UpdateRechts, TypeOK
<1>7. ASSUME NEW w \in Worker, UpdateVerwerfen(w) PROVE Ziel
  <2>1. queue[w] \in Seq(Zahl) /\ queue[w] # <<>>
    BY <1>7 DEF TypeOK, UpdateVerwerfen, Bereit
  <2>2. AlleTeilbar(d, Tail(queue[w]))
    BY <1>t, <2>1, TeilbarTail
  <2> QED
    BY <1>7, <1>t, <2>2 DEF UpdateVerwerfen, Entnommen, TypeOK
<1>8. CASE UNCHANGED vars
  BY <1>8, <1>t DEF vars
<1> QED
  BY <1>1, <1>2, <1>3, <1>4, <1>5, <1>6, <1>7, <1>8 DEF Next

\* A common divisor of the numbers entered is never lost: it divides whatever a
\* worker holds and whatever waits in a queue, in every ring and for all numbers.
THEOREM TeilerBleibtImmer == Spec => []TeilerBleiben
<1> DEFINE IInv == TypeOK /\ \A d \in Zahl : Teilbar(d)
<1>1. Init => IInv
  BY TypInit, TeilbarInit
<1>2. IInv /\ [Next]_vars => IInv'
  BY TypSchritt, TeilbarSchritt
<1>3. IInv => TeilerBleiben
  <2> SUFFICES ASSUME IInv, NEW w \in Worker, NEW d \in 1 .. start[w]
               PROVE  TeilerBleibt(d)
    BY DEF TeilerBleiben
  <2>1. d \in Zahl
    BY DEF TypeOK, Zahl
  <2> QED
    BY <2>1 DEF Teilbar, TeilerBleibt, AlleTeilbar
<1> QED
  BY <1>1, <1>2, <1>3, PTL DEF Spec

-----------------------------------------------------------------------------
(***************************************************************************)
(* The ring computes the greatest common divisor.                          *)
(*                                                                         *)
(* That common divisors are not lost (TeilerBleibtImmer) bounds the result *)
(* from below.  That it divides the numbers entered, although a reduced    *)
(* value is overwritten, needs an invariant of its own: whatever divides   *)
(* the values the workers hold up to some size divides every number of     *)
(* that size that was entered, sent or read before.                        *)
(***************************************************************************)

\* d divides every value now held that is at most z.
Haelt(d, z) == \A u \in Worker : M[u] <= z => teilt(d, M[u])

\* The numbers d divides whenever it divides the values held up to their size.
Erzeugt(d) == {z \in Nat : Haelt(d, z) => teilt(d, z)}

Herkunft(d) ==
  /\ start \in [Worker -> Erzeugt(d)]
  /\ erst \in [Worker -> Erzeugt(d)]
  /\ rest \in [Worker -> Erzeugt(d)]
  /\ queue \in [Worker -> Seq(Erzeugt(d))]

-----------------------------------------------------------------------------
\* A reduction takes nothing away: what divides the received and the reduced
\* value divides the one that was overwritten.
LEMMA VorgaengerTeiler ==
  ASSUME NEW d \in Zahl, NEW m \in Zahl, NEW y \in Zahl,
         teilt(d, NaechstesM(m, y)), teilt(d, y)
  PROVE  teilt(d, m)
<1>1. NaechstesM(m, y) \in Nat /\ m \in Nat /\ y \in Nat
  BY NaechstesMGrenzen DEF Zahl
<1>2. PICK a \in Int : NaechstesM(m, y) = d * a
  BY <1>1, TeiltFaktor
<1>3. PICK b \in Int : y = d * b
  BY <1>1, TeiltFaktor
<1>4. PICK k \in Nat : NaechstesM(m, y) = m - y * k
  BY NaechstesMVielfaches
<1>5. d * a + (d * b) * k = d * (a + b * k) /\ a + b * k \in Int
  BY SMT DEF Zahl
<1>6. y * k \in Int
  BY <1>1
<1>7. m = NaechstesM(m, y) + y * k
  BY <1>1, <1>4, <1>6
<1>8. m = d * (a + b * k)
  BY <1>2, <1>3, <1>5, <1>7
<1> QED
  BY <1>1, <1>5, <1>8, TeiltFaktor

LEMMA NullErzeugt ==
  ASSUME NEW d \in Zahl
  PROVE  0 \in Erzeugt(d)
<1>1. teilt(d, 0)
  BY SMT DEF teilt, Zahl
<1> QED
  BY <1>1 DEF Erzeugt

LEMMA SeqMonoton ==
  ASSUME NEW E, NEW F, E \subseteq F, NEW s \in Seq(E)
  PROVE  s \in Seq(F)
  OBVIOUS

\* Sending and taking keep the queues within a set of values.
LEMMA SchlangenIn ==
  ASSUME NEW E, NEW q \in [Worker -> Seq(E)], NEW w \in Worker
  PROVE  /\ \A x \in E : [q EXCEPT ![w] = Append(@, x)] \in [Worker -> Seq(E)]
         /\ q[w] # <<>> => /\ Head(q[w]) \in E
                           /\ [q EXCEPT ![w] = Tail(@)] \in [Worker -> Seq(E)]
<1>1. q[w] \in Seq(E)
  OBVIOUS
<1>2. \A x \in E : Append(q[w], x) \in Seq(E)
  BY <1>1
<1>3. q[w] # <<>> => Head(q[w]) \in E /\ Tail(q[w]) \in Seq(E)
  BY <1>1
<1> QED
  BY <1>2, <1>3

-----------------------------------------------------------------------------
\* The reduction of a worker's value keeps everything in Erzeugt(d) and adds the
\* new value.
LEMMA ErzeugtWaechst ==
  ASSUME TypeOK, NEW d \in Zahl, NEW w \in Worker,
         NEW y \in Erzeugt(d), y \in Zahl, y < M[w],
         M' = [M EXCEPT ![w] = NaechstesM(M[w], y)]
  PROVE  /\ Erzeugt(d) \subseteq Erzeugt(d)'
         /\ NaechstesM(M[w], y) \in Erzeugt(d)'
<1> DEFINE neu == NaechstesM(M[w], y)
<1>1. /\ M[w] \in Zahl /\ M'[w] = neu
      /\ \A u \in Worker \ {w} : M'[u] = M[u]
      /\ \A u \in Worker : M[u] \in Nat
  BY DEF TypeOK, Zahl
<1>2. neu \in Nat /\ neu <= y /\ y \in Nat /\ M[w] \in Nat
  BY <1>1, NaechstesMGrenzen DEF Zahl
<1> HIDE DEF neu
<1>3. ASSUME NEW z \in Nat, \A u \in Worker : M'[u] <= z => teilt(d, M'[u])
      PROVE  \A u \in Worker \ {w} : M[u] <= z => teilt(d, M[u])
  BY <1>1, <1>3
<1>4. ASSUME NEW z \in Erzeugt(d),
             \A u \in Worker : M'[u] <= z => teilt(d, M'[u])
      PROVE  teilt(d, z)
  <2>1. z \in Nat /\ (Haelt(d, z) => teilt(d, z))
    BY DEF Erzeugt
  <2>2. \A u \in Worker \ {w} : M[u] <= z => teilt(d, M[u])
    BY <1>3, <1>4, <2>1
  <2>3. CASE z < M[w]
    <3>1. ~(M[w] <= z)
      BY <1>2, <2>1, <2>3
    <3>2. Haelt(d, z)
      BY <2>2, <3>1 DEF Haelt
    <3> QED
      BY <2>1, <3>2
  <2>4. CASE M[w] <= z
    <3>1. neu <= z /\ ~(M[w] <= y)
      BY <1>2, <2>1, <2>4
    <3>2. teilt(d, neu)
      BY <1>1, <1>4, <3>1
    <3>3. \A u \in Worker \ {w} : M[u] <= y => teilt(d, M[u])
      BY <1>1, <1>2, <2>1, <2>2, <2>4
    <3>4. Haelt(d, y)
      BY <3>1, <3>3 DEF Haelt
    <3>5. teilt(d, y)
      BY <3>4 DEF Erzeugt
    <3>6. teilt(d, M[w])
      BY <1>1, <3>2, <3>5, VorgaengerTeiler DEF neu
    <3>7. Haelt(d, z)
      BY <2>2, <3>6 DEF Haelt
    <3> QED
      BY <2>1, <3>7
  <2> QED
    BY <1>2, <2>1, <2>3, <2>4
<1>5. Erzeugt(d)' = {z \in Nat : (\A u \in Worker : M'[u] <= z => teilt(d, M'[u])) => teilt(d, z)}
  BY DEF Erzeugt, Haelt, teilt
<1>6. Erzeugt(d) \subseteq Nat
  BY DEF Erzeugt
<1>7. neu <= neu
  BY <1>2
<1>8. neu \in Erzeugt(d)'
  BY <1>1, <1>2, <1>5, <1>7
<1>9. Erzeugt(d) \subseteq Erzeugt(d)'
  BY <1>4, <1>5, <1>6
<1> QED
  BY <1>8, <1>9 DEF neu

LEMMA HerkunftInit ==
  ASSUME NEW d \in Zahl, TypeOK, Init
  PROVE  Herkunft(d)
<1>1. ASSUME NEW w \in Worker PROVE start[w] \in Erzeugt(d)
  <2>1. start[w] \in Nat /\ M[w] = start[w] /\ start[w] <= start[w]
    BY DEF Init, TypeOK, Zahl
  <2> QED
    BY <2>1 DEF Erzeugt, Haelt
<1>2. start \in [Worker -> Erzeugt(d)]
  BY <1>1 DEF TypeOK
<1>3. <<>> \in Seq(Erzeugt(d))
  OBVIOUS
<1> QED
  BY <1>2, <1>3, NullErzeugt DEF Herkunft, Init

LEMMA HerkunftSchritt ==
  ASSUME NEW d \in Zahl, TypeOK, Herkunft(d), [Next]_vars
  PROVE  Herkunft(d)'
<1> DEFINE E == Erzeugt(d)
<1>r. \A w \in Worker : links[w] \in Worker /\ rechts[w] \in Worker
  BY RingAnnahme
<1>h. /\ start \in [Worker -> E] /\ erst \in [Worker -> E]
      /\ rest \in [Worker -> E] /\ queue \in [Worker -> Seq(E)]
  BY DEF Herkunft
<1>e. 0 \in E
  BY NullErzeugt
<1>m. ASSUME M' = M PROVE E' = E
  BY <1>m DEF Erzeugt, Haelt, teilt
<1>0. start' = start
  BY DEF Next, Registrieren, ProducerAnlegen, Lesen, ErstesUpdateLinks,
         ErstesUpdateRechts, processUpdate, UpdateRechts, UpdateVerwerfen, vars
\* Steps that leave the workers' values alone.
<1>u. ASSUME M' = M, erst' \in [Worker -> E], rest' \in [Worker -> E],
             queue' \in [Worker -> Seq(E)]
      PROVE  Herkunft(d)'
  BY <1>0, <1>h, <1>m, <1>u DEF Herkunft
<1> HIDE DEF E
<1>1. ASSUME NEW w \in Worker, Registrieren(w) \/ ProducerAnlegen(w)
      PROVE  Herkunft(d)'
  BY <1>1, <1>h, <1>u DEF Registrieren, ProducerAnlegen
<1>2. ASSUME NEW w \in Worker, Lesen(w) PROVE Herkunft(d)'
  <2>1. M[w] \in Nat /\ M[w] <= M[w]
    BY DEF TypeOK, Zahl
  <2>2. M[w] \in E
    BY <2>1 DEF E, Erzeugt, Haelt
  <2> QED
    BY <1>2, <1>h, <1>u, <2>2 DEF Lesen
<1>3. ASSUME NEW w \in Worker, ErstesUpdateLinks(w) PROVE Herkunft(d)'
  <2>1. queue' \in [Worker -> Seq(E)]
    BY <1>3, <1>h, <1>r, SchlangenIn DEF ErstesUpdateLinks, Gesendet
  <2> QED
    BY <1>3, <1>h, <1>u, <2>1 DEF ErstesUpdateLinks
<1>4. ASSUME NEW w \in Worker, ErstesUpdateRechts(w) PROVE Herkunft(d)'
  <2>1. queue' \in [Worker -> Seq(E)]
    BY <1>4, <1>h, <1>r, SchlangenIn DEF ErstesUpdateRechts, Gesendet
  <2> QED
    BY <1>4, <1>h, <1>u, <2>1 DEF ErstesUpdateRechts
<1>5. ASSUME NEW w \in Worker, processUpdate(w) PROVE Herkunft(d)'
  <2> DEFINE y == Head(queue[w])
             neu == NaechstesM(M[w], y)
             F == Erzeugt(d)'
  <2>1. queue[w] # <<>> /\ y < M[w] /\ queue[w] \in Seq(Zahl)
    BY <1>5 DEF processUpdate, Bereit, TypeOK
  <2>2. y \in E /\ y \in Zahl /\ Entnommen(w) \in [Worker -> Seq(E)]
    BY <1>h, <2>1, SchlangenIn DEF Entnommen
  <2>3. M' = [M EXCEPT ![w] = neu]
    BY <1>5 DEF processUpdate
  <2>4. E \subseteq F /\ neu \in F
    BY <2>1, <2>2, <2>3, ErzeugtWaechst DEF E
  <2> HIDE DEF F, neu
  <2>5. Entnommen(w) \in [Worker -> Seq(F)]
    BY <2>2, <2>4, SeqMonoton
  <2>6. /\ queue' = Entnommen(w) \/ queue' = [Entnommen(w) EXCEPT ![links[w]] = Append(@, neu)]
        /\ rest' = [rest EXCEPT ![w] = neu]
        /\ erst' = erst
    BY <1>5 DEF processUpdate, neu
  <2>7. queue' \in [Worker -> Seq(F)]
    <3> DEFINE q == Entnommen(w)
    <3>1. q \in [Worker -> Seq(F)] /\ links[w] \in Worker
      BY <1>r, <2>5
    <3>2. queue' = q \/ queue' = [q EXCEPT ![links[w]] = Append(@, neu)]
      BY <2>6
    <3> HIDE DEF q
    <3>3. [q EXCEPT ![links[w]] = Append(@, neu)] \in [Worker -> Seq(F)]
      BY <2>4, <3>1, SchlangenIn
    <3> QED
      BY <3>1, <3>2, <3>3
  <2>8. /\ start' \in [Worker -> F] /\ erst' \in [Worker -> F]
        /\ rest' \in [Worker -> F]
    BY <1>0, <1>h, <2>4, <2>6
  <2> QED
    BY <2>7, <2>8 DEF Herkunft, F
<1>6. ASSUME NEW w \in Worker, UpdateRechts(w) PROVE Herkunft(d)'
  <2>1. queue' \in [Worker -> Seq(E)]
    BY <1>6, <1>h, <1>r, SchlangenIn DEF UpdateRechts, Gesendet
  <2> QED
    BY <1>6, <1>e, <1>h, <1>u, <2>1 DEF UpdateRechts
<1>7. ASSUME NEW w \in Worker, UpdateVerwerfen(w) PROVE Herkunft(d)'
  <2>1. queue' \in [Worker -> Seq(E)]
    BY <1>7, <1>h, SchlangenIn DEF UpdateVerwerfen, Entnommen, Bereit
  <2> QED
    BY <1>7, <1>h, <1>u, <2>1 DEF UpdateVerwerfen
<1>8. CASE UNCHANGED vars
  BY <1>8, <1>h, <1>u DEF vars
<1> QED
  BY <1>1, <1>2, <1>3, <1>4, <1>5, <1>6, <1>7, <1>8 DEF Next

-----------------------------------------------------------------------------
\* The common value divides itself, hence every number entered; a larger common
\* divisor would have to divide it too.
LEMMA EinigIstGGT ==
  ASSUME TypeOK, Einigung, TeilerBleiben, \A d \in Zahl : Herkunft(d)
  PROVE  FertigIstGGT
<1> SUFFICES ASSUME Fertig, NEW w \in Worker PROVE IstGGT(M[w])
  BY DEF FertigIstGGT
<1> DEFINE m == M[w]
<1>1. m \in Zahl /\ \A u \in Worker : M[u] = m
  BY DEF TypeOK, Einigung
<1> HIDE DEF m
<1>2. teilt(m, m)
  BY <1>1, SMT DEF teilt, Zahl
<1>3. ASSUME NEW v \in Worker PROVE teilt(m, start[v])
  <2>1. start[v] \in Erzeugt(m)
    BY <1>1 DEF Herkunft
  <2>2. Haelt(m, start[v])
    BY <1>1, <1>2 DEF Haelt
  <2> QED
    BY <2>1, <2>2 DEF Erzeugt
<1>4. ASSUME NEW v \in Worker, NEW d \in m + 1 .. start[v],
             \A u \in Worker : teilt(d, start[u])
      PROVE  FALSE
  <2>1. d \in 1 .. start[v] /\ d \in Nat /\ m < d /\ m \in Nat \ {0}
    BY <1>1 DEF TypeOK, Zahl
  <2>2. teilt(d, m)
    BY <1>1, <1>4, <2>1 DEF TeilerBleiben, TeilerBleibt
  <2>3. m % d = m
    BY <2>1, SMT
  <2> QED
    BY <2>1, <2>2, <2>3 DEF teilt
<1> QED
  BY <1>3, <1>4 DEF IstGGT, m

\* In every ring, for all numbers entered and every interleaving: when the
\* messages have run dry each worker holds the greatest common divisor.
THEOREM ErgebnisIstGGT == Spec => []FertigIstGGT
<1> DEFINE Alle == \A d \in Zahl : Herkunft(d)
<1>1. TypeOK /\ Init => Alle
  BY HerkunftInit
<1>2. TypeOK /\ Alle /\ [Next]_vars => Alle'
  BY HerkunftSchritt
<1>3. TypeOK /\ Einigung /\ TeilerBleiben /\ Alle => FertigIstGGT
  BY EinigIstGGT
<1> QED
  BY <1>1, <1>2, <1>3, Typkorrekt, EinigAmEnde, TeilerBleibtImmer, PTL DEF Spec
=============================================================================
