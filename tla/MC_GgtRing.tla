----------------------------- MODULE MC_GgtRing -----------------------------
(***************************************************************************)
(* GgtRing for TLC: a ring of AnzahlWorker workers and a direct definition *)
(* of what it has to compute.                                              *)
(***************************************************************************)
EXTENDS GgtRing, FiniteSetsExt

CONSTANTS AnzahlWorker, MaxZahl

MCWorker == 0 .. AnzahlWorker - 1
MCrechts == [w \in MCWorker |-> (w + 1) % AnzahlWorker]
MClinks  == [w \in MCWorker |-> (w + AnzahlWorker - 1) % AnzahlWorker]

\* The ring can be turned: the first worker has the largest number.  The additional
\* numbers have common divisors in pairs, but none all together.
MCEingaben == {s \in [MCWorker -> 1 .. MaxZahl] : s[0] = MaxZahl}
              \cup {s \in [MCWorker -> {3, 4, 6}] : s[0] = 6 /\ s[1] = 4 /\ s[2] = 3}

GGT == Max({d \in 1 .. start[0] : \A w \in Worker : teilt(d, start[w])})

\* The messages do run dry: every round ends with the greatest common divisor.
KommtZumErgebnis == <>[](Fertig /\ \A w \in Worker : M[w] = GGT)
=============================================================================
