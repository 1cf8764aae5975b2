----------------------------- MODULE Sortieranlage -----------------------------
(***************************************************************************)
(* The two plants with their belts: plant 1 lets the workpieces pass in    *)
(* the order HB, H, F, HBM and hands them to plant 2, which measures them  *)
(* again; what does not fit goes into a slide.                             *)
(*                                                                         *)
(* The belts form one line of positions; a workpiece moves one position    *)
(* in a tick at high speed and in two ticks at low speed.  A Tick lets all *)
(* region timers and the timed sorters count; then the workpieces on the   *)
(* running belts move and the sensors they pass send their pulses.  A      *)
(* workpiece moves when the pulses sent before have been handled: they     *)
(* take milliseconds, a tick half a second.                                *)
(***************************************************************************)
EXTENDS Anlagensteuerung, FiniteSets, FiniteSetsExt

CONSTANTS
  Plaetze,      \* names for the workpieces that are in the plants at one time
  Arten,        \* kinds of workpieces the user has
  Klemmt,       \* plants in whose slide a workpiece may stay at the light barrier
  RutschenZeit, \* ticks until a blocked slide is reported as full
  Verlust,      \* may a workpiece be taken off a belt?
  MitNotHalt,   \* may an emergency stop be pressed?
  Gesperrt,     \* where an earlier workpiece keeps the user from putting on the next
  OffenZeit     \* ticks the switch stays open, or the ejector out

ASSUME SortieranlageAnnahme ==
  /\ IsFiniteSet(Plaetze)
  /\ Arten \subseteq WerkstueckTyp
  /\ Klemmt \subseteq {1, 2} /\ RutschenZeit \in Nat \ {0}
  /\ Verlust \in BOOLEAN /\ MitNotHalt \in BOOLEAN
  /\ Gesperrt \subseteq Nat
  /\ OffenZeit \in Nat \ {0}

Anlagen == {1, 2}

\* Where the light barriers are: at high speed a belt takes the calibrated
\* time of a distance to cover it.
Strecke(n) == Basis[n].schnell

LSA == [a \in Anlagen |->
          IF a = 1 THEN 0 ELSE Strecke("lsh") + Strecke("lsw") + Strecke("lse") + Strecke("lsa")]
LSH == [a \in Anlagen |-> LSA[a] + Strecke("lsh")]
LSW == [a \in Anlagen |-> LSH[a] + Strecke("lsw")]
LSE == [a \in Anlagen |-> LSW[a] + Strecke("lse")]

\* The height is known at the end of the workpiece, one position behind LSH;
\* the slide's light barrier is two positions behind the sorter.
LSHEnde == [a \in Anlagen |-> LSH[a] + 1]
LSR == [a \in Anlagen |-> LSW[a] + 2]

VARIABLES
  anlage,    \* state machine and data of each plant
  kanal,     \* the pulses that wait for each state machine
  aktor,     \* motor, sorter and lamps of each plant
  ws,        \* the workpieces
  zuBewegen, \* workpieces that have yet to move in this tick
  naechster, \* index of the type expected next at the end of plant 2
  verloren   \* has a workpiece been taken off a belt?

vars == <<anlage, kanal, aktor, ws, zuBewegen, naechster, verloren>>

\* A workpiece: where it is, whether it has covered half of the way to the
\* next position, and what it is.
Werkstuecke == [weg : {"lager", "band", "abzweig"}, pos : Nat, halb : BOOLEAN,
                art : WerkstueckTyp]
ImLager == [weg |-> "lager", pos |-> 0, halb |-> FALSE, art |-> "UNBEKANNT"]

Befehlspuls == [sig : BefehlSignale, wert : {"-"}]

\* offen: the way behind LSW is open; uhren: ticks until the threads that
\* sleep in weicheAuf close it, or until the ejector draws back; wartend:
\* the commands that wait while the HAL thread sleeps with the ejector out;
\* rutsche: ticks the slide's light barrier has been blocked, 0 when it is
\* free, more than RutschenZeit when the slide has been reported as full.
Aktor == [motor : {"stop", "langsam", "schnell"}, offen : BOOLEAN,
          uhren : SUBSET (1..OffenZeit), wartend : Seq(Befehlspuls),
          q1 : BOOLEAN, gelb : BOOLEAN, rutsche : 0..(RutschenZeit + 1)]

Meldung(sig) == [sig |-> sig, wert |-> "-"]

NeuerAktor(a) ==
  [motor |-> "stop", offen |-> a = 2, uhren |-> {}, wartend |-> <<>>,
   q1 |-> FALSE, gelb |-> FALSE, rutsche |-> 0]

-----------------------------------------------------------------------------
(***************************************************************************)
(* The HAL.  Plant 1 has a switch: it is closed, an open command opens it  *)
(* and a thread of its own closes it again.  Plant 2 has an ejector: the   *)
(* HAL thread sleeps while it is out, the commands wait.                   *)
(***************************************************************************)
durchlassenWeiche(k) ==
  IF k.offen THEN k ELSE [k EXCEPT !.offen = TRUE, !.uhren = @ \cup {OffenZeit}]

aussortierenWeiche(k) == [k EXCEPT !.offen = FALSE]

durchlassenAuswerfer(k) == [k EXCEPT !.offen = TRUE]

aussortierenAuswerfer(k) == [k EXCEPT !.offen = FALSE, !.uhren = {OffenZeit}]

Blockiert(a, k) == a = 2 /\ ~k.offen

Befehl(a, k, m) ==
  LET sig == m.sig IN
  CASE Blockiert(a, k)              -> [k EXCEPT !.wartend = Append(@, m)]
    [] ~Blockiert(a, k) /\ sig = "CMD_DURCHLASSEN" ->
         IF a = 1 THEN durchlassenWeiche(k) ELSE durchlassenAuswerfer(k)
    [] ~Blockiert(a, k) /\ sig = "CMD_AUSSORTIEREN" ->
         IF a = 1 THEN aussortierenWeiche(k) ELSE aussortierenAuswerfer(k)
    [] ~Blockiert(a, k) /\ sig = "CMD_WCH_AUS" ->
         IF a = 1 THEN aussortierenWeiche(k) ELSE k
    [] ~Blockiert(a, k) /\ sig = "CMD_MTR_STOP"     -> [k EXCEPT !.motor = "stop"]
    [] ~Blockiert(a, k) /\ sig = "CMD_MTR_RECHTS_L" -> [k EXCEPT !.motor = "langsam"]
    [] ~Blockiert(a, k) /\ sig = "CMD_MTR_RECHTS_S" -> [k EXCEPT !.motor = "schnell"]
    [] ~Blockiert(a, k) /\ sig \in {"CMD_LED_Q1_AN", "CMD_LED_Q1_AUS"} ->
         [k EXCEPT !.q1 = (sig = "CMD_LED_Q1_AN")]
    [] ~Blockiert(a, k) /\ sig \in {"CMD_LED_AMP_GLB_B", "CMD_LED_AMP_GLB_AUS"} ->
         [k EXCEPT !.gelb = (sig = "CMD_LED_AMP_GLB_B")]

Befehle(a, k, s) == FoldLeft(LAMBDA h, m : IF FuerHAL(m) THEN Befehl(a, h, m) ELSE h, k, s)

\* (altered) the commands that have come while the ejector was out are lost
Geschlafen_vergesslich(a, k) ==
  LET wach == [k EXCEPT !.uhren = {u - 1 : u \in @ \ {1}}]
  IN  CASE 1 \notin k.uhren        -> wach
        [] 1 \in k.uhren /\ a = 1 -> [wach EXCEPT !.offen = FALSE]
        [] OTHER -> [durchlassenAuswerfer(wach) EXCEPT !.wartend = <<>>]

\* A tick passes: threads that have slept long enough close the switch, the
\* HAL thread draws the ejector back and goes on with the commands.
Geschlafen(a, k) ==
  LET wach == [k EXCEPT !.uhren = {u - 1 : u \in @ \ {1}}]
  IN  CASE 1 \notin k.uhren        -> wach
        [] 1 \in k.uhren /\ a = 1 -> [wach EXCEPT !.offen = FALSE]
        [] OTHER -> Befehle(2, [durchlassenAuswerfer(wach) EXCEPT !.wartend = <<>>], k.wartend)

\* The timer of the slide's light barrier: a slide that has been blocked for
\* RutschenZeit ticks is reported as full, once.
RutscheGezaehlt(k) ==
  IF k.rutsche \in 1..RutschenZeit THEN [k EXCEPT !.rutsche = @ + 1] ELSE k

RutscheVoll(a) ==
  IF aktor[a].rutsche = RutschenZeit
  THEN <<Meldung(IF a = 1 THEN "EC_RTSCH1_VOLL" ELSE "EC_RTSCH2_VOLL")>> ELSE <<>>

RutscheFrei(a) == Meldung(IF a = 1 THEN "CMD_RTSCH1_NV" ELSE "CMD_RTSCH2_NV")

\* The channel k of machine z after plant a's dispatcher has passed on the
\* pulses s.
KanalNach(z, k, a, s) ==
  FoldLeft(LAMBDA h, m : IF ~FuerHAL(m) /\ z \in Ziele(a, m.sig) THEN Einreihen(h, m) ELSE h,
           k, s)

Zustellen(K, a, s) == [z \in Anlagen |-> KanalNach(z, K[z], a, s)]

\* The machine of plant a becomes g; what it has sent is carried out and delivered.
Uebernehmen(a, K, g) ==
  /\ anlage' = [anlage EXCEPT ![a] = [g EXCEPT !.aus = <<>>]]
  /\ aktor' = [aktor EXCEPT ![a] = Befehle(a, @, g.aus)]
  /\ kanal' = Zustellen(K, a, g.aus)

-----------------------------------------------------------------------------
Ruhe == \A a \in Anlagen : kanal[a] = <<>>

Auf(w) == ws[w].weg # "lager"
AufBand(a) == {w \in Plaetze : /\ Auf(w)
                               /\ ws[w].pos \in LSA[a]..LSE[a]}
AnlageVon(w) == IF ws[w].pos <= LSE[1] THEN 1 ELSE 2

Init ==
  /\ anlage = [a \in Anlagen |-> [AufWSWarten_entry(NeueAnlage(a)) EXCEPT !.aus = <<>>]]
  /\ kanal = [a \in Anlagen |-> <<>>]
  /\ aktor = [a \in Anlagen |-> Befehle(a, NeuerAktor(a), AufWSWarten_entry(NeueAnlage(a)).aus)]
  /\ ws = [w \in Plaetze |-> ImLager]
  /\ zuBewegen = {}
  /\ naechster = 0
  /\ verloren = FALSE

\* The state machine thread takes its most urgent pulse.
Verarbeiten(a) ==
  /\ kanal[a] # <<>>
  /\ Uebernehmen(a, [kanal EXCEPT ![a] = Tail(@)], handleEvent(anlage[a], Head(kanal[a])))
  /\ UNCHANGED <<ws, zuBewegen, naechster, verloren>>

-----------------------------------------------------------------------------
(***************************************************************************)
(* The belts.                                                              *)
(***************************************************************************)
\* Behind LSE1 a workpiece lies on both belts.
Laeuft(w) ==
  /\ aktor[AnlageVon(w)].motor # "stop"
  /\ ws[w].pos = LSE[1] => aktor[2].motor # "stop"
  /\ ws[w].pos # LSE[2]

\* At low speed a workpiece covers half of the way to the next position.
Schnell(w) == aktor[AnlageVon(w)].motor = "schnell"
Rueckt(w) == Auf(w) /\ Laeuft(w) /\ (Schnell(w) \/ ws[w].halb)

\* The workpieces keep their distance, the first one on a belt moves first.
Beweglich(w) ==
  /\ w \in zuBewegen
  /\ Laeuft(w)
  /\ \A v \in zuBewegen :
       Laeuft(v) /\ AnlageVon(v) = AnlageVon(w) => ws[v].pos <= ws[w].pos

Tick ==
  /\ Ruhe
  /\ ~\E w \in zuBewegen : Beweglich(w)
  /\ LET g == [a \in Anlagen |-> updateTimers(anlage[a])]
     IN  /\ anlage' = [a \in Anlagen |-> [g[a] EXCEPT !.aus = <<>>]]
         /\ kanal' = Zustellen(Zustellen(kanal, 1, g[1].aus \o RutscheVoll(1)),
                               2, g[2].aus \o RutscheVoll(2))
  /\ aktor' = [a \in Anlagen |-> RutscheGezaehlt(Geschlafen(a, aktor[a]))]
  /\ ws' = [w \in Plaetze |->
       IF Auf(w) /\ Laeuft(w) /\ ~Schnell(w) THEN [ws[w] EXCEPT !.halb = ~@] ELSE ws[w]]
  /\ zuBewegen' = zuBewegen \cup {w \in Plaetze : Rueckt(w)}
  /\ UNCHANGED <<naechster, verloren>>

\* What the height sensor of plant a may report of a workpiece.
Messung(art) ==
  CASE art = "F" -> "WERKSTUECK_FLACH"
    [] art = "H" -> "WERKSTUECK_HOCH"
    [] art \in {"HB", "HBM"} -> "WERKSTUECK_MIT_BOHRUNG"
    [] OTHER -> "WERKSTUECK_UNBEKANNT"

\* The sensors of plant a a workpiece on the belt passes on its way to
\* position p.
SensorPulse(a, p, art) ==
  CASE a = 2 /\ p = LSA[2]  -> <<Meldung("S_LSA2_UB")>>
    [] p = LSH[a]           -> <<Meldung("S_LSH_UB")>>
    [] p = LSHEnde[a]       -> <<Meldung(Messung(art)), Meldung("S_LSH_NUB")>>
    [] p = LSW[a] /\ art = "HBM" -> <<Meldung("S_METAL_AN"), Meldung("S_LSW_UB")>>
    [] p = LSW[a] /\ art # "HBM" -> <<Meldung("S_LSW_UB")>>
    [] p = LSE[a]           -> <<Meldung(IF a = 1 THEN "S_LSE1_UB" ELSE "S_LSE2_UB")>>
    [] OTHER                -> <<>>

\* Behind LSW a workpiece goes on when the way is open.
Bewegen(w) ==
  LET p   == ws[w].pos + 1
      a   == IF p <= LSE[1] THEN 1 ELSE 2
      weg == IF ws[w].pos = LSW[a] /\ ~aktor[a].offen THEN "abzweig" ELSE ws[w].weg
      marke == p \in {LSA[a], LSH[a], LSHEnde[a], LSW[a], LSE[a]}
  IN  /\ Ruhe
      /\ Beweglich(w)
      /\ ~(weg = "abzweig" /\ p = LSR[a])
      /\ kanal' = IF weg = "abzweig" THEN kanal
                  ELSE Zustellen(kanal, a, SensorPulse(a, p, ws[w].art))
      /\ ws' = [ws EXCEPT ![w] = [ws[w] EXCEPT !.pos = p, !.weg = weg,
                                                !.halb = ws[w].halb /\ ~marke]]
      /\ zuBewegen' = zuBewegen \ {w}
      /\ UNCHANGED <<anlage, aktor, naechster, verloren>>

\* A workpiece gets to the light barrier of the slide, where it may stay; when
\* one stays there already, the light barrier sees no other.
Rutschen(w) ==
  LET a == AnlageVon(w)
      frei == aktor[a].rutsche = 0
  IN  /\ Ruhe
      /\ Beweglich(w)
      /\ ws[w].weg = "abzweig" /\ ws[w].pos + 1 = LSR[a]
      /\ \E bleibt \in IF a \in Klemmt THEN BOOLEAN ELSE {FALSE} :
           /\ kanal' = Zustellen(kanal, a,
                (IF frei THEN <<Meldung("S_LSR_UB")>> ELSE <<>>)
                \o (IF frei /\ ~bleibt THEN <<RutscheFrei(a)>> ELSE <<>>))
           /\ aktor' = IF frei /\ bleibt THEN [aktor EXCEPT ![a].rutsche = 1] ELSE aktor
      /\ ws' = [ws EXCEPT ![w] = ImLager]
      /\ zuBewegen' = zuBewegen \ {w}
      /\ UNCHANGED <<anlage, naechster, verloren>>

-----------------------------------------------------------------------------
(***************************************************************************)
(* The user.                                                               *)
(***************************************************************************)
Stillstand == Ruhe /\ ~\E w \in zuBewegen : Beweglich(w)

\* A workpiece is put on belt 1 when the lamp of the start button is on; who
\* has taken one away waits for the alarm.
Auflegen(w, art) ==
  /\ Stillstand
  /\ anlage[1].zustand = "Betriebszustand"
  /\ ~Auf(w)
  /\ aktor[1].q1
  /\ ~verloren
  /\ ~\E v \in Plaetze : Auf(v) /\ ws[v].pos \in Gesperrt
  /\ ws' = [ws EXCEPT ![w] = [ImLager EXCEPT !.weg = "band", !.pos = LSA[1], !.art = art]]
  /\ kanal' = Zustellen(kanal, 1, <<Meldung("S_LSA1_UB")>>)
  /\ UNCHANGED <<anlage, aktor, zuBewegen, naechster, verloren>>

\* A workpiece is taken off the end of belt 2.
AmEnde(w) == ws[w].weg = "band" /\ ws[w].pos = LSE[2]

Entnehmen(w) ==
  /\ Stillstand
  /\ AmEnde(w)
  /\ ws' = [ws EXCEPT ![w] = ImLager]
  /\ naechster' = (naechster + 1) % 4
  /\ kanal' = Zustellen(kanal, 2, <<Meldung("S_LSE2_NUB")>>)
  /\ zuBewegen' = zuBewegen \ {w}
  /\ UNCHANGED <<anlage, aktor, verloren>>

\* A workpiece is taken off the belt where no light barrier sees it.
Wegnehmen(w) ==
  /\ Stillstand
  /\ Verlust /\ ~verloren
  /\ Auf(w) /\ ~\E a \in Anlagen : ws[w].pos \in {LSH[a], LSE[a]}
  /\ ws' = [ws EXCEPT ![w] = ImLager]
  /\ verloren' = TRUE
  /\ UNCHANGED <<anlage, kanal, aktor, zuBewegen, naechster>>

\* A slide is emptied.
RutscheLeeren(a) ==
  /\ Stillstand
  /\ aktor[a].rutsche > 0
  /\ aktor' = [aktor EXCEPT ![a].rutsche = 0]
  /\ kanal' = Zustellen(kanal, a, <<RutscheFrei(a)>>)
  /\ UNCHANGED <<anlage, ws, zuBewegen, naechster, verloren>>

\* An emergency stop; both plants enter EStop, and leave it together (NotHalt).
NotHalt ==
  /\ Stillstand
  /\ MitNotHalt /\ \A a \in Anlagen : anlage[a].zustand # "EStop"
  /\ LET g == [a \in Anlagen |-> EStopBetreten(anlage[a])]
     IN  /\ anlage' = [a \in Anlagen |-> [g[a] EXCEPT !.aus = <<>>]]
         /\ aktor' = [a \in Anlagen |-> Befehle(a, aktor[a], g[a].aus)]
  /\ UNCHANGED <<kanal, ws, zuBewegen, naechster, verloren>>

\* The belts are cleared, both plants reset and started again; this takes longer
\* than any region timer runs.
Neustart ==
  /\ Stillstand
  /\ \A a \in Anlagen : /\ anlage[a].zustand = "EStop"
                          /\ \A n \in TimerNamen : ~laeuft(anlage[a].d.timer[n])
                          /\ aktor[a].uhren = {}
  /\ LET g == [a \in Anlagen |-> Neubeginn(anlage[a])]
     IN  /\ anlage' = [a \in Anlagen |-> [g[a] EXCEPT !.aus = <<>>]]
         /\ aktor' = [a \in Anlagen |-> Befehle(a, aktor[a], g[a].aus)]
  /\ ws' = [w \in Plaetze |-> ImLager]
  /\ zuBewegen' = {}
  /\ naechster' = 0
  /\ verloren' = FALSE
  /\ UNCHANGED kanal

Next ==
  \/ Tick
  \/ NotHalt \/ Neustart
  \/ \E a \in Anlagen : Verarbeiten(a) \/ RutscheLeeren(a)
  \/ \E w \in Plaetze : Bewegen(w) \/ Rutschen(w) \/ Entnehmen(w) \/ Wegnehmen(w)
  \/ \E w \in Plaetze, art \in Arten : Auflegen(w, art)

Spec == Init /\ [][Next]_vars

\* Does time change anything?
ZeitWirkt ==
  \/ \E a \in Anlagen : \/ \E n \in TimerNamen : laeuft(anlage[a].d.timer[n])
                         \/ aktor[a].uhren # {}
                         \/ aktor[a].rutsche \in 1..RutschenZeit
  \/ \E w \in Plaetze : Auf(w) /\ Laeuft(w)

\* The threads run, time passes, the belts move, and nothing stays at the end
\* of belt 2 for ever; nobody has to put on another workpiece or to empty a
\* slide.  Weak fairness with its guards written out: TLC need not find by
\* trial whether a handler is enabled.
Fairness ==
  /\ []<>~(Stillstand /\ ZeitWirkt) \/ []<><<Tick>>_vars
  /\ \A a \in Anlagen : []<>(kanal[a] = <<>>) \/ []<><<Verarbeiten(a)>>_vars
  /\ \A w \in Plaetze :
       /\ []<>~(Ruhe /\ Beweglich(w)) \/ []<><<Bewegen(w) \/ Rutschen(w)>>_vars
       /\ []<>~AmEnde(w) \/ []<><<Entnehmen(w)>>_vars

FairSpec == Spec /\ Fairness

-----------------------------------------------------------------------------
TimerBereit == \A a \in Anlagen : \A n \in TimerNamen :
  anlage[a].d.timer[n] \in [phase : {"inaktiv", "zeit", "toleranz"}, pausiert : BOOLEAN,
                            stand : 0..Ganz(n)]

TypeOK ==
  /\ TimerBereit
  /\ \A a \in Anlagen :
       /\ anlage[a].zustand \in {"Betriebszustand", "Fehlerbehandlung", "EStop"}
       /\ anlage[a].bz \in {"AufWSWarten", "Sortierung"}
       /\ anlage[a].lsa \in LSAZustand /\ anlage[a].lsh \in LSHZustand
       /\ anlage[a].lsw \in LSWZustand /\ anlage[a].lse \in LSEZustand
       /\ anlage[a].warn \in WarnZustand
       /\ anlage[a].d.fehler \in [art : Fehlerart, ort : FehlerOrt]
       /\ anlage[a].d.werkstueckListe \in Seq(Werkstueck)
       /\ anlage[a].d.erwarteteTypenQueue \in Seq(WerkstueckTyp)
       /\ anlage[a].d.order_index \in 0..3
       /\ anlage[a].d.anzahlWS \in Nat
  /\ aktor \in [Anlagen -> Aktor]
  /\ ws \in [Plaetze -> Werkstuecke]
  /\ zuBewegen \subseteq Plaetze
  /\ naechster \in 0..3
  /\ verloren \in BOOLEAN

-----------------------------------------------------------------------------
(***************************************************************************)
(* Properties.  What the machines know is compared with the belts when all *)
(* pulses have been handled.                                               *)
(***************************************************************************)
InBetrieb == \A a \in Anlagen : anlage[a].zustand = "Betriebszustand"

\* No plant stops with an error unless a workpiece has been taken away, or
\* slide 2 is full and plant 2 has to sort a workpiece out: every workpiece
\* reaches every light barrier when its timer expects it, whatever the distance
\* to the next one that Gesperrt permits.
KeinFehlalarm ==
  (\E a \in Anlagen : anlage[a].zustand = "Fehlerbehandlung")
    => anlage[2].d.fehler.art = "rutscheVoll" \/ verloren

\* The workpieces of a set, the first one on the belts first.
Folge(W) == SetToSortSeq(W, LAMBDA v, w : ws[v].pos > ws[w].pos)

\* What the software can know of a workpiece before the switch.
Bekannt(a, w) ==
  CASE ws[w].pos < LSHEnde[a] -> "UNBEKANNT"
    [] ws[w].pos >= LSHEnde[a] /\ ws[w].art = "HBM" -> "HB"
    [] OTHER -> ws[w].art

\* The list of a plant names the workpieces between its first light barrier
\* and its switch in the order in which they lie there, each with its type
\* as soon as its height has been measured.
ListeGleichBand ==
  Ruhe /\ InBetrieb /\ ~verloren =>
    \A a \in Anlagen :
      LET W == {w \in Plaetze : Auf(w) /\ ws[w].pos \in LSA[a]..(LSW[a] - 1)}
          L == anlage[a].d.werkstueckListe
      IN  [i \in DOMAIN L |-> L[i].typ] = [i \in 1..Cardinality(W) |-> Bekannt(a, Folge(W)[i])]

\* Each plant counts the workpieces it has not yet handed over or sorted out.
AnzahlStimmt ==
  Ruhe /\ InBetrieb /\ ~verloren =>
    /\ anlage[1].d.anzahlWS =
         Cardinality({w \in Plaetze :
           /\ Auf(w) /\ ws[w].pos <= LSE[1]
           /\ ws[w].pos = LSE[1] => anlage[1].lse = "WartenAufErlaubnisVonF2"})
    /\ anlage[2].d.anzahlWS = Cardinality({w \in Plaetze : Auf(w) /\ ws[w].pos >= LSA[2]})

\* At the end of plant 2 the workpieces arrive in the sorting order.
ReihenfolgeAmEnde ==
  ~verloren =>
    \A w \in Plaetze : AmEnde(w) => ws[w].art = sollReihenfolge[naechster + 1]

\* The type the order wants of workpiece w, after those before it on the
\* belts that take their turn.
Gewuenscht(w) ==
  LET vor == {v \in Plaetze : ws[v].weg = "band" /\ ws[v].pos > ws[w].pos}
      weiter(i, v) == IF ws[v].art = sollReihenfolge[i + 1] THEN (i + 1) % 4 ELSE i
  IN  sollReihenfolge[FoldLeft(weiter, naechster, Folge(vor)) + 1]

\* Plant 2 expects exactly the workpieces plant 1 has let through and that
\* have not yet reached its own switch, in their order: each by its type, or
\* as UNBEKANNT when it is not its turn and plant 1 had no room for it.
ErwartungStimmt ==
  Ruhe /\ InBetrieb /\ ~verloren =>
    LET W == {w \in Plaetze : /\ ws[w].weg = "band"
                              /\ ws[w].pos \in LSW[1]..(LSW[2] - 1)
                              /\ ws[w].pos = LSW[1] => aktor[1].offen}
        angekuendigt(w) == IF ws[w].art = Gewuenscht(w) THEN ws[w].art ELSE "UNBEKANNT"
    IN  anlage[2].d.erwarteteTypenQueue =
          [i \in 1..Cardinality(W) |-> angekuendigt(Folge(W)[i])]

\* No workpiece whose turn it is gets into a slide.
NichtsRichtigesAussortiert ==
  ~verloren =>
    \A w \in Plaetze : ws[w].weg = "abzweig" => ws[w].art # Gewuenscht(w)

\* A plant rests only when no workpiece lies on it, and a workpiece that
\* is handed over finds plant 2 running.
RuheLeer ==
  Ruhe /\ InBetrieb =>
    /\ anlage[1].bz = "AufWSWarten" => ~\E w \in Plaetze : Auf(w) /\ ws[w].pos <= LSE[1]
    /\ anlage[2].bz = "AufWSWarten" =>
         ~\E w \in Plaetze : Auf(w) /\ ws[w].pos > LSE[1]

\* While a plant sorts its yellow lamp blinks if and only if its slide has been
\* reported as full, also when that happened while the plant rested.
WarnlampeStimmt ==
  Ruhe /\ InBetrieb =>
    \A a \in Anlagen : anlage[a].bz = "Sortierung" /\ ~Blockiert(a, aktor[a]) =>
      (aktor[a].gelb <=> aktor[a].rutsche > RutschenZeit)

\* When no workpiece is left on either belt both belts stand: the count that
\* reaches zero last stops them, whichever plant it is on.
LeerSteht ==
  Ruhe /\ InBetrieb /\ ~verloren /\ (\A w \in Plaetze : ~Auf(w)) /\ ~Blockiert(2, aktor[2])
    => \A a \in Anlagen : aktor[a].motor = "stop"

\* The belt of a plant that rests, has stopped with an error or by an emergency
\* stop, or waits to hand a workpiece over, stands: whatever the regions sent on
\* leaving, and also when the stop came while the ejector kept the HAL asleep.
BandSteht ==
  \A a \in Anlagen :
    /\ ~Blockiert(a, aktor[a])
    /\ \/ anlage[a].zustand # "Betriebszustand" \/ anlage[a].bz = "AufWSWarten"
       \/ anlage[a].lse = "WartenAufErlaubnisVonF2"
    => aktor[a].motor = "stop"

\* The lamp of the start button invites the user to put a workpiece on belt 1
\* exactly while plant 1 would take it in.
StartlampeStimmt ==
  anlage[1].zustand = "Betriebszustand" =>
    (aktor[1].q1 <=> anlage[1].bz = "AufWSWarten" \/ anlage[1].lsa = "NaechsteWSErlaubt")

\* A workpiece the lamp has invited is never an error at the first light barrier,
\* whatever has happened between the lamp and the pulse.
EinladungGilt ==
  \A a \in Anlagen : anlage[a].d.fehler # [art |-> "neuWS", ort |-> "LSA1"]

\* Both plants agree on whether plant 2 is ready; it is taken for ready only with
\* fewer than two workpieces, and plant 1 does not wait for a permission that it
\* has been given.
FreigabeStimmt ==
  Ruhe =>
    /\ anlage[1].d.f2_bereit <=> anlage[2].d.f2_bereit
    /\ anlage[1].d.f2_bereit => anlage[2].d.anzahlWS < 2
    /\ /\ anlage[1].zustand = "Betriebszustand" /\ anlage[1].bz = "Sortierung"
       /\ anlage[1].lse = "WartenAufErlaubnisVonF2"
       => ~anlage[2].d.f2_bereit

\* Neither plant takes a plant for free that counts a workpiece, and no plant has
\* been sent to rest while it counts one: CMD_FESTOS_FREI and S_FESTO1_STOPPEN are
\* never sent on what the sender knew of the other plant a moment ago.
BelegungBekannt ==
  /\ Ruhe => \A a \in Anlagen :
       /\ anlage[a].d.festo1Frei => anlage[1].d.anzahlWS = 0
       /\ anlage[a].d.festo2Frei => anlage[2].d.anzahlWS = 0
  /\ \A a \in Anlagen :
       anlage[a].zustand = "Betriebszustand" /\ anlage[a].bz = "AufWSWarten"
         => anlage[a].d.anzahlWS = 0

\* Full slides change where a workpiece leaves the belts and nothing else: what
\* plant 1 has no room for and lets through is neither missed nor expected as
\* one that is wanted, whenever a slide fills up or is emptied.
RutschenUnschaedlich == KeinFehlalarm /\ ErwartungStimmt /\ NichtsRichtigesAussortiert

\* What the reset after an emergency stop deletes and what it keeps does no harm
\* to the workpieces that come later, whenever the stop was: the counts, the
\* announced types and the order start anew on both plants alike.
NeustartUnschaedlich ==
  KeinFehlalarm /\ AnzahlStimmt /\ ErwartungStimmt /\ ReihenfolgeAmEnde

\* Every workpiece put on the belt gets into a slide or to the end of plant 2
\* and is taken off: no hand-over waits for a plant that waits for another.
WirdFertig == \A w \in Plaetze : Auf(w) ~> ~Auf(w) \/ verloren

\* A workpiece that disappears from a belt is missed, wherever it was: some
\* timer runs out in a region that waits for it, and both plants stop.
VerlustBemerkt ==
  verloren ~> \A a \in Anlagen : anlage[a].zustand # "Betriebszustand"
=============================================================================
