# Verification of Networks-Distributed

TLA+ models, model-checking runs and machine-checked proofs for the programs of
this repository. Identifiers keep the (partly German) names of the source.

## 1. Inventory

The repository collects independent programs.

### 1.1 embedded-systems: two coupled sorting plants (C++, QNX)

Two conveyor plants, each with a control panel, sort workpieces together. Each
plant runs the same program.

| Component | State it keeps | Operations | Talks to |
|---|---|---|---|
| Dispatcher (`Dispatcher/dispatcher.cpp`) | channel with priorities, connection ids | `run`, `signalHandlung`, `weiterleiten`, `bestimmtPrioritaet`, `istMeinSignal` | buttons, sensors, machine, HAL, neighbour's dispatcher |
| Verbindung (`Dispatcher/Verbindung.cpp`) | connection state, missed heartbeats, neighbour id | `verbinden`, `sendenAnNachbarn`, `resetHerzschlag`, `checkTick` | neighbour over Qnet |
| Root state machine (`HFSM/rootfsm`, `Context.cpp`) | current root state, deep history, `ContextData` | one method per signal, `leavingState`, entry points | dispatcher (commands, partner reports) |
| `estopfsm`, `RZfsm`, `fehlerbehandlungfsm` | current sub-state | one method per signal | root machine |
| `betriebszustandfsm` with the five regions of `orthfsm` | state of each region, deep history | sensor, timer, slide and partner signals | root machine, `ContextData` |
| `ContextData`, `Werkstueck` | list of workpieces before the switch, count, sorting index, queue of announced types, what is known of the other plant, last error | called by every region | `Actions` |
| `RegionTimer` | phase, part covered, paused | `starte`, `aktualisiere`, `pausiere`, `fortsetzen` | started by the regions, counted by `Context::run`, sends the timer signals |
| HAL (`HAL.cpp`, `HAL/*`) | motor, switch or ejector with its sleeping thread, lamps | `run`: one case per command | dispatcher |
| Buttons, sensors | last level, interrupt status | interrupt threads | dispatcher |

Threads per plant: dispatcher, machine, HAL, four buttons, sensors, heartbeat
timer, detached threads of the switch. All communication is by pulses through
priority channels. Hard: pulses of different priority overtake each other in
three channels in a row; the link fails and comes back; two operators act at the
same time; a sorting machine keeps sending motor commands while an emergency
stop is under way; threads share hardware registers and the switch; each plant
decides with what it has last heard of the other one; the picture the software
has of the belts is made of counts, lists and timers that are stopped and
restarted by several regions.

Correct means: an emergency stop on either panel stops both belts and keeps
them stopped; both machines agree; operation resumes only after the resets and
starts of both panels; a fault is left only when acknowledged or gone. At the end
of plant 2 workpieces arrive in the order HB, H, F, HBM; no workpiece whose turn
it is gets into a slide; a lost workpiece is noticed and nothing else is taken
for one; no workpiece is stranded; an empty plant stands.

### 1.2 networks-distributed

* **distributed-gcd-ring** (Java, ActiveMQ): a chef plans a ring of workers, one
  per number, ambassadors start them as processes, workers exchange UPDATE
  messages until all hold the greatest common divisor. State: `M` of each
  worker, a queue per worker, `worker_configs` and processes of each ambassador,
  a latch in the chef. Hard: two threads per worker from the start, messages
  dropped before the producer exists, rounds with fixed waiting times, queues
  that outlive a round. Correct means: the workers agree, on the right number.
* **distributed-robotarm-control** (Java, TCP): a registry, terminal clients and
  robot nodes. The registry (`registered_endpoints`, `id_counter`, a thread per
  request) sends a token to the first client; a client (menu thread and token
  management, two semaphores, one queue of answers) passes it to the client with
  the next number when it does not use it, and controls a robot while it has it.
  Hard: requests handled in parallel, two threads on one queue, lists that are old
  when used, clients that quit or are killed. Correct means: one token, it is not
  lost, everyone who waits gets it, answers reach the thread that asked.
* **remote-procedure-call** (Java, UDP): client stub with a pool of five
  threads, skeleton and server. Hard: a lost datagram. Correct means: every call
  is answered with its own result.
* **chatprotocol** (Java, NIO): distance-vector routing with split horizon and
  TTL. Hard: routes that become stale, loops.
* **cyber-physical-system** (Python, MQTT): charging cluster that sells charging
  ports by Dutch auctions to vehicles, or assigns them directly. Hard: bids
  against ticks, mode switches, releases.

### 1.3 Not program logic of its own

`algorithms-datastructure` (sequential numeric optimisation with random
numbers), `data-science` (notebooks), the course's chaos master, generated
register headers, and `servicemode_fsm`, which no signal can reach.

## 2. Modules

| Module | Models |
|---|---|
| `Signale` | signals, their priorities, which are passed to the neighbour, priority channels |
| `WurzelFSM` | the root machine and its sub-machines as functions from a machine and a pulse to the machines that may result, with the pulses sent on the way |
| `NotHalt` | both plants: dispatcher, machine and HAL threads, panels, link |
| `MC_NotHalt` | start states for TLC |
| `NotHaltBeweis` | proofs about `NotHalt`: types, the belt in the safe states |
| `NotHaltAbbildBeweis` | proofs that both plants know every emergency stop, both belts stand, and that the plants agree and start again only after all their buttons |
| `RegionTimer` | a region timer |
| `Streckenzeit` | one workpiece on the distance of one region timer |
| `RegionTimerBeweis` | proofs about `Streckenzeit` |
| `Kontextdaten` | `ContextData`: list, count, order, announced types, timers |
| `Sortierung` | `AufWSWarten` and `Sortierung` with its five regions: one operator per entry, exit and handler |
| `Anlagensteuerung` | one operator per trigger of `Sortierung`, `Betriebszustand` and `Context::handleEvent` around it, dispatcher of the sorting pulses |
| `Sortieranlage` | both plants with belts, sensors, sorters, HAL, workpieces and user |
| `MC_Sortieranlage` | calibrated times for TLC |
| `SortieranlageBeweis` | proofs about `Sortieranlage`: types, the warning lamp |
| `BetriebBeweis` | proofs about `Sortieranlage`: belts, start lamp, what the plants know of each other |
| `GgtRing` | the workers of one round of the GCD ring |
| `MC_GgtRing` | instance for TLC and the direct definition of the result |
| `GgtRingBeweis` | proofs about `GgtRing`: types, supply, agreement, common divisors, and that the ring computes the greatest common divisor |
| `TokenRing` | registry, clients and robot of the robot arm control |
| `Steuerrecht` | what the token ring promises: one holder of the right to control |
| `MC_TokenRing` | clients and their names for TLC |
| `TokenRingBeweis` | proofs about the token of `TokenRing` and its refinement |
| `TokenRingPost` | proofs about its answers and entries, and that the token stays |

### 2.1 NotHalt

State and code: `fsm[a]` is the machine of plant `a` (root state, sub-states,
`reset_abgeschlossen`, the error of `ContextData`); `dis`, `hfsm` and `hal` are
the channels, one queue per priority; `motor` is the belt; `gedrueckt` the
switches; `verbunden` is `istVerbunden()`, `leitung` the real link. One action
per pulse handled by a thread: `Dispatch` (`signalHandlung`, with the send to
the neighbour), `Hfsm` (`handleEvent`, including every pulse the entered and
left states send), `Hal` (`HAL::run`). `Sortieren` stands for the sensor and
timer pulses: the regions are abstracted to the motor commands, the flag and
the errors they can produce. `NotHaltDruecken`, `NotHaltLoesen` and
`TasteDruecken` are the operators, `FehlerGeht` the signals that a fault is
gone, `LeitungWechsel`, `Zeitablauf` and `Verbinden` the link.

`Bedienung` says how fast operators are: "langsam" (only when no pulse is under
way), "zuegig" (a switch is worked again only after its last pulse has been
handled), "eilig" (at any time). The difference matters: two of the findings
need a hurried operator or a failing link, and what holds without them is
checked without them.

The runs start in operation (`BetriebInit`), a state `Spec` reaches when both
panels are started, so that the bounds are spent on what follows.

| Run | Shows |
|---|---|
| `nothalt_neustart` | patient operators, 8 inputs: the machines agree on EStop; operation resumes only after all resets and starts; liveness: a pressed switch stops both belts |
| `nothalt_zuegig` | both machines know which switches are pressed; both belts stand |
| `nothalt_motor` | hurried operators, faults, failing link: no motor command is executed after the stop of EStop or Fehlerbehandlung |
| `nothalt_ausfall` (violated) | stop pressed while the link is down is not told after the reconnection |

Bounds: `MaxEingaben` counts button, chute and link events, `MaxSortieren` the
steps of the sorting machines. Eight inputs cover a press, a release, two
resets, two starts and two more; the overtaking needs two or three inputs and
one motor command on its way. Fairness: each thread is a loop over a blocking
receive, so a waiting pulse is received in the end (weak fairness of
`Dispatch`, `Hfsm`, `Hal`); operators, faults and the link owe nothing.
`CHECK_DEADLOCK FALSE`: when the inputs are used up and the channels are empty
the system waits for an operator.

### 2.2 The sorting plants

A plant's machine is a record: root state, state of each region, data (`d`),
signals sent (`aus`). Each handler of the code is an operator from record to
record, so that a handler that enters a state runs its entry, which may enter
the next. `Sortieranlage` composes two of them: `Verarbeiten(a)` takes the most
urgent pulse of machine `a` and carries out what it sends: commands go to the
HAL, pulses to the machines `Ziele` names. Dispatcher and HAL thread are merged
into that step, as `NotHalt` already has their interleavings; the two machines
stay concurrent. `Tick` is T_PULSE_TICK with time of the sorters and slides;
`Bewegen` and `Rutschen` move one workpiece past the sensors; `Auflegen`,
`Entnehmen`, `Wegnehmen`, `RutscheLeeren` are the user; `NotHalt` and `Neustart`
the emergency stop and the whole way back, whose interleavings `NotHalt` has.

A belt is a line of positions. A workpiece moves one position in a tick at high
speed, half of one at low speed; a tick stands for about 0.58 s. Pulses are
handled before the next workpiece moves: they take milliseconds. `BasisKlein`
keeps the proportions of the calibrated times on plant 1 (4 : 2 : 4 : 1 at high
speed, about twice at low speed) and lets both plants have the same. `OffenZeit`
2 is the second the switch stays open, `RutschenZeit` 5 the three seconds of a
blocked slide.

`Gesperrt` says how far the previous workpiece must have come before the user
puts on the next. {10, 11} is LSE1 and the position behind it: everything the
lamp permits but the moment of the hand-over. {} permits that too (`uebergabe`).
0..11 makes the user wait until the previous one has left plant 1.

| Run | Shows |
|---|---|
| `sortieren` | two workpieces of all four kinds, at any distance but the hand-over: no false alarm, list, count and announced types equal what lies on the belts, the order at the end, nothing right sorted out, nothing stranded, empty belts stand, an invited workpiece is never an error, both plants agree on whether plant 2 is ready and none waits in vain, every workpiece comes to its end |
| `rutschen` | both slides fill and are emptied at any time, a workpiece may be taken off a belt anywhere between the light barriers: no false alarm, the expected order is the one the sorted workpieces give, nothing wanted is sorted out (`RutschenUnschaedlich`), the warning lamp shows the slides, and the loss is always noticed |
| `neustart` | emergency stop at any moment, belts cleared, reset, start, with slides that fill up: what the reset keeps does no harm to the next workpieces: no false alarm, the counts, the expected order and the order at the end are still right (`NeustartUnschaedlich`); a belt that must not run stands, the start lamp invites only while a workpiece is taken in, a plant is taken for free only when it counts none |
| `uebergabe` (violated) | a workpiece between LSE1 and LSA2 when plant 2 gets empty: both plants rest, the workpiece is stranded |

Two workpieces are in the plants at a time, which covers a list with two
entries, both plants busy, plant 2 with its limit of two, and a hand-over while
another is on its way; each is put on again after it has left, so runs are
unbounded in length and the order turns over. `rutschen` and `neustart` have
two kinds (HB, first in the order, and H), enough for right and wrong ones.
`Neustart` waits until no region timer and no switch thread is running; nobody
puts on a workpiece after one has been taken away until the alarm. Both plants
measure the same.

Fairness: the threads are loops over a blocking receive, belts that run move,
time passes, and whoever clears the end of plant 2 does so in the end. Nobody
has to put on another workpiece or empty a slide. `Fairness` is weak fairness
with the guards written out. Deadlock is checked in all runs of this part.

### 2.3 GgtRing

`main[w]` is how far the constructor of `WorkerListener` has come, the actions
`Registrieren` to `ErstesUpdateRechts` are its steps; the session thread
(`processUpdate`, `UpdateRechts`, `UpdateVerwerfen`) runs as soon as the
listener is registered. `broker.send` drops a message as long as there is no
producer. Both sends of an update are separate steps. `rest[w]` is the value
that has still to be sent to the right.

| Run | Shows |
|---|---|
| `ggt_ring` | 3 workers, all numbers up to 4 (the largest at the first worker, by symmetry of the ring) and 6, 4, 3: `Versorgung`, agreement, divisors, result; the messages run dry |

Three workers are the smallest ring in which the two neighbours of a worker
differ and are not its only partners. Fairness: both threads of a worker keep
running. `CHECK_DEADLOCK FALSE`: the round ends when nothing is left to send.
Assumed: positive numbers (with 0 the remainder throws, negative numbers have
no meaning in the algorithm), a fresh queue per worker.

### 2.4 TokenRing

`registered`, `id`, `id_counter`, `sperre` are the registry, with the lock of
REGISTER; `anfragen` counts the requests it has not handled, which its pool
threads may handle in any order. REGISTER has two steps, `Eintragen` (entry and
answer) and `Zaehlen` (count and first token), because LIST and UNREGISTER do
not take the lock. `main[c]` and `manager[c]` are where the menu thread and the
token management of a client are, `queue[c]` the answers in COM, `comToken[c]`
and `perm[c]` the permits of the two token semaphores. Every blocking call
(`get_next_message`, `wait_for_token`, `token_semaphore.acquire`) ends an
action, so that each thread can be overtaken where it waits. A token is in one of four
places, which `Tokens(c)` adds up.

A message is in the receiver's queue as soon as it is sent: COM has one reader
thread, and the receiver may still take its time. The shutdown hook is one step.
The registry and the robot stay up and can be reached; a robot that cannot be
reached is one of the exceptions of `Ausnahme`.

| Run | Shows |
|---|---|
| `token_ring` | 3 clients come and stay: exactly one token, the ring implements `Steuerrecht`, everyone who waits gets the robot |
| `token_namen` | 3 clients, two of one name, shut down or killed at any time, control with exceptions: answers go to the thread that waits for them; no living client loses its entry |
| `token_ende` (violated) | shutdown against a registration under way: two tokens |

Three clients are the smallest ring in which the neighbour is not the
predecessor and somebody can be left out; the second token needs two. Each
process is started once, as a restarted client is a new process; two processes
of one name stand for a restart. The switches `MitListe`, `MitEnde`,
`MitAbsturz`, `MitAusnahmen` separate what holds with and without shutdowns, kills and
exceptions. `token_ring` leaves out menu entry 2 to keep the liveness check
small; `token_namen` has it. A client that quits with the token, or before its
registration is answered (its entry then stays and counts), leaves the others
without a token: `KommtDran` fails with `MitEnde`, and no run claims it.

Fairness: weak for the registry's threads, the robot and the user who has the
robot (someone who never names one keeps the token by design); strong for the
steps that take a semaphore permit: a free token stays in `token_semaphore` for
500 ms each time, and the menu thread, which types between two requests, cannot
overtake the token management for ever. `CHECK_DEADLOCK FALSE` where clients may
end: all may have ended. `token_ring` checks it: the ring never stops.

## 3. Proofs

`NotHaltBeweis`, for every speed of the operators and any number of inputs, link
failures and sorting steps, with all errors the sorting machine may meet:

* `Typkorrekt`: type correctness. Every handler of the root machine leads from
  machines to machines (`handleEventTyp`), whatever pulse arrives in whatever state.
* `MotorAus`: `MotorAusImNotHalt`. It is not inductive: it says nothing while a
  motor command waits. `IInv` says where the stop is that was sent on entering
  EStop or Fehlerbehandlung (`StoppAuf`): with the dispatcher, with no
  `CMD_MTR_RECHTS_S` behind it in its queue; or with the HAL, the dispatcher
  holding no motor command any more; or executed, with no motor command anywhere.
  A `CMD_MTR_RECHTS_L` has a queue of its own that is served before the stop's in
  both channels, so it is gone by then; this needs that every pulse waits in the
  queue of its priority (`Geordnet`) and the HAL gets nothing but motor commands
  (`NurMotor`). The handlers contribute `Bremst`: a machine that is in one of
  the two states afterwards was there before and sent nothing, or a stop is the
  last thing it sent. One lemma per thread says what its step does to the stop.

The invariant does not depend on where the machine starts, as long as it is not
in EStop or Fehlerbehandlung with the belt running: the start state of the runs
satisfies it as well.

`NotHaltAbbildBeweis`, while the link holds (`~MitAusfall`) and no switch is
pressed again before its last pulses are delivered (`Bedienung` # "eilig"), for any
number of inputs on both panels at once, any faults and sorting steps:

* `AbbildStimmt`: `NotHaltAbbild`. It says nothing while a pulse is under way, so
  the invariant `WegInv` follows each pulse from the panel of a to the machine of
  each plant c (`AufWeg`). `Abbild(a, c)`: while the switch is down its press is on
  the way to c or c knows it, and no release is; while it is up a press on the way
  or one that c knows has its release on the way, too. That only works if the
  release stays behind its press (`NichtUeberholt`): S_E_G is more urgent than
  S_E_NG in each channel and is passed on first by each dispatcher. The handlers contribute
  one lemma: what a machine knows afterwards is what it knew, with the pulse
  (`handleEventLage`, for every state of the root machine, its sub-machines and every pulse).
* `BeideBaenderStehen`: `NotHaltStopptBeideBaender`, from `AbbildStimmt` and
  `MotorAus`: a machine that knows an emergency stop is in EStop.

Both assumptions are needed. With a failing link the property is false
(`nothalt_ausfall`); with "eilig" a second press overtakes the first release,
and a machine forgets a switch that is down.

When moreover one button is worked at a time (`Bedienung` = "langsam"):

* `AnlagenEinig`: `Einig`. The invariant `GleichInv` names the one pulse of a
  panel under way and the state of estopfsm both machines were in before it: a
  machine it is still on its way to is in that state, one that has handled it is in the next
  (`Schritthalten`). Where the pulse is: not yet distributed, or with each plant
  waiting, queued or handled.
* `NeustartVerdient`: `NeustartNurMitBeidenResets`. Each state after EStop is
  earned: `Verdient` says which of the four buttons must have been pressed for a
  machine to be there, and a button that is pressed is counted before a machine hears of it.

With "zuegig" `Einig` is false: the reset of one plant and the release of the
other reach the two machines in different orders, and one of them ignores the
reset.

`RegionTimerBeweis`, for every region timer of a belt and all calibrated times
with high speed no slower than low speed and 7 * low + 100 <= 40 * high
(`Kalibriert`; with the 20 ms tick all times of `ContextData.cpp:36-61` satisfy
it, the largest ratio being 3.45), when belt and timer agree on the speed:

* `KeinFalscherVerlust`: the timer of a workpiece on its way never runs out.
* `ImmerAngekuendigt`, `NieZuFrueh`: a workpiece at a light barrier has been
  announced, and not before 93 % of the way.

None is inductive. `WegStimmt` relates timer and belt: in the first phase the
timer has counted exactly the way covered; in the second the way is at least
93 % and one slow step for each tick counted. So a workpiece on its way in tick k
of the second phase has 100 k < 7 low (`Kuerzen`), and `ToleranzReicht` shows
that 40 % of the time at high speed are then not over.

`SortieranlageBeweis`, for all calibrated times, any number and kinds of
workpieces, any `Gesperrt`, `Klemmt`, `RutschenZeit` and `OffenZeit`, with losses
and emergency stops (`BasisAnnahme` and `SortieranlageAnnahme` are all it assumes):

* `Typkorrekt`: `TypeOK`. Every handler of every region leads from machines to
  machines (`EventBehandelt`), whatever pulse comes in whatever state, so no list
  is corrupted, no timer passes its time and no count gets negative by an order of
  pulses nobody has thought of.
* `LampeLuegtNie`: `WarnlampeStimmt`. It compares the lamp with the slide while no
  pulse waits and no command does. Between the two lie the channel of the
  machine, its flag `rutsche_voll`, the region `Warnung`, which is left and entered
  again with `Sortierung`, and the HAL, which sleeps with the ejector out. `IInv`
  has one part for each: the flag, after the pulses of the channel (`Voll`), says
  whether the slide has been reported as full; `Warnung` warns if and only if the
  flag is set (`WarnungWieRutsche`); the lamp, after the commands that wait
  (`EndGelb`), is on if and only if `Warnung` warns (`LampeWieWarnung`). Two things
  had to be added: commands wait only while the ejector is out (`Bereit`), and the
  pulses of slide 1 stay on plant 1 (`FuerAlle`), while those of slide 2 do get to
  plant 1 and must not touch its flag.
  `Letztes` is the common form of both: what a sequence of switching pulses leaves.
  A channel keeps it, although pulses overtake each other, because those of the
  slides share one priority (`EinreihenVoll`).

  A region changes nothing the lamp depends on (`Folgt`), or asks to leave
  (`Region`); leaving, faults and the emergency stop keep the flag (`Bleibt`).
  These relations are carried through the handlers entry by entry.

The channels and the HAL go through sequences by `FoldLeft`. What a fold
computes is shown here from its definition, by induction stated for sets
(`Induktion`, from the well-foundedness of Nat): `FaltungDa` and `FaltungLauf` say
that a fold is the end of a run of single steps, `BefehleLauf` and `KanalLauf`
are its two uses. TLC has checked `IInv` as an invariant on the instances of
`rutschen` and `neustart`.

`BetriebBeweis`, under the same assumptions (`BasisAnnahme`,
`SortieranlageAnnahme`) and with the types and the lamp from `SortieranlageBeweis`:

* `BandStehtImmer`: `BandSteht`. `StartlampeImmer`: `StartlampeStimmt`.
* `EinladungGiltImmer`: `EinladungGilt`. `FreigabeImmer`: `FreigabeStimmt`.
  `BelegungImmer`: `BelegungBekannt`.

They share one invariant, `BInv`, because none can be kept without the others:
plant 1 waits for a permission, so its belt must stand; the permission is a report
of plant 2's count; the count says who may be sent to rest; rest switches the
lamp; and the lamp decides when a workpiece can arrive. Each property compares two
places between which commands and pulses are under way, so `BInv` speaks of what
will be: `Kern(e, g)` is what matters of a machine, its states, flags and count,
with the position each switch (belt, lamp, ready, free) has once all that was sent
is carried out. The other plant's picture (`EndBereit`, `EndFrei`) and the HAL
(`EndSteht`, `EndQ1`) use the same form, so that the step that hands pulses and
commands over needs one argument for each: the channel keeps the order of pulses
that switch one thing, as they have one priority, and the HAL keeps all order.

* `AllesRichtig`: `Richtig` holds of the core of each plant as each plant sees it.
  A handler may be wrong in the middle (the exit of `WartenAufErlaubnisVonF2`
  starts the belt before the stop is sent), so the
  lemmas about regions and exits say what is left to be done (`Gut`, and one
  relation per exit), and only the whole handler leads from `Richtig` to `Richtig`.
* `Wirkung`: what a handler may send. `CMD_FESTOS_FREI` comes only from a plant
  that has no workpiece left and, if it is plant 2, for a sensor pulse and with
  plant 1 known as free; `S_FESTO1_STOPPEN` only for S_LSA2_UB.
* `Einig`: both machines will believe the same of plant 2.
* `Ordnung`: which pulses can wait together. The belts move only when no pulse
  waits (`Ruhe`), so a sensor pulse comes alone; a workpiece at LSA1 that follows
  the lamp meets a machine that takes it; "in use" from plant 1 arrives before a
  workpiece leaves plant 2; whoever is being sent to rest counts nothing.

The lemmas carry this through the regions, `Sortierung`, the root machine and
`Context::handleEvent`; then there is one lemma per action of `Next`, and for
`Verarbeiten` one per part of the invariant. TLC has checked `BInv` on the instances of `sortieren`,
`rutschen` and `neustart` before it was proved. What this does not depend on is as
telling as what it says: no time, no distance, no position of a workpiece occurs,
so the five properties hold on belts of any length, with any calibration and with
any number of workpieces on them. `Ruhe` before each movement is the one
assumption about time: pulses are handled within milliseconds, a position takes
half a second.

`GgtRingBeweis`, for every ring (`RingAnnahme`, `EinRing`) and all positive numbers:

* `Typkorrekt`: type correctness. The core is `NaechstesMGrenzen`: the new value
  lies between 1 and the value received.
* `ImmerVersorgt`: `TypeOK /\ Versorgung` is inductive. `Einigung` is not: it
  says nothing of messages under way. `Versorgung` says for each worker and
  neighbour that the value has arrived, waits, or will still be sent; one case
  per action.
* `EinigAmEnde`: when nothing is left to send, the workers no larger than a given
  one are closed under the neighbour relation, so they are the ring.
* `TeilerBleibtImmer`: a common divisor of the numbers entered divides all
  values; the invariant adds what the constructor has read and `rest`.

* `ErgebnisIstGGT`: when the messages have run dry, the common value is the
  greatest common divisor. It is a multiple of every common divisor by
  `TeilerBleibtImmer`; that it divides the numbers entered is the harder half, as
  a reduction overwrites the value and stale ones are still on their way. The
  invariant `Herkunft(d)`, for every d: a number z that was entered, sent or read
  is divided by d if d divides all values now held up to z. A reduction of m to m'
  by a received y < m keeps it (`ErzeugtWaechst`): below m nothing has changed, and
  from m on d divides m' and y, hence m (`VorgaengerTeiler`). At the end d is the
  common value itself.

Termination (`KommtZumErgebnis`) is model-checked: liveness is out of the
prover's reach.

`TokenRingBeweis`, for every set of clients and names:

* `Typkorrekt`: type correctness, with every switch on. No permit is taken that
  is not there.
* `HoechstensEinToken`: `EinToken` from `~MitEnde`, with kills, exceptions and
  equal names. `EinToken` is not inductive: the registry makes a token when it
  counts one client. `KeinerVorher` says that there is none until the first
  client has been counted, `Ordnung` that nobody unregisters and the lock belongs to an
  entered client. Every step of a client keeps its tokens (`Behaltend`), may lose
  them (`Verlierend`) or passes one on. `~MitEnde` is needed: `token_ende` is the
  counterexample without it.
* `RingErfuelltSteuerrecht`: the ring implements `Steuerrecht`, from `~MitEnde`.
  By `EinToken` the client with a token is the holder of the right
  (`BesitzerHatToken`); a step of one client that gives it no token then is one of
  begin, end or loss, whatever the client does.

`TokenRingPost`, for every set of clients and names, with every switch on:

* `JedeAntwortErwartet`, `RichtigeAntwort`, `EintragBleibt`: the properties of the
  answers and of the entries. They share one invariant, `Fach(c)`: what is on
  its way for a client by where its menu thread is. Nothing in the messages keeps
  the two threads apart that take from one queue; `EinPermit` does: the token
  management asks only with the permit in its hand, so never while the menu
  thread controls the robot, even if the registry has sent a second token.
  `Beendet` says what a client leaves behind: one UNREGISTER for its own entry at
  most, and names are unique among the entries (`NamenEinmal`).
* `TokenGehtNichtVerloren`: `TokenDa`, from `~MitEnde`, `~MitAbsturz` and
  `~MitAusnahmen`. The steps that could drop the token need an answer without a
  list, which `Fach` excludes; and only entered clients, which are alive, are sent
  a token (`Eingetragen`).

Model-checked only:

* Liveness (`WirdFertig`, `VerlustBemerkt`, `NotHaltWirkt`, `KommtZumErgebnis`,
  `KommtDran`), which is out of the prover's reach as a whole.
* The properties of `Sortieranlage` that compare the software with what lies on
  the belts: `KeinFehlalarm`, `ListeGleichBand`, `AnzahlStimmt`, `ErwartungStimmt`,
  `ReihenfolgeAmEnde`, `NichtsRichtigesAussortiert`, `RuheLeer`, `LeerSteht`, and
  `RutschenUnschaedlich` and `NeustartUnschaedlich` made of them. They are not true
  for every value of the constants: a false alarm throws the plants out of step,
  and there is one when the times of a region do not fit its distance, with a
  third workpiece, or with a `Gesperrt` that lets a workpiece into the hand-over
  (section 5, `uebergabe`). A theorem would need a condition on the times of all regions
  together and an invariant that places every workpiece between the timers. For
  one region that is `Streckenzeit` with `RegionTimerBeweis`; for the five regions
  of two belts with two speeds and pauses it is left to TLC.

## 4. What the requirements say and where it is checked

The requirements (`doc/Anforderungsanalyse`) the sorting runs are about:

| Requirement | Property |
|---|---|
| order of the workpieces at the end (REQ_1, REQ_3 to REQ_6) | `ReihenfolgeAmEnde`, `NichtsRichtigesAussortiert`, `ErwartungStimmt` |
| belt stands without workpieces (REQ_9) | `LeerSteht`, `RuheLeer` |
| at most two workpieces on plant 2 (REQ_11) | `WirdFertig`, `AnzahlStimmt` (the limit itself is a guard of the code) |
| lost and unknown workpieces (REQ_38, REQ_39) | `VerlustBemerkt`, `KeinFehlalarm` |
| full slides (REQ_40, REQ_50 to REQ_54) | `WarnlampeStimmt`, `RutschenUnschaedlich` |

## 5. Observations outside the runs

Found with the same modules by changing constants or a definition for a moment;
each is listed as a hazard or follows from one.

* REQ_10 (low speed while a height is measured) holds on belt 1 and fails on belt
  2: clearing the end of plant 2 starts the belt at high speed
  (`RegionLSWBisLSEWartenBisWSEntfernt.cpp:26-31`) while the next workpiece is
  measured.
* A loss is not noticed when the next workpiece follows at the distance the lamp
  permits: it restarts the one timer of the region (`VerlustBemerkt` with
  `Gesperrt` = {10, 11}).
* `datenprozessLoeschen` leaves `festo2Frei` alone: after an emergency stop with a
  workpiece on plant 2, one that is sorted out on plant 1 leaves belt 1 running
  (`LeerSteht` with `MitNotHalt`). It leaves the timers alone, too: one that runs
  since before a short stop raises a false alarm.
* When plant 2 measures something else than plant 1, the announced type stays in
  its queue; later workpieces whose turn it is are sorted out.
* With three workpieces, plant 2 can stop just after a permitted hand-over while
  plant 1's `lsa_timer` runs on: a false verlorenWS.
* A release of the emergency stop can be overtaken by the next press, S_PARTNER_OK
  of an old fault can end a new one, and an exception while controlling the robot
  loses the token (`NotHalt` with `Bedienung` = "eilig", `TokenRing` with
  `MitAusnahmen`).

## 6. Not modelled

* Resuming a sorting that a fault or the stop button interrupted (deep history):
  entries of the regions run again, timers go on from where they were, what lies
  on the belts is what the operator has left there. `Fehlerbehandlung` is left
  only by an emergency stop in `Sortieranlage`.
* Interrupt registers shared by the button and sensor threads, sampling of the
  height, wrong measurements, metal seen too late.
* `servicemode_fsm` (no signal can reach it), the counting of heartbeats.
* Start-up. The models start when all channels exist. In the code the dispatcher
  opens those of HAL and machine once, while both threads are still starting
  (`dispatcher.cpp:69` and `:77`); one that is missing then stays missing.
* The chef and the ambassadors of the GCD ring with their rounds, robots as
  endpoints of the registry, the remote procedure call (one socket per call,
  no timeout), the chat, the charging system: independent programs beside the
  plants, listed with their hazards or as components.

What is not proved is listed at the end of section 3.
