----------------------------- MODULE SleepChain -----------------------------
(***************************************************************************)
(* The low power application on a line of nodes (src/firmware/src/sleep.cpp): *)
(* node 1 is the initiator, every node sends the SYNC with the data it has *)
(* gathered to the next one, and sleeps until shortly before the next SYNC. *)
(*                                                                         *)
(* Time is discrete. Tick passes one unit for the whole line, and waits    *)
(* for every handler that is due. Of the layers below there is left a      *)
(* transmission that lasts Airtime to MaxSend units and whose SYNC arrives *)
(* once at most, if the next node is awake to hear a copy of it.           *)
(***************************************************************************)
EXTENDS Integers, Sequences, FiniteSetsExt

CONSTANTS
  N,          \* nodes on the line, SLEEP_QUANTITAT_DISPOSITIUS
  Cycle,      \* SLEEP_CYCLE_DURATION
  Extra,      \* SLEEP_EXTRA_TIME
  Airtime,    \* transmitTime: one copy of the SYNC on air
  MaxSend,    \* all the copies, with their share of SLEEP_DELTA_EXTRA
  MaxData,    \* SLEEP_MAX_DATA_SIZE, in readings of SLEEP_DATASIZE_PER_NODE
  Drift,      \* errors of the clock in one sleep
  Losses,     \* TRUE: a SYNC may be lost or refused
  MaxFaults   \* bound: nodes that lose power, altogether

Nodes == 1..N

MaxSince == 2 * Cycle  \* bound: a node awake for longer would not sleep at all

ASSUME SleepAssumption ==
  /\ N \in Nat \ {0} /\ Cycle \in Nat /\ Extra \in Nat
  /\ MaxSend \in Nat /\ Airtime \in 1..MaxSend
  /\ MaxData \in Nat \ {0}
  /\ Drift \subseteq Int /\ 0 \in Drift
  /\ Losses \in BOOLEAN /\ MaxFaults \in Nat

WAIT_FIRST_SYNC == "SLEEP_WAIT_FIRST_SYNC"
PROPAGATE       == "SLEEP_PROPAGATE"
SLEEP           == "SLEEP_SLEEP"
WAIT_SYNC       == "SLEEP_WAIT_SYNC"

\* A transmission: whether it is on, for how long, whether the SYNC has
\* arrived, and its data, the nodes whose readings it carries.
Idle == [on |-> FALSE, age |-> 0, arrived |-> FALSE, data |-> <<>>]
Sending(data) == [Idle EXCEPT !.on = TRUE, !.data = data]

VARIABLES
  powered,     \* the node has power: without it RTC memory is lost as well
  sleepState,  \* in RTC memory: survives deep sleep
  deltaTime,   \* in RTC memory
  isSync,      \* in RAM
  since,       \* millis() - tempsSync of a node that is awake, to MaxSince
  timer,       \* what is left of its sleep
  link,        \* link[n]: the transmission of node n to the next one
  faults,      \* history: nodes that lost power
  lost         \* history: a SYNC was lost or refused, or a node lost power

nodeVars == <<powered, sleepState, deltaTime, isSync, since, timer>>
vars == <<nodeVars, link, faults, lost>>

---------------------------------------------------------------------------
Initiator(n) == n = 1

\* A node that runs: the others have no power or are in deep sleep.
Awake(n) == powered[n] /\ sleepState[n] # SLEEP

\* A node that was awake for a whole copy of what it receives.
Hears(n) == Awake(n) /\ (sleepState[n] = WAIT_SYNC => since[n] >= Airtime)

\* Mutant: no allowance for the copies the nodes before this one may need.
NoDeltaTime == 0

computeDeltaTime == N * MaxSend

\* Mutant: half of the window.
HalfTimeout(n) == deltaTime[n] + Extra

\* timeout_ms, from the wake-up.
SyncTimeout(n) == 2 * deltaTime[n] + 2 * Extra

\* Mutant: the reading goes before those that came.
WithReadingFirst(n, data) ==
  IF Len(data) + 1 <= MaxData THEN <<n>> \o data ELSE data

\* The first half of forwardSync: the reading of this node, if there is room.
WithReading(n, data) ==
  IF Len(data) + 1 <= MaxData THEN Append(data, n) ELSE data

\* Mutant: the node wakes when it expects the SYNC.
SleepTimeNoMargin(n, synced, at) ==
  IF ~Initiator(n) /\ synced THEN Cycle - at - Airtime ELSE Cycle - at

\* What goToSleep asks of the clock, `at' units after the reference: the
\* SYNC, or the boot for the initiator and after a timeout.
SleepTime(n, synced, at) ==
  IF ~Initiator(n) /\ synced
  THEN Cycle - at - Airtime - deltaTime[n] - Extra
  ELSE Cycle - at

goToSleep(n, synced, at) ==
  /\ \E e \in Drift :
       timer' = [timer EXCEPT ![n] = Max({SleepTime(n, synced, at) + e, 0})]
  /\ sleepState' = [sleepState EXCEPT ![n] = SLEEP]
  /\ isSync' = [isSync EXCEPT ![n] = FALSE]
  /\ since' = [since EXCEPT ![n] = 0]

\* forwardSync, `at' units after the reference, with the transmissions of the
\* other nodes as in `links'. Transport_send may refuse the SYNC: then the
\* node goes to sleep at once.
forwardSync(n, data, synced, at, links) ==
  \/ /\ link' = [links EXCEPT ![n] = Sending(WithReading(n, data))]
     /\ sleepState' = [sleepState EXCEPT ![n] = PROPAGATE]
     /\ isSync' = [isSync EXCEPT ![n] = synced]
     /\ since' = [since EXCEPT ![n] = at]
     /\ UNCHANGED <<timer, lost>>
  \/ /\ Losses
     /\ goToSleep(n, synced, at)
     /\ link' = links
     /\ lost' = TRUE

---------------------------------------------------------------------------
(* Sleep_init, at power on and after every deep sleep. *)

\* The initiator sets PROPAGATE and schedules onSyncReceived; the others
\* compute the tolerance once, as long as RTC memory keeps it.
PowerOn(n) ==
  /\ ~powered[n]
  /\ powered' = [powered EXCEPT ![n] = TRUE]
  /\ IF Initiator(n)
     THEN sleepState' = [sleepState EXCEPT ![n] = PROPAGATE] /\ UNCHANGED deltaTime
     ELSE deltaTime' = [deltaTime EXCEPT ![n] = computeDeltaTime] /\ UNCHANGED sleepState
  /\ UNCHANGED <<isSync, since, timer, link, faults, lost>>

Wake(n) ==
  /\ powered[n] /\ sleepState[n] = SLEEP /\ timer[n] = 0
  /\ sleepState' = [sleepState EXCEPT ![n] = IF Initiator(n) THEN PROPAGATE ELSE WAIT_SYNC]
  /\ UNCHANGED <<powered, deltaTime, isSync, since, timer, link, faults, lost>>

\* RTC memory goes with the power, and the SYNC being sent as well.
PowerOff(n) ==
  /\ powered[n] /\ faults < MaxFaults
  /\ powered' = [powered EXCEPT ![n] = FALSE]
  /\ sleepState' = [sleepState EXCEPT ![n] = WAIT_FIRST_SYNC]
  /\ deltaTime' = [deltaTime EXCEPT ![n] = 0]
  /\ isSync' = [isSync EXCEPT ![n] = FALSE]
  /\ since' = [since EXCEPT ![n] = 0]
  /\ timer' = [timer EXCEPT ![n] = 0]
  /\ link' = [link EXCEPT ![n] = Idle]
  /\ faults' = faults + 1
  /\ lost' = TRUE

---------------------------------------------------------------------------
(* The events of sleep_fsm. *)

\* The onSyncReceived task the initiator has scheduled: its reference is its
\* boot, so what it waited is part of the cycle.
Scheduled(n) == powered[n] /\ Initiator(n) /\ sleepState[n] = PROPAGATE /\ ~isSync[n]

Initiate(n) ==
  /\ Scheduled(n)
  /\ forwardSync(n, <<>>, TRUE, since[n], link)
  /\ UNCHANGED <<powered, deltaTime, faults>>

\* Mutant: the first SYNC is ignored as well.
TakesSynced(n) == sleepState[n] = WAIT_SYNC

\* sleep_fsm has a case for SLEEP_SYNC_E.
TakesSync(n) == sleepState[n] \in {WAIT_FIRST_SYNC, WAIT_SYNC}

\* The SYNC of the node before arrives: received, decodePDU, onSyncReceived.
\* In PROPAGATE it is ignored. receivedPDU, which it overwrites all the same, is
\* the data passed to forwardSync: each of its callers has just set it whole
\* (:97, :130, :162, :311) and Transport_send copies it, so no event reads what
\* an earlier one left there.
Receive(n) ==
  LET l == link[n - 1]
      links == [link EXCEPT ![n - 1].arrived = TRUE] IN
  /\ n > 1 /\ Hears(n)
  /\ l.on /\ ~l.arrived /\ l.age >= Airtime
  /\ IF TakesSync(n)
     THEN forwardSync(n, l.data, TRUE, 0, links)
     ELSE link' = links /\ UNCHANGED <<sleepState, isSync, since, timer, lost>>
  /\ UNCHANGED <<powered, deltaTime, faults>>

\* syncTimeout: SLEEP_TIMEOUT_E, with a SYNC of the node's own.
TimedOut(n) == powered[n] /\ sleepState[n] = WAIT_SYNC /\ since[n] >= SyncTimeout(n)

syncTimeout(n) ==
  /\ TimedOut(n)
  /\ forwardSync(n, <<>>, FALSE, since[n], link)
  /\ UNCHANGED <<powered, deltaTime, faults>>

\* Mutant: sent does not raise SLEEP_DONE_E.
DoneIfFailed(n) ==
  /\ link[n].on /\ link[n].age >= Airtime
  /\ link' = [link EXCEPT ![n] = Idle]
  /\ IF link[n].arrived \/ n = N
     THEN UNCHANGED <<sleepState, isSync, since, timer, lost>>
     ELSE lost' = TRUE /\ goToSleep(n, isSync[n], since[n])
  /\ UNCHANGED <<powered, deltaTime, faults>>

\* sent and sendError, SLEEP_DONE_E both. The copies are acknowledged, or run
\* out, unheard or lost on the way. The last node sends off the line.
Done(n) ==
  /\ link[n].on /\ link[n].age >= Airtime
  /\ \/ (link[n].arrived \/ n = N) /\ UNCHANGED lost
     \/ n < N /\ ~link[n].arrived /\ ~Hears(n + 1) /\ link[n].age = MaxSend /\ UNCHANGED lost
     \/ n < N /\ ~link[n].arrived /\ Losses /\ lost' = TRUE
  /\ goToSleep(n, isSync[n], since[n])
  /\ link' = [link EXCEPT ![n] = Idle]
  /\ UNCHANGED <<powered, deltaTime, faults>>

\* Nothing that is due waits for time to pass.
Due(n) ==
  \/ powered[n] /\ sleepState[n] = SLEEP /\ timer[n] = 0
  \/ Scheduled(n)
  \/ TimedOut(n)
  \/ link[n].on /\ link[n].age = MaxSend

Tick ==
  /\ \A n \in Nodes : ~Due(n)
  /\ since' = [n \in Nodes |->
       IF powered[n] /\ sleepState[n] \in {PROPAGATE, WAIT_SYNC}
       THEN Min({since[n] + 1, MaxSince}) ELSE 0]
  /\ timer' = [n \in Nodes |-> IF timer[n] > 0 THEN timer[n] - 1 ELSE 0]
  /\ link' = [n \in Nodes |-> IF link[n].on THEN [link[n] EXCEPT !.age = @ + 1] ELSE Idle]
  /\ UNCHANGED <<powered, sleepState, deltaTime, isSync, faults, lost>>

---------------------------------------------------------------------------
Init ==
  /\ powered = [n \in Nodes |-> FALSE]
  /\ sleepState = [n \in Nodes |-> WAIT_FIRST_SYNC]
  /\ deltaTime = [n \in Nodes |-> 0]
  /\ isSync = [n \in Nodes |-> FALSE]
  /\ since = [n \in Nodes |-> 0]
  /\ timer = [n \in Nodes |-> 0]
  /\ link = [n \in Nodes |-> Idle]
  /\ faults = 0 /\ lost = FALSE

Event(n) == Initiate(n) \/ Receive(n) \/ syncTimeout(n)

NodeStep(n) == PowerOn(n) \/ Wake(n) \/ PowerOff(n) \/ Event(n) \/ Done(n)

Next == Tick \/ \E n \in Nodes : NodeStep(n)

Spec == Init /\ [][Next]_vars

\* Clocks run and timers fire. A node is given power again, its transport
\* takes a SYNC every so often, and so does the radio get one across.
Fairness ==
  /\ WF_vars(Tick)
  /\ \A n \in Nodes :
       /\ WF_vars(PowerOn(n)) /\ WF_vars(Wake(n)) /\ WF_vars(Done(n))
       /\ WF_vars(Initiate(n)) /\ WF_vars(syncTimeout(n))
       /\ SF_vars(Event(n) /\ link'[n].on)
       /\ SF_vars(Receive(n))

FairSpec == Spec /\ Fairness

---------------------------------------------------------------------------
(* Properties. *)

LinkTypes == [on : BOOLEAN, age : 0..MaxSend, arrived : BOOLEAN, data : Seq(Nodes)]

\* Clocks and timers stay within a cycle, and a node sends while it propagates.
TypeOK ==
  /\ powered \in [Nodes -> BOOLEAN]
  /\ sleepState \in [Nodes -> {WAIT_FIRST_SYNC, PROPAGATE, SLEEP, WAIT_SYNC}]
  /\ deltaTime \in [Nodes -> {0, computeDeltaTime}]
  /\ isSync \in [Nodes -> BOOLEAN]
  /\ since \in [Nodes -> 0..MaxSince]
  /\ timer \in [Nodes -> Nat]
  /\ link \in [Nodes -> LinkTypes]
  /\ faults \in 0..MaxFaults /\ lost \in BOOLEAN

\* tfe.tex:1685, 1755: a node that was synchronised once is awake, and waits,
\* whenever a SYNC for it is on its way.
SuccessorAwake ==
  \A n \in Nodes \ {N} :
    link[n].on /\ ~link[n].arrived /\ sleepState[n + 1] # WAIT_FIRST_SYNC =>
      sleepState[n + 1] = WAIT_SYNC

\* As long as no SYNC is lost, whatever the copies each one needs and the
\* errors of the clocks: deltaTime, Extra and Airtime are enough.
AwakeUnlessLost == ~lost => SuccessorAwake

UpTo(i, n) == [k \in 1..(n - i + 1) |-> i + k - 1]

\* tfe.tex:1760: the readings of a message are those of neighbouring nodes up
\* to its sender, in their order and none twice, cut where there was no room.
DataIsChain ==
  \A n \in Nodes : link[n].on =>
    \E i \in 1..n :
      link[n].data = SubSeq(UpTo(i, n), 1, Min({n - i + 1, MaxData}))

\* As long as no SYNC is lost every message has the readings of all the nodes
\* before its sender: none of them takes its timeout.
NoneMissing ==
  ~lost => \A n \in Nodes : link[n].on =>
             link[n].data = SubSeq(UpTo(1, n), 1, Min({n, MaxData}))

\* tfe.tex:1753: a node that was synchronised never stays awake, whoever fails.
SleepsAgain ==
  \A n \in Nodes :
    sleepState[n] \in {PROPAGATE, WAIT_SYNC} ~> sleepState[n] \in {SLEEP, WAIT_FIRST_SYNC}

\* A node that lost its memory is part of the line again.
Rejoins ==
  \A n \in Nodes : sleepState[n] = WAIT_FIRST_SYNC ~> sleepState[n] # WAIT_FIRST_SYNC
=============================================================================
