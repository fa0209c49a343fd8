-------------------------------- MODULE Mac --------------------------------
(***************************************************************************)
(* The medium access layer of the LoRa stack: stop-and-wait transmission   *)
(* with explicit acknowledgements, binary exponential backoff and          *)
(* detection of duplicated frames (src/firmware/src/mac.cpp), with the two *)
(* modules it is built on: the frame queues (mac_buffer.cpp) and the radio *)
(* driver (loraraw.cpp).                                                   *)
(*                                                                         *)
(* Every node runs one cooperative scheduler, so a handler is atomic; the  *)
(* DIO1 interrupt is the one thing that may run inside a handler, and the  *)
(* handler that reads a frame is split at the place where that matters.    *)
(* The radio channel is half duplex, loses frames and holds one received   *)
(* frame per node, which the next one overwrites.                          *)
(***************************************************************************)
EXTENDS Integers, Sequences

CONSTANTS
  Nodes,        \* the nodes within radio range of each other
  Ids,          \* frame identifiers: what _getRandomID may draw
  NoPDU,        \* contents of a radio buffer or of txPDU before its first frame
  MaxRetries,   \* MAC_MAX_RETRIES
  RingSize,     \* MAC_QUEUE_SIZE, the capacity of lastFramesIDs
  MaxBebRetry,  \* MAC_MAX_BEB_RETRY
  BebWrap,      \* 2^8: currentBEBRetry is a uint8_t
  UniqueIds,    \* TRUE: _getRandomID never repeats an identifier
  MaxSends,     \* bound: frames each node accepts from its upper layer
  MaxRxQueue,   \* bound: received frames the upper layer leaves unread
  MaxHandedUp,  \* bound: frames a node hands to its upper layer from start to start
  MaxRestarts   \* bound: restarts of nodes, altogether

ASSUME MacAssumption ==
  /\ MaxRetries \in Nat /\ MaxBebRetry \in Nat
  /\ RingSize \in Nat \ {0} /\ BebWrap \in Nat \ {0}
  /\ UniqueIds \in BOOLEAN
  /\ MaxSends \in [Nodes -> Nat] /\ MaxRxQueue \in Nat
  /\ MaxHandedUp \in Nat /\ MaxRestarts \in Nat

IDLE_S           == "IDLE_S"
WAIT_ACK_S       == "WAIT_ACK_S"
WAIT_CHAN_FREE_S == "WAIT_CHAN_FREE_S"
TOUT_ACK_E       == "TOUT_ACK_E"
TOUT_BUSY_E      == "TOUT_BUSY_E"

PDU == [tx : Nodes, rx : Nodes, id : Ids, isACK : BOOLEAN, retry : 0..MaxRetries]

ASSUME NoPDUAssumption == NoPDU \notin PDU

VARIABLES
  fsmState, txPDU, currentTxRetry, currentBEBRetry,  \* the transmission FSM
  txQueue, rxQueue,   \* mac_buffer: frames to send, frames to hand over
  lastFramesIDs,      \* identifiers of the last frames received, oldest first
  txTasks,            \* scheduled _mac_fsm_event_tx tasks
  timers,             \* the timeouts scheduled through txTimeoutTask
  listening,          \* DIO1 action set and radio in receive mode
  radioBuf, received, \* the radio's frame buffer, the flag the DIO1 ISR sets
  reading,            \* _checkReceived has cleared `received' and not yet read
  accepted, outcomes, \* history: frames MAC_send took, results notified
  delivered,          \* history: <<sender, id>> of data handed to the upper layer
  handedUp,           \* history: identifiers of all the frames handed to it since
                      \* the node started, oldest first
  usedIds, restarts   \* history: identifiers drawn, restarts so far

fsmVars   == <<fsmState, txPDU, currentTxRetry, currentBEBRetry>>
taskVars  == <<txTasks, timers>>
airVars   == <<radioBuf, received>>
upVars    == <<delivered, handedUp>>
envVars   == <<usedIds, restarts>>
vars == <<fsmVars, txQueue, rxQueue, lastFramesIDs, taskVars, listening,
          airVars, reading, accepted, outcomes, upVars, envVars>>

---------------------------------------------------------------------------
\* lastFramesIDs: the contents of the ring buffer, oldest first.
Remember(ring, id) ==
  IF Len(ring) < RingSize THEN Append(ring, id) ELSE Append(Tail(ring), id)

Remembers(ring, id) == \E i \in DOMAIN ring : ring[i] = id

\* The exponent of the backoff that starts after currentBEBRetry refusals.
BackoffExponent(n) ==
  IF currentBEBRetry[n] < MaxBebRetry THEN currentBEBRetry[n] ELSE MaxBebRetry

\* Mutant: MAC_send asks only after it has queued the frame.
AvailableAfterPush(n) == fsmState[n] = IDLE_S /\ txQueue'[n] = <<>>

\* MAC_isAvailable: the FSM is idle and nothing waits to be sent.
MAC_isAvailable(n) == fsmState[n] = IDLE_S /\ txQueue[n] = <<>>

DataPDU(n, rx, id) == [tx |-> n, rx |-> rx, id |-> id, isACK |-> FALSE, retry |-> 0]

AckPDU(n, f) == [tx |-> n, rx |-> f.tx, id |-> f.id, isACK |-> TRUE, retry |-> 0]

\* Mutant: an acknowledgement of any frame will do.
AckOfAnyFrame(n, f) == fsmState[n] = WAIT_ACK_S /\ f.isACK /\ f.tx = txPDU[n].rx

_is_ack_valid(n, f) ==
  /\ fsmState[n] = WAIT_ACK_S
  /\ f.isACK /\ f.tx = txPDU[n].rx /\ f.id = txPDU[n].id

---------------------------------------------------------------------------
(* The radio (loraraw.cpp). *)

\* radio.transmit blocks until the frame is out. Of the nodes that listen,
\* those in R receive it whole: their ISR sets `received' and the frame
\* replaces whatever their radio still held.
OnAir(n, f, R) ==
  /\ R \subseteq {m \in Nodes \ {n} : listening[m]}
  /\ radioBuf' = [m \in Nodes |-> IF m \in R THEN f ELSE radioBuf[m]]
  /\ received' = [m \in Nodes |-> m \in R \/ received[m]]

\* Mutant: the channel scan is not followed by a new reception.
ReceptionNotRestarted(n) == UNCHANGED listening

_startReceiving(n) == listening' = [listening EXCEPT ![n] = TRUE]

\* Handlers of a node do not overlap (guard ~reading). A transmission event that was already
\* scheduled when the FSM left IDLE_S is later in the same scheduler pass,
\* so it runs before any timeout or check for received frames.
Runs(n) == ~reading[n] /\ (fsmState[n] # IDLE_S => txTasks[n] = 0)

---------------------------------------------------------------------------
(* MAC_send and MAC_receive. *)

\* Mutant: the queue is a stack.
AcceptFirst(n, rx, id) ==
  /\ rx # n
  /\ Len(accepted[n]) < MaxSends[n]
  /\ UniqueIds => id \notin usedIds
  /\ txQueue' = [txQueue EXCEPT ![n] = <<DataPDU(n, rx, id)>> \o @]
  /\ accepted' = [accepted EXCEPT ![n] = Append(@, [rx |-> rx, id |-> id])]
  /\ usedIds' = usedIds \union {id}

\* The frame a call of MAC_send adds to the transmission queue. Calls with
\* rx = self or with too much data return an error and change nothing.
Accept(n, rx, id) ==
  /\ rx # n
  /\ Len(accepted[n]) < MaxSends[n]
  /\ UniqueIds => id \notin usedIds
  /\ txQueue' = [txQueue EXCEPT ![n] = Append(@, DataPDU(n, rx, id))]
  /\ accepted' = [accepted EXCEPT ![n] = Append(@, [rx |-> rx, id |-> id])]
  /\ usedIds' = usedIds \union {id}

MAC_send(n, rx, id) ==
  /\ ~reading[n]
  /\ Accept(n, rx, id)
  /\ txTasks' = [txTasks EXCEPT ![n] = @ + (IF MAC_isAvailable(n) THEN 1 ELSE 0)]
  /\ UNCHANGED <<fsmVars, rxQueue, lastFramesIDs, timers, listening, airVars,
                 reading, outcomes, upVars, restarts>>

MAC_receive(n) ==
  /\ ~reading[n]
  /\ rxQueue[n] # <<>>
  /\ rxQueue' = [rxQueue EXCEPT ![n] = Tail(@)]
  /\ UNCHANGED <<fsmVars, txQueue, lastFramesIDs, taskVars, listening, airVars,
                 reading, accepted, outcomes, upVars, envVars>>

---------------------------------------------------------------------------
(* The transmission FSM. Every event first senses the channel, which ends  *)
(* reception: the handled events start it again, the ignored ones do not.  *)
(* `rest' is the set of timeouts left once the event being handled is out. *)

\* Mutant: a counter that does not wrap.
BebNoWrap(n, rest) ==
  /\ fsmState' = [fsmState EXCEPT ![n] = WAIT_CHAN_FREE_S]
  /\ currentBEBRetry' = [currentBEBRetry EXCEPT ![n] = @ + 1]
  /\ timers' = [timers EXCEPT ![n] = rest \union {TOUT_BUSY_E}]

_start_beb_timeout(n, rest) ==
  /\ fsmState' = [fsmState EXCEPT ![n] = WAIT_CHAN_FREE_S]
  /\ currentBEBRetry' = [currentBEBRetry EXCEPT ![n] = (@ + 1) % BebWrap]
  /\ timers' = [timers EXCEPT ![n] = rest \union {TOUT_BUSY_E}]

_setup_ack_reception(n, rest) ==
  /\ fsmState' = [fsmState EXCEPT ![n] = WAIT_ACK_S]
  /\ timers' = [timers EXCEPT ![n] = rest \union {TOUT_ACK_E}]

\* LoRaRAW_send senses the channel again and may fail; a failure the radio
\* reports after the fact may still have put the frame on air.
_attempt_transmission(n, pdu, retry, rest) ==
  LET f == [pdu EXCEPT !.retry = retry] IN
  /\ txPDU' = [txPDU EXCEPT ![n] = f]
  /\ \E R \in SUBSET Nodes : OnAir(n, f, R)
  /\ \/ /\ currentBEBRetry' = [currentBEBRetry EXCEPT ![n] = 0]
        /\ currentTxRetry' = [currentTxRetry EXCEPT ![n] = retry + 1]
        /\ _setup_ack_reception(n, rest)
     \/ /\ currentTxRetry' = [currentTxRetry EXCEPT ![n] = retry]
        /\ _start_beb_timeout(n, rest)

ChannelBusy(n, pdu, retry, rest) ==
  /\ txPDU' = [txPDU EXCEPT ![n] = pdu]
  /\ currentTxRetry' = [currentTxRetry EXCEPT ![n] = retry]
  /\ _start_beb_timeout(n, rest)
  /\ UNCHANGED airVars

Transmit(n, pdu, retry, rest) ==
  /\ \/ _attempt_transmission(n, pdu, retry, rest)
     \/ ChannelBusy(n, pdu, retry, rest)
  /\ _startReceiving(n)
  /\ UNCHANGED <<rxQueue, lastFramesIDs, reading, accepted, outcomes,
                 upVars, envVars>>

\* _sent_mac and _txError_mac, then _apply_duty_cycle_delay. The callback of
\* the upper layer may call MAC_send while the FSM has not left WAIT_ACK_S.
Finish(n, ok, rest) ==
  /\ _startReceiving(n)
  /\ outcomes' = [outcomes EXCEPT ![n] =
                    Append(@, [rx |-> txPDU[n].rx, id |-> txPDU[n].id, ok |-> ok])]
  /\ \/ \E rx \in Nodes, id \in Ids : Accept(n, rx, id)
     \/ UNCHANGED <<txQueue, accepted, usedIds>>
  /\ fsmState' = [fsmState EXCEPT ![n] = IDLE_S]
  /\ txTasks' = [txTasks EXCEPT ![n] = @ + 1]
  /\ timers' = [timers EXCEPT ![n] = rest]
  /\ UNCHANGED <<txPDU, currentTxRetry, currentBEBRetry, rxQueue, lastFramesIDs,
                 upVars, restarts>>

\* Mutant: the frame stays in the queue.
StartTransmissionPeek(n) ==
  /\ ~reading[n] /\ txTasks[n] > 0
  /\ fsmState[n] = IDLE_S /\ txQueue[n] # <<>>
  /\ Transmit(n, Head(txQueue[n]), 0, timers[n])
  /\ txTasks' = [txTasks EXCEPT ![n] = @ - 1]
  /\ UNCHANGED txQueue

\* TX_E in IDLE_S with a frame waiting.
StartTransmission(n) ==
  /\ ~reading[n] /\ txTasks[n] > 0
  /\ fsmState[n] = IDLE_S /\ txQueue[n] # <<>>
  /\ Transmit(n, Head(txQueue[n]), 0, timers[n])
  /\ txQueue' = [txQueue EXCEPT ![n] = Tail(@)]
  /\ txTasks' = [txTasks EXCEPT ![n] = @ - 1]

\* Mutant: reception is not restarted when there was nothing to send.
SpareTxEventDeaf(n) ==
  /\ ~reading[n] /\ txTasks[n] > 0
  /\ fsmState[n] # IDLE_S \/ txQueue[n] = <<>>
  /\ listening' = [listening EXCEPT ![n] = FALSE]
  /\ txTasks' = [txTasks EXCEPT ![n] = @ - 1]
  /\ UNCHANGED <<fsmVars, txQueue, rxQueue, lastFramesIDs, timers, airVars,
                 reading, accepted, outcomes, upVars, envVars>>

\* TX_E with nothing to send restarts reception; in the other states it is
\* ignored, and reception stays off.
SpareTxEvent(n) ==
  /\ ~reading[n] /\ txTasks[n] > 0
  /\ fsmState[n] # IDLE_S \/ txQueue[n] = <<>>
  /\ listening' = [listening EXCEPT ![n] = fsmState[n] = IDLE_S]
  /\ txTasks' = [txTasks EXCEPT ![n] = @ - 1]
  /\ UNCHANGED <<fsmVars, txQueue, rxQueue, lastFramesIDs, timers, airVars,
                 reading, accepted, outcomes, upVars, envVars>>

\* In a state that does not expect it a timeout would be ignored; it has no
\* action because OneTimeout shows that none is ever pending there.
ChannelTimeout(n) ==
  /\ Runs(n) /\ TOUT_BUSY_E \in timers[n]
  /\ fsmState[n] = WAIT_CHAN_FREE_S
  /\ Transmit(n, txPDU[n], currentTxRetry[n], timers[n] \ {TOUT_BUSY_E})
  /\ UNCHANGED <<txQueue, txTasks>>

\* Mutant: one copy too many.
AckTimeoutRetryMore(n) ==
  /\ Runs(n) /\ TOUT_ACK_E \in timers[n]
  /\ fsmState[n] = WAIT_ACK_S /\ currentTxRetry[n] <= MaxRetries + 1
  /\ Transmit(n, txPDU[n], currentTxRetry[n], timers[n] \ {TOUT_ACK_E})
  /\ UNCHANGED <<txQueue, txTasks>>

AckTimeoutRetry(n) ==
  /\ Runs(n) /\ TOUT_ACK_E \in timers[n]
  /\ fsmState[n] = WAIT_ACK_S /\ currentTxRetry[n] <= MaxRetries
  /\ Transmit(n, txPDU[n], currentTxRetry[n], timers[n] \ {TOUT_ACK_E})
  /\ UNCHANGED <<txQueue, txTasks>>

AckTimeoutGiveUp(n) ==
  /\ Runs(n) /\ TOUT_ACK_E \in timers[n]
  /\ fsmState[n] = WAIT_ACK_S /\ currentTxRetry[n] > MaxRetries
  /\ Finish(n, FALSE, timers[n] \ {TOUT_ACK_E})
  /\ UNCHANGED <<airVars, reading>>

---------------------------------------------------------------------------
(* Reception: _checkReceived, then LoRaRAW_receive and _onLoraReceived. *)

\* _checkReceived clears the flag. From here until the frame is read the ISR
\* may set it again for a frame that replaces this one.
_checkReceived(n) ==
  /\ Runs(n) /\ received[n]
  /\ received' = [received EXCEPT ![n] = FALSE]
  /\ reading' = [reading EXCEPT ![n] = TRUE]
  /\ UNCHANGED <<fsmVars, txQueue, rxQueue, lastFramesIDs, taskVars, listening,
                 radioBuf, accepted, outcomes, upVars, envVars>>

\* LoRaRAW_receive always starts reception again.
Read(n) ==
  /\ reading[n]
  /\ reading' = [reading EXCEPT ![n] = FALSE]
  /\ _startReceiving(n)

\* Mutant: duplicates are not looked for.
SeenNever(n) == FALSE

Seen(n) == Remembers(lastFramesIDs[n], radioBuf[n].id)

\* The acknowledgement goes out at once, bypassing the queue and the FSM; a
\* busy channel loses it silently.
_send_ack(n, f) == \E R \in SUBSET Nodes : OnAir(n, AckPDU(n, f), R)

\* A read error, a bad CRC, or a frame for another node with an id not seen.
DropFrame(n) ==
  /\ Read(n)
  /\ UNCHANGED <<fsmVars, txQueue, rxQueue, lastFramesIDs, taskVars, airVars,
                 accepted, outcomes, upVars, envVars>>

\* The identifier was received before, whoever the frame is for.
SeenFrame(n) ==
  /\ Read(n)
  /\ Seen(n)
  /\ _send_ack(n, radioBuf[n])
  /\ UNCHANGED <<fsmVars, txQueue, rxQueue, lastFramesIDs, taskVars,
                 accepted, outcomes, upVars, envVars>>

\* Mutant: the acknowledgement does not stop the timeout.
AckFrameTimeoutLeft(n) ==
  /\ reading[n]
  /\ reading' = [reading EXCEPT ![n] = FALSE]
  /\ ~Seen(n) /\ radioBuf[n].rx = n /\ _is_ack_valid(n, radioBuf[n])
  /\ Finish(n, TRUE, timers[n])
  /\ UNCHANGED airVars

AckFrame(n) ==
  /\ reading[n]
  /\ reading' = [reading EXCEPT ![n] = FALSE]
  /\ ~Seen(n) /\ radioBuf[n].rx = n /\ _is_ack_valid(n, radioBuf[n])
  /\ Finish(n, TRUE, timers[n] \ {TOUT_ACK_E})
  /\ UNCHANGED airVars

\* Everything else addressed to the node is taken for data.
DataFrame(n) ==
  LET f == radioBuf[n] IN
  /\ Read(n)
  /\ ~Seen(n) /\ f.rx = n /\ ~_is_ack_valid(n, f)
  /\ Len(rxQueue[n]) < MaxRxQueue /\ Len(handedUp[n]) < MaxHandedUp
  /\ lastFramesIDs' = [lastFramesIDs EXCEPT ![n] = Remember(@, f.id)]
  /\ _send_ack(n, f)
  /\ rxQueue' = [rxQueue EXCEPT ![n] = Append(@, f)]
  /\ delivered' = [delivered EXCEPT ![n] =
                     IF f.isACK THEN @ ELSE @ \union {<<f.tx, f.id>>}]
  /\ handedUp' = [handedUp EXCEPT ![n] = Append(@, f.id)]
  /\ UNCHANGED <<fsmVars, txQueue, taskVars, accepted, outcomes, envVars>>

---------------------------------------------------------------------------
\* MAC_init, and the static initialisers.
Init ==
  /\ fsmState = [n \in Nodes |-> IDLE_S]
  /\ txPDU = [n \in Nodes |-> NoPDU]
  /\ currentTxRetry = [n \in Nodes |-> 0]
  /\ currentBEBRetry = [n \in Nodes |-> 0]
  /\ txQueue = [n \in Nodes |-> <<>>]
  /\ rxQueue = [n \in Nodes |-> <<>>]
  /\ lastFramesIDs = [n \in Nodes |-> <<>>]
  /\ txTasks = [n \in Nodes |-> 0]
  /\ timers = [n \in Nodes |-> {}]
  /\ listening = [n \in Nodes |-> TRUE]
  /\ radioBuf = [n \in Nodes |-> NoPDU]
  /\ received = [n \in Nodes |-> FALSE]
  /\ reading = [n \in Nodes |-> FALSE]
  /\ accepted = [n \in Nodes |-> <<>>]
  /\ outcomes = [n \in Nodes |-> <<>>]
  /\ delivered = [n \in Nodes |-> {}]
  /\ handedUp = [n \in Nodes |-> <<>>]
  /\ usedIds = {}
  /\ restarts = 0

\* A reset, or the wake-up from deep sleep: the node starts from MAC_init
\* again and all its memory is lost. accepted, outcomes and handedUp restart
\* with it.
Restart(n) ==
  /\ restarts < MaxRestarts
  /\ restarts' = restarts + 1
  /\ fsmState' = [fsmState EXCEPT ![n] = IDLE_S]
  /\ txPDU' = [txPDU EXCEPT ![n] = NoPDU]
  /\ currentTxRetry' = [currentTxRetry EXCEPT ![n] = 0]
  /\ currentBEBRetry' = [currentBEBRetry EXCEPT ![n] = 0]
  /\ txQueue' = [txQueue EXCEPT ![n] = <<>>]
  /\ rxQueue' = [rxQueue EXCEPT ![n] = <<>>]
  /\ lastFramesIDs' = [lastFramesIDs EXCEPT ![n] = <<>>]
  /\ txTasks' = [txTasks EXCEPT ![n] = 0]
  /\ timers' = [timers EXCEPT ![n] = {}]
  /\ listening' = [listening EXCEPT ![n] = TRUE]
  /\ radioBuf' = [radioBuf EXCEPT ![n] = NoPDU]
  /\ received' = [received EXCEPT ![n] = FALSE]
  /\ reading' = [reading EXCEPT ![n] = FALSE]
  /\ accepted' = [accepted EXCEPT ![n] = <<>>]
  /\ outcomes' = [outcomes EXCEPT ![n] = <<>>]
  /\ handedUp' = [handedUp EXCEPT ![n] = <<>>]
  /\ UNCHANGED <<delivered, usedIds>>

NodeStep(n) ==
  \/ \E rx \in Nodes, id \in Ids : MAC_send(n, rx, id)
  \/ MAC_receive(n)
  \/ StartTransmission(n)
  \/ SpareTxEvent(n)
  \/ ChannelTimeout(n)
  \/ AckTimeoutRetry(n)
  \/ AckTimeoutGiveUp(n)
  \/ _checkReceived(n)
  \/ DropFrame(n)
  \/ SeenFrame(n)
  \/ AckFrame(n)
  \/ DataFrame(n)
  \/ Restart(n)

Next == \E n \in Nodes : NodeStep(n)

Spec == Init /\ [][Next]_vars

\* Every pass of the scheduler runs all the tasks that are due, whatever the
\* other tasks do meanwhile: strong fairness of the transmission event and of
\* the timeout. That the channel is found free and the radio works every so
\* often is an assumption on the environment; no frame need ever be received.
ReadFrame(n) == DropFrame(n) \/ SeenFrame(n) \/ AckFrame(n) \/ DataFrame(n)

TxTask(n) == StartTransmission(n) \/ SpareTxEvent(n)

TimeoutTask(n) == ChannelTimeout(n) \/ AckTimeoutRetry(n) \/ AckTimeoutGiveUp(n)

Fairness ==
  \A n \in Nodes :
    /\ WF_vars(ReadFrame(n))
    /\ SF_vars(TxTask(n))
    /\ SF_vars(TimeoutTask(n))
    /\ SF_vars(TimeoutTask(n) /\ fsmState'[n] # WAIT_CHAN_FREE_S)

FairSpec == Spec /\ Fairness

---------------------------------------------------------------------------
(* Properties. *)

Handle == [rx : Nodes, id : Ids]
Outcome == [rx : Nodes, id : Ids, ok : BOOLEAN]

FsmTypes ==
  /\ fsmState \in [Nodes -> {IDLE_S, WAIT_ACK_S, WAIT_CHAN_FREE_S}]
  /\ txPDU \in [Nodes -> PDU \union {NoPDU}]
  /\ currentTxRetry \in [Nodes -> 0..(MaxRetries + 1)]
  /\ currentBEBRetry \in [Nodes -> 0..(BebWrap - 1)]

QueueTypes ==
  /\ txQueue \in [Nodes -> Seq(PDU)]
  /\ rxQueue \in [Nodes -> Seq(PDU)]
  /\ lastFramesIDs \in [Nodes -> Seq(Ids)]

TaskTypes ==
  /\ txTasks \in [Nodes -> Nat]
  /\ timers \in [Nodes -> SUBSET {TOUT_ACK_E, TOUT_BUSY_E}]

RadioTypes ==
  /\ listening \in [Nodes -> BOOLEAN]
  /\ radioBuf \in [Nodes -> PDU \union {NoPDU}]
  /\ received \in [Nodes -> BOOLEAN]
  /\ reading \in [Nodes -> BOOLEAN]

HistoryTypes ==
  /\ accepted \in [Nodes -> Seq(Handle)]
  /\ outcomes \in [Nodes -> Seq(Outcome)]
  /\ delivered \in [Nodes -> SUBSET (Nodes \X Ids)]
  /\ handedUp \in [Nodes -> Seq(Ids)]
  /\ usedIds \subseteq Ids
  /\ restarts \in 0..MaxRestarts

\* The type of the state of every node.
TypeOK == FsmTypes /\ QueueTypes /\ TaskTypes /\ RadioTypes /\ HistoryTypes

\* Of the timeouts that share the pointer txTimeoutTask, exactly the one the
\* state waits for is scheduled: none is lost when the pointer is overwritten
\* and none survives the state it was started for.
OneTimeout ==
  \A n \in Nodes :
    /\ fsmState[n] = IDLE_S => timers[n] = {}
    /\ fsmState[n] = WAIT_ACK_S => timers[n] = {TOUT_ACK_E}
    /\ fsmState[n] = WAIT_CHAN_FREE_S => timers[n] = {TOUT_BUSY_E}

\* A frame MAC_send has queued is never forgotten: while the FSM is idle an
\* event to transmit it is scheduled, although MAC_send schedules one only
\* when it finds the layer available. Events do not pile up either.
NoLostWakeup ==
  \A n \in Nodes :
    /\ fsmState[n] = IDLE_S /\ txQueue[n] # <<>> => txTasks[n] > 0
    /\ txTasks[n] <= 2

\* An idle node can hear: no sequence of channel scans, which all end
\* reception, leaves it deaf with nothing left to restart the radio.
IdleListens ==
  \A n \in Nodes : fsmState[n] = IDLE_S => listening[n]

\* The counters and the flags of the frame in transmission agree: each frame
\* starts its backoff afresh, and the copy being acknowledged carries the
\* number of copies sent before it, which fits its field.
RetryAccounting ==
  \A n \in Nodes :
    /\ fsmState[n] # WAIT_CHAN_FREE_S => currentBEBRetry[n] = 0
    /\ fsmState[n] = WAIT_ACK_S => currentTxRetry[n] = txPDU[n].retry + 1
    /\ fsmState[n] = WAIT_CHAN_FREE_S => currentTxRetry[n] <= MaxRetries

\* What identifies a frame to the upper layer.
HandleOf(f) == [rx |-> f.rx, id |-> f.id]

Handles(s) == [i \in DOMAIN s |-> HandleOf(s[i])]

\* The frame the FSM works on, if it works on one.
InFlight(n) == IF fsmState[n] = IDLE_S THEN <<>> ELSE <<HandleOf(txPDU[n])>>

\* Every frame MAC_send accepted gets one result, in the order of the calls:
\* the frames settled, the one in flight and those queued are together the
\* frames accepted. Neither onSend nor onTxFailed is called twice or skipped.
OneOutcomeInOrder ==
  \A n \in Nodes :
    accepted[n] = Handles(outcomes[n]) \o InFlight(n) \o Handles(txQueue[n])

\* onSend is never called for a frame its receiver has not handed to its
\* upper layer, however late, repeated or overheard the acknowledgements are.
NoFalseSuccess ==
  \A n \in Nodes : \A i \in DOMAIN outcomes[n] :
    outcomes[n][i].ok => <<n, outcomes[n][i].id>> \in delivered[outcomes[n][i].rx]

\* The layer implements the service mac.h describes (module MacService) as long
\* as identifiers are unique and no node restarts.
Service == INSTANCE MacService
ImplementsService == Service!Spec

\* mac.cpp:300-306, 349: a frame sent again is not handed up again before as
\* many others as the ring buffer holds, or a restart. All that is handed up
\* takes its place in the ring, the acknowledgements nobody waits for too.
NoEarlyRepeat ==
  \A n \in Nodes : \A i, j \in DOMAIN handedUp[n] :
    i < j /\ j - i <= RingSize => handedUp[n][i] # handedUp[n][j]

\* Every frame MAC_send accepted is eventually settled, whatever is lost,
\* unless its node forgets it in a restart.
EveryFrameSettles ==
  \A n \in Nodes : \A k \in 1..MaxSends[n] :
    Len(accepted[n]) >= k ~> Len(outcomes[n]) >= k \/ Len(accepted[n]) < k

\* A node left deaf by an ignored event is listening again later.
RadioRecovers == \A n \in Nodes : ~listening[n] ~> listening[n]

\* mac.cpp:297-298: an acknowledgement is never kept or handed over as data.
AckIsNeverData ==
  \A n \in Nodes : \A i \in DOMAIN rxQueue[n] : ~rxQueue[n][i].isACK

\* mac.cpp:300, 345: a frame whose identifier was seen is data for this node.
SeenIsOwnData ==
  \A n \in Nodes :
    reading[n] /\ Seen(n) => radioBuf[n].rx = n /\ ~radioBuf[n].isACK

\* mac.cpp:137, 489: while an acknowledgement is awaited the radio receives.
AckWaitListens ==
  \A n \in Nodes : fsmState[n] = WAIT_ACK_S => listening[n]

\* config.h:43: with every refusal the backoff grows, or stays at its maximum.
BackoffNeverShrinks ==
  [][\A n \in Nodes :
       fsmState[n] = WAIT_CHAN_FREE_S /\ fsmState'[n] = WAIT_CHAN_FREE_S =>
         BackoffExponent(n)' >= BackoffExponent(n)]_vars
=============================================================================
