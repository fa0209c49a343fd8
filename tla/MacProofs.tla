----------------------------- MODULE MacProofs -----------------------------
(***************************************************************************)
(* Safety of the medium access layer for any set of nodes and identifiers, *)
(* any retry limit, ring size and counter width, with restarts, repeated   *)
(* identifiers and every loss the model allows.                            *)
(***************************************************************************)
EXTENDS Mac, SequenceTheorems, TLAPS

\* The buffers hold a frame whenever a handler is going to use them.
BuffersLoaded ==
  \A n \in Nodes :
    /\ fsmState[n] # IDLE_S => txPDU[n] \in PDU
    /\ received[n] \/ reading[n] => radioBuf[n] \in PDU

\* How many transmission events are pending: one per result reported and one
\* per frame queued while the layer was available; leaving IDLE_S takes one,
\* and any event left over is spent before a received frame is looked at.
PendingEvents ==
  \A n \in Nodes :
    /\ fsmState[n] = IDLE_S /\ txQueue[n] # <<>> => txTasks[n] \in 1..2
    /\ fsmState[n] # IDLE_S \/ txQueue[n] = <<>> => txTasks[n] \in 0..1
    /\ fsmState[n] # IDLE_S /\ reading[n] => txTasks[n] = 0

IInv ==
  /\ TypeOK
  /\ BuffersLoaded
  /\ OneTimeout
  /\ PendingEvents
  /\ IdleListens
  /\ RetryAccounting

USE MacAssumption, NoPDUAssumption

---------------------------------------------------------------------------
\* The counter of refusals stays within its width.
LEMMA ModRange ==
  ASSUME NEW x \in Int, NEW m \in Nat \ {0}
  PROVE  x % m \in 0..(m - 1)
OBVIOUS

\* MAC_init establishes the invariant.
LEMMA InitInv == Init => IInv
BY DEF Init, IInv, TypeOK, FsmTypes, QueueTypes, TaskTypes, RadioTypes, HistoryTypes,
       BuffersLoaded, OneTimeout, PendingEvents, IdleListens, RetryAccounting,
       IDLE_S, WAIT_ACK_S, WAIT_CHAN_FREE_S

\* MAC_receive takes a frame from the reception queue only.
LEMMA ReceiveInv ==
  ASSUME IInv, NEW n \in Nodes, MAC_receive(n)
  PROVE  IInv'
<1> USE DEF IInv, TypeOK, MAC_receive, fsmVars, taskVars, airVars, upVars, envVars
<1>1. FsmTypes' BY DEF FsmTypes
<1>2. QueueTypes' BY DEF QueueTypes
<1>3. TaskTypes' BY DEF TaskTypes
<1>4. RadioTypes' BY DEF RadioTypes
<1>5. HistoryTypes' BY DEF HistoryTypes
<1>6. BuffersLoaded' BY DEF BuffersLoaded
<1>7. OneTimeout' BY DEF OneTimeout
<1>8. PendingEvents' BY DEF PendingEvents
<1>9. IdleListens' BY DEF IdleListens
<1>10. RetryAccounting' BY DEF RetryAccounting
<1> QED BY <1>1, <1>2, <1>3, <1>4, <1>5, <1>6, <1>7, <1>8, <1>9, <1>10

\* MAC_send queues a frame and may schedule an event.
LEMMA SendInv ==
  ASSUME IInv, NEW n \in Nodes, NEW rx \in Nodes, NEW id \in Ids, MAC_send(n, rx, id)
  PROVE  IInv'
<1> USE DEF IInv, TypeOK, MAC_send, fsmVars, airVars
<1>1. DataPDU(n, rx, id) \in PDU
  BY DEF DataPDU, PDU
<1>2. QueueTypes'
  BY <1>1 DEF QueueTypes, Accept
<1>3. txQueue'[n] # <<>> /\ \A m \in Nodes \ {n} : txQueue'[m] = txQueue[m]
  BY <1>1, AppendProperties DEF QueueTypes, Accept
<1>4. FsmTypes' /\ RadioTypes'
  BY DEF FsmTypes, RadioTypes
<1>5. TaskTypes'
  BY DEF TaskTypes
<1>6. HistoryTypes'
  <2>1. [rx |-> rx, id |-> id] \in Handle
    BY DEF Handle
  <2>2. accepted' \in [Nodes -> Seq(Handle)]
    BY <2>1 DEF HistoryTypes, Accept
  <2> QED BY <2>2 DEF HistoryTypes, Accept, upVars
<1>7. BuffersLoaded' /\ OneTimeout'
  BY DEF BuffersLoaded, OneTimeout
<1>8. IdleListens' /\ RetryAccounting'
  BY DEF IdleListens, RetryAccounting
<1>9. PendingEvents'
  BY <1>3 DEF TaskTypes, QueueTypes, PendingEvents, MAC_isAvailable
<1> QED BY <1>2, <1>4, <1>5, <1>6, <1>7, <1>8, <1>9

\* An event to transmit that finds nothing to start scans the channel only.
LEMMA SpareTxEventInv ==
  ASSUME IInv, NEW n \in Nodes, SpareTxEvent(n)
  PROVE  IInv'
<1> USE DEF IInv, TypeOK, SpareTxEvent, fsmVars, airVars, upVars, envVars
<1>1. FsmTypes' BY DEF FsmTypes
<1>2. QueueTypes' BY DEF QueueTypes
<1>3. TaskTypes' BY DEF TaskTypes
<1>4. RadioTypes' BY DEF RadioTypes
<1>5. HistoryTypes' BY DEF HistoryTypes
<1>6. BuffersLoaded' BY DEF BuffersLoaded
<1>7. OneTimeout' BY DEF OneTimeout
<1>8. PendingEvents' BY DEF PendingEvents, TaskTypes
<1>9. IdleListens' BY DEF IdleListens, RadioTypes
<1>10. RetryAccounting' BY DEF RetryAccounting
<1> QED BY <1>1, <1>2, <1>3, <1>4, <1>5, <1>6, <1>7, <1>8, <1>9, <1>10

---------------------------------------------------------------------------
\* What a frame on air does to the nodes that hear it.
LEMMA OnAirEffect ==
  ASSUME RadioTypes, BuffersLoaded, NEW n \in Nodes, NEW f \in PDU,
         NEW R, OnAir(n, f, R)
  PROVE  /\ radioBuf' \in [Nodes -> PDU \union {NoPDU}]
         /\ received' \in [Nodes -> BOOLEAN]
         /\ \A m \in Nodes : received'[m] \/ reading[m] => radioBuf'[m] \in PDU
<1>1. radioBuf' \in [Nodes -> PDU \union {NoPDU}]
  BY DEF OnAir, RadioTypes
<1>2. received' \in [Nodes -> BOOLEAN]
  BY DEF OnAir, RadioTypes
<1>3. ASSUME NEW m \in Nodes, received'[m] \/ reading[m]
      PROVE  radioBuf'[m] \in PDU
  BY <1>3 DEF OnAir, RadioTypes, BuffersLoaded
<1> QED BY <1>1, <1>2, <1>3

\* Trying to transmit, with no timeout left running, keeps everything but what
\* the callers change: the queue, the pending events and the history.
LEMMA TransmitInv ==
  ASSUME IInv, NEW n \in Nodes, NEW pdu \in PDU, NEW retry \in 0..MaxRetries,
         Transmit(n, pdu, retry, {})
  PROVE  /\ FsmTypes' /\ RadioTypes' /\ BuffersLoaded' /\ OneTimeout'
         /\ IdleListens' /\ RetryAccounting'
         /\ timers' \in [Nodes -> SUBSET {TOUT_ACK_E, TOUT_BUSY_E}]
         /\ fsmState'[n] # IDLE_S
         /\ \A m \in Nodes \ {n} : fsmState'[m] = fsmState[m]
<1> USE DEF IInv, TypeOK
<1> DEFINE f == [pdu EXCEPT !.retry = retry]
<1>1. f \in PDU /\ f.retry = retry
  BY DEF PDU
<1>2. \/ /\ fsmState' = [fsmState EXCEPT ![n] = WAIT_ACK_S]
         /\ timers' = [timers EXCEPT ![n] = {TOUT_ACK_E}]
         /\ currentBEBRetry' = [currentBEBRetry EXCEPT ![n] = 0]
         /\ currentTxRetry' = [currentTxRetry EXCEPT ![n] = retry + 1]
         /\ txPDU' = [txPDU EXCEPT ![n] = f]
      \/ /\ fsmState' = [fsmState EXCEPT ![n] = WAIT_CHAN_FREE_S]
         /\ timers' = [timers EXCEPT ![n] = {TOUT_BUSY_E}]
         /\ currentBEBRetry' = [currentBEBRetry EXCEPT ![n] = (@ + 1) % BebWrap]
         /\ currentTxRetry' = [currentTxRetry EXCEPT ![n] = retry]
         /\ \E g \in PDU : txPDU' = [txPDU EXCEPT ![n] = g]
  BY <1>1 DEF Transmit, _attempt_transmission, ChannelBusy, _setup_ack_reception,
              _start_beb_timeout
<1>3. /\ radioBuf' \in [Nodes -> PDU \union {NoPDU}]
      /\ received' \in [Nodes -> BOOLEAN]
      /\ \A m \in Nodes : received'[m] \/ reading[m] => radioBuf'[m] \in PDU
  <2>1. CASE UNCHANGED airVars
    BY <2>1 DEF RadioTypes, BuffersLoaded, airVars
  <2>2. CASE \E R \in SUBSET Nodes : OnAir(n, f, R)
    BY <2>2, <1>1, OnAirEffect
  <2> QED BY <2>1, <2>2 DEF Transmit, _attempt_transmission, ChannelBusy
<1>4. listening' = [listening EXCEPT ![n] = TRUE] /\ reading' = reading
  BY DEF Transmit, _startReceiving
<1> HIDE DEF f
<1>5. FsmTypes'
  <2>1. (currentBEBRetry[n] + 1) % BebWrap \in 0..(BebWrap - 1)
    <3>1. currentBEBRetry[n] + 1 \in Int /\ BebWrap \in Nat \ {0}
      BY DEF FsmTypes
    <3> QED BY <3>1, ModRange
  <2> QED BY <1>1, <1>2, <2>1 DEF FsmTypes
<1>6. RadioTypes'
  BY <1>3, <1>4 DEF RadioTypes
<1>7. /\ fsmState'[n] # IDLE_S
      /\ \A m \in Nodes \ {n} : fsmState'[m] = fsmState[m]
  BY <1>2 DEF FsmTypes, IDLE_S, WAIT_ACK_S, WAIT_CHAN_FREE_S
<1>8. BuffersLoaded'
  BY <1>1, <1>2, <1>3, <1>4 DEF FsmTypes, BuffersLoaded
<1>9. timers' \in [Nodes -> SUBSET {TOUT_ACK_E, TOUT_BUSY_E}]
  BY <1>2 DEF TaskTypes
<1>10. OneTimeout'
  BY <1>2 DEF FsmTypes, TaskTypes, OneTimeout, IDLE_S, WAIT_ACK_S, WAIT_CHAN_FREE_S
<1>11. IdleListens'
  BY <1>4, <1>7 DEF RadioTypes, IdleListens
<1>12. RetryAccounting'
  BY <1>1, <1>2 DEF FsmTypes, RetryAccounting, IDLE_S, WAIT_ACK_S, WAIT_CHAN_FREE_S
<1> QED BY <1>5, <1>6, <1>7, <1>8, <1>9, <1>10, <1>11, <1>12

\* The idle FSM takes the head of the queue and tries to transmit it.
LEMMA StartTransmissionInv ==
  ASSUME IInv, NEW n \in Nodes, StartTransmission(n)
  PROVE  IInv'
<1> USE DEF IInv, TypeOK
<1>1. Head(txQueue[n]) \in PDU /\ Tail(txQueue[n]) \in Seq(PDU)
  BY DEF QueueTypes, StartTransmission
<1>2. timers[n] = {} /\ txTasks[n] > 0 /\ fsmState[n] = IDLE_S /\ txQueue[n] # <<>>
  BY DEF OneTimeout, StartTransmission
<1>3. Transmit(n, Head(txQueue[n]), 0, {})
  BY <1>2 DEF StartTransmission
<1>4. /\ FsmTypes' /\ RadioTypes' /\ BuffersLoaded' /\ OneTimeout'
      /\ IdleListens' /\ RetryAccounting'
      /\ timers' \in [Nodes -> SUBSET {TOUT_ACK_E, TOUT_BUSY_E}]
      /\ fsmState'[n] # IDLE_S
      /\ \A m \in Nodes \ {n} : fsmState'[m] = fsmState[m]
  BY <1>1, <1>3, TransmitInv
<1>5. /\ txTasks' = [txTasks EXCEPT ![n] = @ - 1]
      /\ txQueue' = [txQueue EXCEPT ![n] = Tail(@)]
      /\ UNCHANGED <<rxQueue, lastFramesIDs, accepted, outcomes, upVars, envVars>>
      /\ reading' = reading /\ ~reading[n]
  BY <1>3 DEF StartTransmission, Transmit
<1>6. QueueTypes' /\ HistoryTypes'
  BY <1>1, <1>5 DEF QueueTypes, HistoryTypes, upVars, envVars
<1>7. TaskTypes'
  BY <1>2, <1>4, <1>5 DEF TaskTypes
<1>8. PendingEvents'
  <2>1. txTasks'[n] \in 0..1
    BY <1>2, <1>5 DEF TaskTypes, PendingEvents
  <2>2. \A m \in Nodes \ {n} : txTasks'[m] = txTasks[m] /\ txQueue'[m] = txQueue[m]
    BY <1>5 DEF TaskTypes, QueueTypes
  <2>3. PendingEvents /\ reading' = reading /\ ~reading[n]
    BY <1>5
  <2> HIDE DEF IInv, TypeOK
  <2> QED BY <1>4, <2>1, <2>2, <2>3 DEF PendingEvents
<1> QED BY <1>4, <1>6, <1>7, <1>8

\* A timeout that tries to transmit again.
LEMMA RetryInv ==
  ASSUME IInv, NEW n \in Nodes, ChannelTimeout(n) \/ AckTimeoutRetry(n)
  PROVE  IInv'
<1> USE DEF IInv, TypeOK
<1>1. txPDU[n] \in PDU /\ currentTxRetry[n] \in 0..MaxRetries
  BY DEF ChannelTimeout, AckTimeoutRetry, BuffersLoaded, FsmTypes, RetryAccounting,
         IDLE_S, WAIT_ACK_S, WAIT_CHAN_FREE_S
<1>2. Transmit(n, txPDU[n], currentTxRetry[n], {})
  <2>1. CASE ChannelTimeout(n)
    <3>1. timers[n] \ {TOUT_BUSY_E} = {}
      BY <2>1 DEF ChannelTimeout, OneTimeout
    <3> QED BY <2>1, <3>1 DEF ChannelTimeout
  <2>2. CASE AckTimeoutRetry(n)
    <3>1. timers[n] \ {TOUT_ACK_E} = {}
      BY <2>2 DEF AckTimeoutRetry, OneTimeout
    <3> QED BY <2>2, <3>1 DEF AckTimeoutRetry
  <2> QED BY <2>1, <2>2
<1>3. /\ FsmTypes' /\ RadioTypes' /\ BuffersLoaded' /\ OneTimeout'
      /\ IdleListens' /\ RetryAccounting'
      /\ timers' \in [Nodes -> SUBSET {TOUT_ACK_E, TOUT_BUSY_E}]
      /\ fsmState'[n] # IDLE_S
      /\ \A m \in Nodes \ {n} : fsmState'[m] = fsmState[m]
  BY <1>1, <1>2, TransmitInv
<1>4. /\ txTasks' = txTasks /\ txQueue' = txQueue /\ reading' = reading
      /\ fsmState[n] # IDLE_S /\ txTasks[n] = 0
  BY <1>2 DEF ChannelTimeout, AckTimeoutRetry, Runs, Transmit,
              IDLE_S, WAIT_ACK_S, WAIT_CHAN_FREE_S
<1>5. QueueTypes' /\ HistoryTypes'
  BY <1>2, <1>4 DEF QueueTypes, HistoryTypes, Transmit, upVars, envVars
<1>6. TaskTypes' /\ PendingEvents'
  BY <1>3, <1>4 DEF TaskTypes, PendingEvents
<1> QED BY <1>3, <1>5, <1>6

\* Reporting a result: the node is idle again, hears, and has an event pending.
LEMMA FinishInv ==
  ASSUME IInv, NEW n \in Nodes, NEW ok \in BOOLEAN, Finish(n, ok, {}),
         fsmState[n] = WAIT_ACK_S, txTasks[n] = 0,
         \A m \in Nodes \ {n} : reading'[m] = reading[m]
  PROVE  /\ FsmTypes' /\ QueueTypes' /\ TaskTypes' /\ HistoryTypes'
         /\ listening' \in [Nodes -> BOOLEAN]
         /\ OneTimeout' /\ PendingEvents' /\ IdleListens' /\ RetryAccounting'
         /\ \A m \in Nodes : fsmState'[m] # IDLE_S => txPDU'[m] \in PDU
<1> USE DEF IInv, TypeOK, Finish
<1>1. txPDU[n] \in PDU
  BY DEF BuffersLoaded, IDLE_S, WAIT_ACK_S
<1>2. QueueTypes' /\ \A m \in Nodes \ {n} : txQueue'[m] = txQueue[m]
  <2>1. ASSUME NEW rx \in Nodes, NEW id \in Ids, Accept(n, rx, id)
        PROVE  QueueTypes' /\ \A m \in Nodes \ {n} : txQueue'[m] = txQueue[m]
    <3>1. DataPDU(n, rx, id) \in PDU
      BY DEF DataPDU, PDU
    <3> QED BY <2>1, <3>1 DEF QueueTypes, Accept
  <2>2. CASE UNCHANGED <<txQueue, accepted, usedIds>>
    BY <2>2 DEF QueueTypes
  <2> QED BY <2>1, <2>2
<1>3. HistoryTypes'
  <2>1. outcomes' \in [Nodes -> Seq(Outcome)]
    <3>1. [rx |-> txPDU[n].rx, id |-> txPDU[n].id, ok |-> ok] \in Outcome
      BY <1>1 DEF PDU, Outcome
    <3> QED BY <3>1 DEF HistoryTypes
  <2>2. accepted' \in [Nodes -> Seq(Handle)] /\ usedIds' \subseteq Ids
    <3>1. ASSUME NEW rx \in Nodes, NEW id \in Ids, Accept(n, rx, id)
          PROVE  accepted' \in [Nodes -> Seq(Handle)] /\ usedIds' \subseteq Ids
      <4>1. [rx |-> rx, id |-> id] \in Handle
        BY DEF Handle
      <4> QED BY <3>1, <4>1 DEF HistoryTypes, Accept
    <3>2. CASE UNCHANGED <<txQueue, accepted, usedIds>>
      BY <3>2 DEF HistoryTypes
    <3> QED BY <3>1, <3>2
  <2> QED BY <2>1, <2>2 DEF HistoryTypes, upVars
<1>4. FsmTypes' /\ TaskTypes'
  BY DEF FsmTypes, TaskTypes
<1>5. listening' \in [Nodes -> BOOLEAN] /\ IdleListens'
  BY DEF RadioTypes, FsmTypes, IdleListens, _startReceiving
<1>6. OneTimeout'
  BY DEF FsmTypes, TaskTypes, OneTimeout, IDLE_S, WAIT_ACK_S, WAIT_CHAN_FREE_S
<1>7. PendingEvents'
  <2>1. fsmState'[n] = IDLE_S /\ txTasks'[n] = 1
    BY DEF FsmTypes, TaskTypes
  <2>2. \A m \in Nodes \ {n} : fsmState'[m] = fsmState[m] /\ txTasks'[m] = txTasks[m]
    BY DEF FsmTypes, TaskTypes
  <2> HIDE DEF Finish
  <2> QED BY <1>2, <2>1, <2>2 DEF PendingEvents
<1>8. RetryAccounting'
  BY DEF FsmTypes, RetryAccounting, IDLE_S, WAIT_ACK_S, WAIT_CHAN_FREE_S
<1>9. \A m \in Nodes : fsmState'[m] # IDLE_S => txPDU'[m] \in PDU
  BY DEF FsmTypes, BuffersLoaded
<1> QED BY <1>2, <1>3, <1>4, <1>5, <1>6, <1>7, <1>8, <1>9

\* The last timeout reports the frame as failed.
LEMMA GiveUpInv ==
  ASSUME IInv, NEW n \in Nodes, AckTimeoutGiveUp(n)
  PROVE  IInv'
<1>1. timers[n] \ {TOUT_ACK_E} = {}
  BY DEF IInv, AckTimeoutGiveUp, OneTimeout
<1>2. Finish(n, FALSE, {}) /\ fsmState[n] = WAIT_ACK_S /\ txTasks[n] = 0
  BY <1>1 DEF AckTimeoutGiveUp, Runs, IDLE_S, WAIT_ACK_S
<1>3. /\ FsmTypes' /\ QueueTypes' /\ TaskTypes' /\ HistoryTypes'
      /\ listening' \in [Nodes -> BOOLEAN]
      /\ OneTimeout' /\ PendingEvents' /\ IdleListens' /\ RetryAccounting'
      /\ \A m \in Nodes : fsmState'[m] # IDLE_S => txPDU'[m] \in PDU
  <2>1. \A m \in Nodes \ {n} : reading'[m] = reading[m]
    BY DEF AckTimeoutGiveUp
  <2> QED BY <1>2, <2>1, FinishInv
<1>4. RadioTypes' /\ BuffersLoaded'
  BY <1>3 DEF IInv, TypeOK, RadioTypes, BuffersLoaded, AckTimeoutGiveUp, airVars
<1> QED BY <1>3, <1>4 DEF IInv, TypeOK

---------------------------------------------------------------------------
\* _checkReceived starts the reading the interrupt asked for.
LEMMA CheckReceivedInv ==
  ASSUME IInv, NEW n \in Nodes, _checkReceived(n)
  PROVE  IInv'
<1> USE DEF IInv, TypeOK, _checkReceived, fsmVars, taskVars, upVars, envVars
<1>1. FsmTypes' /\ QueueTypes'
  BY DEF FsmTypes, QueueTypes
<1>2. TaskTypes' /\ HistoryTypes'
  BY DEF TaskTypes, HistoryTypes
<1>3. RadioTypes'
  BY DEF RadioTypes
<1>4. BuffersLoaded'
  BY DEF RadioTypes, BuffersLoaded
<1>5. OneTimeout' /\ IdleListens' /\ RetryAccounting'
  BY DEF OneTimeout, IdleListens, RetryAccounting
<1>6. PendingEvents'
  BY DEF PendingEvents, RadioTypes, Runs
<1> QED BY <1>1, <1>2, <1>3, <1>4, <1>5, <1>6

\* A frame that is read and does not reach the FSM.
LEMMA ReadInv ==
  ASSUME IInv, NEW n \in Nodes, Read(n), UNCHANGED <<fsmVars, taskVars, txQueue>>,
         \/ UNCHANGED airVars
         \/ _send_ack(n, radioBuf[n])
  PROVE  /\ FsmTypes' /\ TaskTypes' /\ RadioTypes' /\ BuffersLoaded'
         /\ OneTimeout' /\ PendingEvents' /\ IdleListens' /\ RetryAccounting'
<1> USE DEF IInv, TypeOK, fsmVars, taskVars
<1>1. radioBuf[n] \in PDU
  BY DEF Read, BuffersLoaded
<1>2. AckPDU(n, radioBuf[n]) \in PDU
  BY <1>1 DEF AckPDU, PDU
<1>3. /\ radioBuf' \in [Nodes -> PDU \union {NoPDU}]
      /\ received' \in [Nodes -> BOOLEAN]
      /\ \A m \in Nodes : received'[m] \/ reading[m] => radioBuf'[m] \in PDU
  <2>1. CASE UNCHANGED airVars
    BY <2>1 DEF RadioTypes, BuffersLoaded, airVars
  <2>2. CASE \E R \in SUBSET Nodes : OnAir(n, AckPDU(n, radioBuf[n]), R)
    BY <2>2, <1>2, OnAirEffect
  <2> QED BY <2>1, <2>2 DEF _send_ack
<1>4. /\ listening' = [listening EXCEPT ![n] = TRUE]
      /\ reading' = [reading EXCEPT ![n] = FALSE]
  BY DEF Read, _startReceiving
<1>5. FsmTypes' /\ TaskTypes'
  BY DEF FsmTypes, TaskTypes
<1>6. RadioTypes'
  BY <1>3, <1>4 DEF RadioTypes
<1>7. BuffersLoaded'
  BY <1>3, <1>4 DEF RadioTypes, BuffersLoaded
<1>8. OneTimeout' /\ PendingEvents'
  BY <1>4 DEF RadioTypes, OneTimeout, PendingEvents
<1>9. IdleListens' /\ RetryAccounting'
  BY <1>4 DEF RadioTypes, IdleListens, RetryAccounting
<1> QED BY <1>5, <1>6, <1>7, <1>8, <1>9

\* A frame for another node is dropped, one that was seen is answered as well.
LEMMA DropSeenInv ==
  ASSUME IInv, NEW n \in Nodes, DropFrame(n) \/ SeenFrame(n)
  PROVE  IInv'
<1>1. /\ Read(n) /\ UNCHANGED <<fsmVars, taskVars, txQueue>>
      /\ UNCHANGED airVars \/ _send_ack(n, radioBuf[n])
  BY DEF DropFrame, SeenFrame, fsmVars, taskVars, airVars
<1>2. QueueTypes' /\ HistoryTypes'
  BY DEF IInv, TypeOK, QueueTypes, HistoryTypes, DropFrame, SeenFrame, upVars, envVars
<1> QED BY <1>1, <1>2, ReadInv DEF IInv, TypeOK

\* A new frame for this node is kept and acknowledged.
LEMMA DataFrameInv ==
  ASSUME IInv, NEW n \in Nodes, DataFrame(n)
  PROVE  IInv'
<1>1. radioBuf[n] \in PDU
  BY DEF IInv, BuffersLoaded, DataFrame, Read
<1>2. /\ Read(n) /\ UNCHANGED <<fsmVars, taskVars, txQueue>>
      /\ UNCHANGED airVars \/ _send_ack(n, radioBuf[n])
  BY DEF DataFrame, fsmVars, taskVars, airVars
<1>3. QueueTypes'
  <2>1. Remember(lastFramesIDs[n], radioBuf[n].id) \in Seq(Ids)
    <3>1. radioBuf[n].id \in Ids /\ lastFramesIDs[n] \in Seq(Ids)
      BY <1>1 DEF IInv, TypeOK, QueueTypes, PDU
    <3>2. CASE Len(lastFramesIDs[n]) < RingSize
      BY <3>1, <3>2 DEF Remember
    <3>3. CASE ~(Len(lastFramesIDs[n]) < RingSize)
      <4>1. lastFramesIDs[n] # <<>>
        BY <3>1, <3>3
      <4>2. Tail(lastFramesIDs[n]) \in Seq(Ids)
        BY <3>1, <4>1
      <4> QED BY <3>1, <3>3, <4>2 DEF Remember
    <3> QED BY <3>2, <3>3
  <2>2. lastFramesIDs' \in [Nodes -> Seq(Ids)]
    BY <2>1 DEF IInv, TypeOK, QueueTypes, DataFrame
  <2>3. rxQueue' \in [Nodes -> Seq(PDU)] /\ txQueue' = txQueue
    BY <1>1 DEF IInv, TypeOK, QueueTypes, DataFrame
  <2> QED BY <2>2, <2>3 DEF IInv, TypeOK, QueueTypes
<1>4. HistoryTypes'
  <2>1. <<radioBuf[n].tx, radioBuf[n].id>> \in Nodes \X Ids
    BY <1>1 DEF PDU
  <2>2. delivered' \in [Nodes -> SUBSET (Nodes \X Ids)]
    BY <2>1 DEF IInv, TypeOK, HistoryTypes, DataFrame
  <2>3. radioBuf[n].id \in Ids
    BY <1>1 DEF PDU
  <2>4. handedUp' \in [Nodes -> Seq(Ids)]
    BY <2>3 DEF IInv, TypeOK, HistoryTypes, DataFrame
  <2> QED BY <2>2, <2>4 DEF IInv, TypeOK, HistoryTypes, DataFrame, envVars
<1> QED BY <1>2, <1>3, <1>4, ReadInv DEF IInv, TypeOK

\* The acknowledgement awaited reports the frame as sent.
LEMMA AckFrameInv ==
  ASSUME IInv, NEW n \in Nodes, AckFrame(n)
  PROVE  IInv'
<1>1. fsmState[n] = WAIT_ACK_S
  BY DEF AckFrame, _is_ack_valid
<1>2. timers[n] \ {TOUT_ACK_E} = {}
  BY <1>1 DEF IInv, OneTimeout
<1>3. Finish(n, TRUE, {})
  BY <1>2 DEF AckFrame
<1>4. txTasks[n] = 0
  BY <1>1 DEF IInv, PendingEvents, AckFrame, IDLE_S, WAIT_ACK_S
<1>5. /\ FsmTypes' /\ QueueTypes' /\ TaskTypes' /\ HistoryTypes'
      /\ listening' \in [Nodes -> BOOLEAN]
      /\ OneTimeout' /\ PendingEvents' /\ IdleListens' /\ RetryAccounting'
      /\ \A m \in Nodes : fsmState'[m] # IDLE_S => txPDU'[m] \in PDU
  <2>1. \A m \in Nodes \ {n} : reading'[m] = reading[m]
    BY DEF IInv, TypeOK, RadioTypes, AckFrame
  <2> QED BY <1>1, <1>3, <1>4, <2>1, FinishInv
<1>6. RadioTypes' /\ BuffersLoaded'
  BY <1>5 DEF IInv, TypeOK, RadioTypes, BuffersLoaded, AckFrame, airVars
<1> QED BY <1>5, <1>6 DEF IInv, TypeOK

\* A restart leaves the node as MAC_init does and the others alone.
LEMMA RestartInv ==
  ASSUME IInv, NEW n \in Nodes, Restart(n)
  PROVE  IInv'
<1> USE DEF IInv, TypeOK, Restart
<1>1. FsmTypes'
  BY DEF FsmTypes
<1>2. QueueTypes' /\ TaskTypes'
  BY DEF QueueTypes, TaskTypes
<1>3. RadioTypes'
  BY DEF RadioTypes
<1>4. HistoryTypes'
  BY DEF HistoryTypes
<1>5. BuffersLoaded'
  BY DEF FsmTypes, RadioTypes, BuffersLoaded
<1>6. OneTimeout'
  BY DEF FsmTypes, TaskTypes, OneTimeout, IDLE_S, WAIT_ACK_S, WAIT_CHAN_FREE_S
<1>7. PendingEvents'
  BY DEF FsmTypes, QueueTypes, TaskTypes, RadioTypes, PendingEvents
<1>8. IdleListens'
  BY DEF FsmTypes, RadioTypes, IdleListens
<1>9. RetryAccounting'
  BY DEF FsmTypes, RetryAccounting, IDLE_S, WAIT_ACK_S, WAIT_CHAN_FREE_S
<1> QED BY <1>1, <1>2, <1>3, <1>4, <1>5, <1>6, <1>7, <1>8, <1>9

---------------------------------------------------------------------------
\* The inductive invariant holds in every reachable state.
THEOREM MacInvariant == Spec => []IInv
<1>1. IInv /\ [Next]_vars => IInv'
  <2> SUFFICES ASSUME IInv, [Next]_vars PROVE IInv'
    OBVIOUS
  <2>1. ASSUME NEW n \in Nodes, NodeStep(n)
        PROVE  IInv'
    BY <2>1, SendInv, ReceiveInv, StartTransmissionInv, SpareTxEventInv, RetryInv,
       GiveUpInv, CheckReceivedInv, DropSeenInv, AckFrameInv, DataFrameInv, RestartInv
       DEF NodeStep
  <2>2. CASE UNCHANGED vars
    <3> USE <2>2 DEF IInv, TypeOK, vars, fsmVars, taskVars, airVars, upVars, envVars
    <3>1. FsmTypes' /\ QueueTypes' BY DEF FsmTypes, QueueTypes
    <3>2. TaskTypes' /\ RadioTypes' BY DEF TaskTypes, RadioTypes
    <3>3. HistoryTypes' BY DEF HistoryTypes
    <3>4. BuffersLoaded' /\ OneTimeout' BY DEF BuffersLoaded, OneTimeout
    <3>5. PendingEvents' /\ IdleListens' BY DEF PendingEvents, IdleListens
    <3>6. RetryAccounting' BY DEF RetryAccounting
    <3> QED BY <3>1, <3>2, <3>3, <3>4, <3>5, <3>6
  <2> QED BY <2>1, <2>2 DEF Next
<1> QED BY InitInv, <1>1, PTL DEF Spec

\* Every variable keeps its type.
THEOREM TypeCorrect == Spec => []TypeOK
<1>1. IInv => TypeOK
  BY DEF IInv
<1> QED BY <1>1, MacInvariant, PTL

\* Exactly the timeout the FSM waits for is running (mac.cpp:500, 513-520).
THEOREM TimeoutMatchesState == Spec => []OneTimeout
<1>1. IInv => OneTimeout
  BY DEF IInv
<1> QED BY <1>1, MacInvariant, PTL

\* No queued frame is forgotten and at most two events are pending (mac.cpp:135-141).
THEOREM WakeupNotLost == Spec => []NoLostWakeup
<1>1. ASSUME PendingEvents, NEW n \in Nodes
      PROVE  /\ fsmState[n] = IDLE_S /\ txQueue[n] # <<>> => txTasks[n] > 0
             /\ txTasks[n] <= 2
  <2>1. CASE fsmState[n] = IDLE_S /\ txQueue[n] # <<>>
    BY <1>1, <2>1 DEF PendingEvents
  <2>2. CASE ~(fsmState[n] = IDLE_S /\ txQueue[n] # <<>>)
    BY <1>1, <2>2 DEF PendingEvents
  <2> QED BY <2>1, <2>2
<1>2. IInv => NoLostWakeup
  BY <1>1 DEF IInv, NoLostWakeup
<1> QED BY <1>2, MacInvariant, PTL

\* An idle node receives (mac.cpp:369, 383; loraraw.cpp:113).
THEOREM IdleNodeListens == Spec => []IdleListens
<1>1. IInv => IdleListens
  BY DEF IInv
<1> QED BY <1>1, MacInvariant, PTL

\* Retry and backoff counters agree with the frame and with the state.
THEOREM RetriesAccounted == Spec => []RetryAccounting
<1>1. IInv => RetryAccounting
  BY DEF IInv
<1> QED BY <1>1, MacInvariant, PTL
=============================================================================
