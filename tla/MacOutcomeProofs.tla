-------------------------- MODULE MacOutcomeProofs --------------------------
(***************************************************************************)
(* Every frame the medium access layer accepts gets exactly one result, in *)
(* the order of the calls; a success is true; a frame is not handed up     *)
(* again before as many others as the ring holds; and the layer implements *)
(* module MacService.                                                      *)
(*                                                                         *)
(* The first needs the types of MacProofs and that a frame is in txPDU     *)
(* whenever the FSM is not idle. That a success is true needs what an      *)
(* identifier in an acknowledgement, or in a ring, is evidence of          *)
(* (FrameInv): that its receiver has handed up the frame, when identifiers *)
(* are those of one frame. The ring is the end of what was handed up       *)
(* (RingInv), whatever the identifiers and however small it is.            *)
(***************************************************************************)
EXTENDS MacProofs

USE MacAssumption, NoPDUAssumption

---------------------------------------------------------------------------
\* Handles commutes with the operations the handlers perform on sequences.
LEMMA HandlesSeq ==
  ASSUME NEW S, \A f \in S : HandleOf(f) \in Handle, NEW s \in Seq(S)
  PROVE  Handles(s) \in Seq(Handle) /\ Len(Handles(s)) = Len(s)
BY DEF Handles

\* Appending a frame appends its handle.
LEMMA HandlesAppend ==
  ASSUME NEW S, \A f \in S : HandleOf(f) \in Handle, NEW s \in Seq(S), NEW e \in S
  PROVE  Handles(Append(s, e)) = Append(Handles(s), HandleOf(e))
BY HandlesSeq DEF Handles

\* The handle of the head comes first.
LEMMA HandlesTail ==
  ASSUME NEW S, \A f \in S : HandleOf(f) \in Handle, NEW s \in Seq(S), s # <<>>
  PROVE  Handles(s) = <<HandleOf(Head(s))>> \o Handles(Tail(s))
BY HandlesSeq DEF Handles

\* The retry flag is no part of what identifies a frame.
LEMMA RetryHandle ==
  ASSUME NEW f \in PDU, NEW retry
  PROVE  HandleOf([f EXCEPT !.retry = retry]) = HandleOf(f)
BY DEF PDU, HandleOf

\* OneOutcomeInOrder for one node, and what a step must keep for a node to
\* keep it trivially.
InOrder(n) == accepted[n] = Handles(outcomes[n]) \o InFlight(n) \o Handles(txQueue[n])

Untouched(n) ==
  /\ accepted'[n] = accepted[n] /\ outcomes'[n] = outcomes[n]
  /\ txQueue'[n] = txQueue[n]
  /\ InFlight(n)' = InFlight(n)

\* Frames and results both have a handle.
LEMMA PDUHandles ==
  /\ \A f \in PDU : HandleOf(f) \in Handle
  /\ \A f \in Outcome : HandleOf(f) \in Handle
BY DEF PDU, Outcome, Handle, HandleOf

\* The three parts of the sequence of accepted frames are sequences of handles.
LEMMA PartsType ==
  ASSUME IInv, NEW n \in Nodes
  PROVE  /\ txQueue[n] \in Seq(PDU) /\ outcomes[n] \in Seq(Outcome)
         /\ accepted[n] \in Seq(Handle)
         /\ Handles(outcomes[n]) \in Seq(Handle)
         /\ InFlight(n) \in Seq(Handle)
         /\ Handles(txQueue[n]) \in Seq(Handle)
<1>1. txQueue[n] \in Seq(PDU) /\ outcomes[n] \in Seq(Outcome) /\ accepted[n] \in Seq(Handle)
  BY DEF IInv, TypeOK, QueueTypes, HistoryTypes
<1>2. Handles(outcomes[n]) \in Seq(Handle) /\ Handles(txQueue[n]) \in Seq(Handle)
  BY <1>1, PDUHandles, HandlesSeq
<1>3. InFlight(n) \in Seq(Handle)
  <2>1. CASE fsmState[n] = IDLE_S
    BY <2>1 DEF InFlight
  <2>2. CASE fsmState[n] # IDLE_S
    <3>1. HandleOf(txPDU[n]) \in Handle
      BY <2>2, PDUHandles DEF IInv, BuffersLoaded
    <3> QED BY <2>2, <3>1 DEF InFlight
  <2> QED BY <2>1, <2>2
<1> QED BY <1>1, <1>2, <1>3

\* Accepting a frame appends its handle to both sides.
LEMMA AcceptOrder ==
  ASSUME IInv, NEW n \in Nodes, NEW rx \in Nodes, NEW id \in Ids, Accept(n, rx, id),
         NEW a \in Seq(Handle), NEW b \in Seq(Handle),
         accepted[n] = a \o b \o Handles(txQueue[n])
  PROVE  accepted'[n] = a \o b \o Handles(txQueue'[n])
<1>1. PICK d : d = DataPDU(n, rx, id)
  OBVIOUS
<1>2. d \in PDU
  BY <1>1 DEF DataPDU, PDU
<1>3. PICK h : h = [rx |-> rx, id |-> id]
  OBVIOUS
<1>4. h \in Handle /\ HandleOf(d) = h
  BY <1>1, <1>3 DEF Handle, DataPDU, HandleOf
<1>5. txQueue'[n] = Append(txQueue[n], d) /\ accepted'[n] = Append(accepted[n], h)
  BY <1>1, <1>3 DEF Accept, IInv, TypeOK, QueueTypes, HistoryTypes
<1>6. /\ txQueue[n] \in Seq(PDU) /\ accepted[n] \in Seq(Handle)
      /\ Handles(txQueue[n]) \in Seq(Handle) /\ <<h>> \in Seq(Handle)
  BY <1>4, PartsType
<1>7. Handles(txQueue'[n]) = Append(Handles(txQueue[n]), h)
  BY <1>2, <1>4, <1>5, <1>6, PDUHandles, HandlesAppend
<1>8. PICK q : q = Handles(txQueue[n])
  OBVIOUS
<1>9. PICK q2 : q2 = Handles(txQueue'[n])
  OBVIOUS
<1>10. q2 = q \o <<h>>
  <2>1. q2 = Append(q, h) /\ q \in Seq(Handle)
    BY <1>6, <1>7, <1>8, <1>9
  <2> QED BY <1>4, <2>1, AppendIsConcat
<1>11. accepted'[n] = accepted[n] \o <<h>>
  BY <1>4, <1>5, <1>6, AppendIsConcat
<1>12. PICK all : all = accepted[n]
  OBVIOUS
<1>13. PICK all2 : all2 = accepted'[n]
  OBVIOUS
<1>14. /\ q \in Seq(Handle) /\ q2 = q \o <<h>> /\ <<h>> \in Seq(Handle)
       /\ all = (a \o b) \o q /\ all2 = all \o <<h>>
  BY <1>6, <1>8, <1>10, <1>11, <1>12, <1>13
<1>15. all2 = (a \o b) \o q2
  <2>1. (a \o b) \in Seq(Handle)
    BY ConcatProperties
  <2>2. all \in Seq(Handle) /\ q2 \in Seq(Handle)
    BY <1>14, <2>1, ConcatProperties
  <2>3. all2 \in Seq(Handle) /\ ((a \o b) \o q2) \in Seq(Handle)
    BY <1>14, <2>1, <2>2, ConcatProperties
  <2>4. Len(all2) = Len((a \o b) \o q2)
    BY <1>14, <2>1, <2>2, ConcatProperties
  <2>5. ASSUME NEW i \in 1..Len(all2) PROVE all2[i] = ((a \o b) \o q2)[i]
    BY <1>14, <2>1, <2>2, <2>3, ConcatProperties
  <2> QED BY <2>3, <2>4, <2>5, SeqEqual
<1> QED BY <1>9, <1>13, <1>15

\* MAC_send queues the frame it accepts (mac.cpp:128-150).
LEMMA SendOrder ==
  ASSUME IInv, NEW n \in Nodes, InOrder(n),
         NEW rx \in Nodes, NEW id \in Ids, MAC_send(n, rx, id)
  PROVE  InOrder(n)' /\ \A m \in Nodes \ {n} : Untouched(m)
<1>1. \A m \in Nodes \ {n} : Untouched(m)
  BY DEF MAC_send, Accept, Untouched, InFlight, fsmVars, IInv, TypeOK, QueueTypes, HistoryTypes
<1>2. InFlight(n)' = InFlight(n) /\ outcomes' = outcomes
  BY DEF MAC_send, InFlight, fsmVars
<1>3. accepted'[n] = Handles(outcomes[n]) \o InFlight(n) \o Handles(txQueue'[n])
  BY PartsType, AcceptOrder DEF MAC_send, InOrder
<1> QED BY <1>1, <1>2, <1>3 DEF InOrder

\* A transmission moves the head of the queue in flight.
LEMMA StartOrder ==
  ASSUME IInv, NEW n \in Nodes, InOrder(n), StartTransmission(n)
  PROVE  InOrder(n)' /\ \A m \in Nodes \ {n} : Untouched(m)
<1> DEFINE f == Head(txQueue[n])
<1>1. /\ txQueue[n] \in Seq(PDU) /\ txQueue[n] # <<>> /\ f \in PDU
      /\ fsmState[n] = IDLE_S
  BY PartsType DEF StartTransmission
<1>2. Transmit(n, f, 0, {})
  BY DEF StartTransmission, IInv, OneTimeout
<1>3. txQueue' = [txQueue EXCEPT ![n] = Tail(@)] /\ UNCHANGED <<accepted, outcomes>>
  BY <1>2 DEF StartTransmission, Transmit
<1>4. fsmState'[n] # IDLE_S /\ \A m \in Nodes \ {n} : fsmState'[m] = fsmState[m]
  <2>1. 0 \in 0..MaxRetries
    OBVIOUS
  <2> QED BY <1>1, <1>2, <2>1, TransmitInv
<1>5. txPDU' = [txPDU EXCEPT ![n] = f] \/ txPDU' = [txPDU EXCEPT ![n] = [f EXCEPT !.retry = 0]]
  BY <1>2 DEF Transmit, _attempt_transmission, ChannelBusy
<1>6. HandleOf(txPDU'[n]) = HandleOf(f)
  <2>1. txPDU'[n] = f \/ txPDU'[n] = [f EXCEPT !.retry = 0]
    BY <1>5 DEF IInv, TypeOK, FsmTypes
  <2> HIDE DEF f
  <2> QED BY <1>1, <2>1, RetryHandle
<1>7. InFlight(n)' = <<HandleOf(f)>> /\ InFlight(n) = <<>>
  BY <1>1, <1>4, <1>6 DEF InFlight
<1>8. Handles(txQueue[n]) = <<HandleOf(f)>> \o Handles(txQueue'[n])
  <2>1. txQueue'[n] = Tail(txQueue[n])
    BY <1>3 DEF IInv, TypeOK, QueueTypes
  <2> QED BY <1>1, <2>1, PDUHandles, HandlesTail
<1>9. accepted'[n] = Handles(outcomes'[n]) \o InFlight(n)' \o Handles(txQueue'[n])
  <2>1. /\ Handles(outcomes[n]) \in Seq(Handle) /\ <<HandleOf(f)>> \in Seq(Handle)
        /\ Handles(txQueue'[n]) \in Seq(Handle)
    <3>1. Tail(txQueue[n]) \in Seq(PDU) /\ txQueue'[n] = Tail(txQueue[n])
      BY <1>1, <1>3 DEF IInv, TypeOK, QueueTypes
    <3>2. HandleOf(f) \in Handle
      BY <1>1, PDUHandles
    <3>3. Handles(txQueue'[n]) \in Seq(Handle)
      BY <3>1, PDUHandles, HandlesSeq
    <3>4. Handles(outcomes[n]) \in Seq(Handle)
      BY PartsType
    <3> HIDE DEF f
    <3> QED BY <3>2, <3>3, <3>4
  <2>2. accepted[n] = Handles(outcomes[n]) \o (<<HandleOf(f)>> \o Handles(txQueue'[n]))
    BY <1>7, <1>8, <2>1, ConcatEmptySeq DEF InOrder
  <2>3. accepted[n] = (Handles(outcomes[n]) \o <<HandleOf(f)>>) \o Handles(txQueue'[n])
    BY <2>1, <2>2, ConcatAssociative
  <2> QED BY <1>3, <1>7, <2>3
<1>10. ASSUME NEW m \in Nodes \ {n} PROVE Untouched(m)
  BY <1>3, <1>4, <1>5 DEF Untouched, InFlight, IInv, TypeOK, QueueTypes, FsmTypes
<1> QED BY <1>9, <1>10 DEF InOrder

\* A retry changes only the retry flag of the frame in flight.
LEMMA RetryOrder ==
  ASSUME IInv, NEW n \in Nodes, InOrder(n), ChannelTimeout(n) \/ AckTimeoutRetry(n)
  PROVE  \A m \in Nodes : Untouched(m)
<1>1. fsmState[n] # IDLE_S /\ txPDU[n] \in PDU /\ currentTxRetry[n] \in 0..MaxRetries
  BY DEF ChannelTimeout, AckTimeoutRetry, IInv, TypeOK, FsmTypes, BuffersLoaded,
         RetryAccounting, IDLE_S, WAIT_ACK_S, WAIT_CHAN_FREE_S
<1>2. Transmit(n, txPDU[n], currentTxRetry[n], {})
  BY DEF ChannelTimeout, AckTimeoutRetry, IInv, OneTimeout
<1>3. fsmState'[n] # IDLE_S /\ \A m \in Nodes \ {n} : fsmState'[m] = fsmState[m]
  BY <1>1, <1>2, TransmitInv
<1>4. UNCHANGED <<txQueue, accepted, outcomes>>
  BY <1>2 DEF ChannelTimeout, AckTimeoutRetry, Transmit
<1>5. \/ txPDU' = [txPDU EXCEPT ![n] = txPDU[n]]
      \/ txPDU' = [txPDU EXCEPT ![n] = [txPDU[n] EXCEPT !.retry = currentTxRetry[n]]]
  BY <1>2 DEF Transmit, _attempt_transmission, ChannelBusy
<1>6. HandleOf(txPDU'[n]) = HandleOf(txPDU[n])
  BY <1>1, <1>5, RetryHandle DEF IInv, TypeOK, FsmTypes
<1>7. Untouched(n)
  BY <1>1, <1>3, <1>4, <1>6 DEF Untouched, InFlight
<1>8. ASSUME NEW m \in Nodes \ {n} PROVE Untouched(m)
  BY <1>3, <1>4, <1>5 DEF Untouched, InFlight, IInv, TypeOK, FsmTypes
<1> QED BY <1>7, <1>8

\* Reporting a result moves the frame in flight to the settled ones, before
\* the frame the callback may hand over is queued.
LEMMA FinishOrder ==
  ASSUME IInv, NEW n \in Nodes, InOrder(n), NEW ok \in BOOLEAN, NEW rest,
         Finish(n, ok, rest), fsmState[n] = WAIT_ACK_S
  PROVE  InOrder(n)' /\ \A m \in Nodes \ {n} : Untouched(m)
<1> DEFINE o == [rx |-> txPDU[n].rx, id |-> txPDU[n].id, ok |-> ok]
           s == Handles(outcomes[n])
           h == HandleOf(txPDU[n])
           q == Handles(txQueue[n])
<1>1. txPDU[n] \in PDU /\ fsmState[n] # IDLE_S
  BY DEF IInv, BuffersLoaded, IDLE_S, WAIT_ACK_S
<1>2. o \in Outcome /\ HandleOf(o) = h /\ h \in Handle
  <2>1. o \in Outcome
    BY <1>1 DEF PDU, Outcome
  <2>2. HandleOf(o) = h
    BY DEF HandleOf
  <2>3. h \in Handle
    BY <1>1, PDUHandles
  <2> QED BY <2>1, <2>2, <2>3
<1>3. outcomes'[n] = Append(outcomes[n], o)
  BY DEF Finish, IInv, TypeOK, HistoryTypes
<1>4. InFlight(n) = <<h>> /\ InFlight(n)' = <<>>
  BY <1>1 DEF Finish, InFlight, IInv, TypeOK, FsmTypes
<1>5. s \in Seq(Handle) /\ <<h>> \in Seq(Handle) /\ q \in Seq(Handle) /\ <<>> \in Seq(Handle)
  <2>1. s \in Seq(Handle) /\ q \in Seq(Handle)
    BY PartsType
  <2> HIDE DEF h
  <2> QED BY <1>2, <2>1
<1>6. Handles(outcomes'[n]) = s \o <<h>>
  <2>1. outcomes[n] \in Seq(Outcome)
    BY PartsType
  <2> HIDE DEF o, h
  <2>2. Handles(outcomes'[n]) = Append(s, h)
    BY <1>2, <1>3, <2>1, PDUHandles, HandlesAppend
  <2> HIDE DEF s
  <2> QED BY <1>2, <1>5, <2>2, AppendIsConcat
<1>7. (s \o <<h>>) \in Seq(Handle) /\ (s \o <<h>>) \o <<>> = s \o <<h>>
  <2> HIDE DEF s, h
  <2>1. (s \o <<h>>) \in Seq(Handle)
    BY <1>5, ConcatProperties
  <2> QED BY <2>1, ConcatEmptySeq
<1>8. accepted[n] = (s \o <<h>>) \o <<>> \o q
  BY <1>4, <1>7 DEF InOrder
<1>9. accepted'[n] = (s \o <<h>>) \o <<>> \o Handles(txQueue'[n])
  <2>1. ASSUME NEW rx \in Nodes, NEW id \in Ids, Accept(n, rx, id)
        PROVE  accepted'[n] = (s \o <<h>>) \o <<>> \o Handles(txQueue'[n])
    BY <1>5, <1>7, <1>8, <2>1, AcceptOrder
  <2>2. CASE UNCHANGED <<txQueue, accepted, usedIds>>
    BY <1>8, <2>2
  <2> QED BY <2>1, <2>2 DEF Finish
<1>10. InOrder(n)'
  BY <1>4, <1>6, <1>9 DEF InOrder
<1>11. ASSUME NEW m \in Nodes \ {n} PROVE Untouched(m)
  <2>1. txQueue'[m] = txQueue[m] /\ accepted'[m] = accepted[m]
    BY DEF Finish, Accept, IInv, TypeOK, QueueTypes, HistoryTypes
  <2>2. outcomes'[m] = outcomes[m] /\ fsmState'[m] = fsmState[m] /\ txPDU' = txPDU
    BY DEF Finish, IInv, TypeOK, FsmTypes, HistoryTypes
  <2> QED BY <2>1, <2>2 DEF Untouched, InFlight
<1> QED BY <1>10, <1>11

---------------------------------------------------------------------------
\* Every step of a node keeps the order of every node.
LEMMA StepOrder ==
  ASSUME IInv, OneOutcomeInOrder, NEW n \in Nodes, NodeStep(n)
  PROVE  OneOutcomeInOrder'
<1> USE DEF InOrder
<1>1. \A m \in Nodes : InOrder(m)
  BY DEF OneOutcomeInOrder
<1>2. (\A m \in Nodes : Untouched(m)) \/ (InOrder(n)' /\ \A m \in Nodes \ {n} : Untouched(m))
  <2>1. CASE \E rx \in Nodes, id \in Ids : MAC_send(n, rx, id)
    BY <1>1, <2>1, SendOrder
  <2>2. CASE StartTransmission(n)
    BY <1>1, <2>2, StartOrder
  <2>3. CASE ChannelTimeout(n) \/ AckTimeoutRetry(n)
    BY <1>1, <2>3, RetryOrder
  <2>4. CASE AckTimeoutGiveUp(n) \/ AckFrame(n)
    <3>1. fsmState[n] = WAIT_ACK_S /\ \E ok \in BOOLEAN : Finish(n, ok, timers[n] \ {TOUT_ACK_E})
      BY <2>4 DEF AckTimeoutGiveUp, AckFrame, _is_ack_valid
    <3> QED BY <1>1, <3>1, FinishOrder
  <2>5. CASE MAC_receive(n) \/ SpareTxEvent(n) \/ _checkReceived(n)
    BY <2>5 DEF MAC_receive, SpareTxEvent, _checkReceived, Untouched, InFlight, fsmVars
  <2>6. CASE DropFrame(n) \/ SeenFrame(n) \/ DataFrame(n)
    BY <2>6 DEF DropFrame, SeenFrame, DataFrame, Untouched, InFlight, fsmVars
  <2>7. CASE Restart(n)
    <3>1. accepted'[n] = <<>> /\ outcomes'[n] = <<>> /\ txQueue'[n] = <<>> /\ InFlight(n)' = <<>>
      BY <2>7 DEF Restart, InFlight, IInv, TypeOK, FsmTypes, QueueTypes, HistoryTypes
    <3>2. Handles(<<>>) = <<>>
      BY DEF Handles
    <3>3. InOrder(n)'
      BY <3>1, <3>2
    <3>4. \A m \in Nodes \ {n} : Untouched(m)
      BY <2>7 DEF Restart, Untouched, InFlight, IInv, TypeOK, FsmTypes, QueueTypes, HistoryTypes
    <3> QED BY <3>3, <3>4
  <2> QED BY <2>1, <2>2, <2>3, <2>4, <2>5, <2>6, <2>7 DEF NodeStep
<1>3. ASSUME NEW m \in Nodes, Untouched(m) PROVE InOrder(m)'
  BY <1>1, <1>3 DEF Untouched
<1> QED BY <1>2, <1>3 DEF OneOutcomeInOrder

\* Neither onSend nor onTxFailed is skipped, repeated or called out of order
\* for the frames MAC_send takes (mac.cpp:135-150, 398-420, 528-549).
THEOREM OutcomesInOrder == Spec => []OneOutcomeInOrder
<1>1. Init => OneOutcomeInOrder
  <2> SUFFICES ASSUME Init, NEW n \in Nodes PROVE InOrder(n)
    BY DEF OneOutcomeInOrder, InOrder
  <2>1. accepted[n] = <<>> /\ outcomes[n] = <<>> /\ txQueue[n] = <<>> /\ InFlight(n) = <<>>
    BY DEF Init, InFlight
  <2>2. Handles(<<>>) = <<>>
    BY DEF Handles
  <2> QED BY <2>1, <2>2 DEF InOrder
<1>2. IInv /\ OneOutcomeInOrder /\ [Next]_vars => OneOutcomeInOrder'
  <2>1. ASSUME IInv, OneOutcomeInOrder, UNCHANGED vars PROVE OneOutcomeInOrder'
    BY <2>1 DEF vars, fsmVars, OneOutcomeInOrder, InFlight
  <2> QED BY <2>1, StepOrder DEF Next
<1> QED BY <1>1, <1>2, MacInvariant, PTL DEF Spec

---------------------------------------------------------------------------
(* A success is true. Identifiers are drawn once, so one data frame at most *)
(* has each; and an identifier that is in an acknowledgement, or that a    *)
(* node remembers, is that of a frame its receiver has handed over. The    *)
(* acknowledgement of an acknowledgement, the one of a frame that was      *)
(* overheard, and the one that comes after a restart make no exception.    *)

Carries(f) ==
  \E n \in Nodes :
    f = radioBuf[n] \/ f = txPDU[n] \/ \E k \in DOMAIN txQueue[n] : f = txQueue[n][k]

\* The data frames that wait, that are sent, or that a radio holds.
DataFrames == {f \in PDU : ~f.isACK /\ Carries(f)}

Known(i) ==
  \E n \in Nodes :
    \/ radioBuf[n] \in PDU /\ radioBuf[n].isACK /\ radioBuf[n].id = i
    \/ Remembers(lastFramesIDs[n], i)

OwnFrames ==
  \A n \in Nodes :
    /\ txPDU[n] \in PDU => txPDU[n].tx = n /\ ~txPDU[n].isACK
    /\ \A k \in DOMAIN txQueue[n] : txQueue[n][k].tx = n /\ ~txQueue[n][k].isACK

IdsDrawn ==
  /\ \A f \in DataFrames : f.id \in usedIds
  /\ \A i \in Ids : Known(i) => i \in usedIds

OneFramePerId ==
  \A f, g \in DataFrames : f.id = g.id => f.tx = g.tx /\ f.rx = g.rx

KnownIsDelivered ==
  \A f \in DataFrames : Known(f.id) => <<f.tx, f.id>> \in delivered[f.rx]

FrameInv == OwnFrames /\ IdsDrawn /\ OneFramePerId /\ KnownIsDelivered

\* The same frame, or another copy of it.
SameFrame(f, g) == f.tx = g.tx /\ f.rx = g.rx /\ f.id = g.id

DeliveredStays ==
  /\ \A m \in Nodes : delivered[m] \subseteq delivered'[m]
  /\ usedIds \subseteq usedIds'

\* A step brings no data frame but copies of those there are, and the one that
\* MAC_send takes.
Copied(f) == \E g \in DataFrames : SameFrame(f, g)

Taken(f) == \E n, rx \in Nodes, id \in Ids : Accept(n, rx, id) /\ f = DataPDU(n, rx, id)

NoStrangers == \A f \in DataFrames' : Copied(f) \/ Taken(f)

\* No frame is made. What a node learns, if anything, is the identifier of J.
LEMMA FramesKeep ==
  ASSUME FrameInv, OwnFrames', DeliveredStays, NEW J \in SUBSET usedIds,
         \A f \in DataFrames' : Copied(f),
         \A i \in Ids : Known(i)' => Known(i) \/ i \in J,
         \A g \in DataFrames : g.id \in J => <<g.tx, g.id>> \in delivered'[g.rx]
  PROVE  FrameInv'
<1>1. IdsDrawn'
  BY DEF FrameInv, IdsDrawn, Copied, SameFrame, DeliveredStays
<1>2. OneFramePerId'
  BY DEF FrameInv, OneFramePerId, Copied, SameFrame
<1>3. ASSUME NEW f \in DataFrames', Known(f.id)'
      PROVE  <<f.tx, f.id>> \in delivered'[f.rx]
  <2>1. PICK g \in DataFrames : SameFrame(f, g)
    BY DEF Copied
  <2>2. g \in PDU /\ g.id \in Ids /\ g.rx \in Nodes
    BY <2>1 DEF DataFrames, PDU
  <2>3. Known(g.id) \/ g.id \in J
    BY <1>3, <2>1, <2>2 DEF SameFrame
  <2>4. <<g.tx, g.id>> \in delivered'[g.rx]
    BY <2>1, <2>2, <2>3 DEF FrameInv, KnownIsDelivered, DeliveredStays
  <2> QED BY <2>1, <2>4 DEF SameFrame
<1> QED BY <1>1, <1>2, <1>3 DEF FrameInv, KnownIsDelivered

\* Nor does a node learn anything.
LEMMA NothingLearnt ==
  ASSUME FrameInv, OwnFrames', DeliveredStays,
         \A f \in DataFrames' : Copied(f),
         \A i \in Ids : Known(i)' => Known(i)
  PROVE  FrameInv'
<1>1. PICK J : J = {}
  OBVIOUS
<1>2. J \in SUBSET usedIds /\ \A g \in DataFrames : g.id \notin J
  BY <1>1
<1> QED BY <1>2, FramesKeep

\* MAC_send draws an identifier no frame has and nobody knows.
LEMMA AcceptFrames ==
  ASSUME IInv, FrameInv, UniqueIds = TRUE, NEW n \in Nodes, NEW rx \in Nodes, NEW id \in Ids,
         Accept(n, rx, id), UNCHANGED <<txPDU, radioBuf, lastFramesIDs, delivered>>
  PROVE  FrameInv' /\ NoStrangers
<1>0. PICK d : d = DataPDU(n, rx, id)
  OBVIOUS
<1>1. d \in PDU /\ d.tx = n /\ d.rx = rx /\ d.id = id /\ ~d.isACK
  BY <1>0 DEF DataPDU, PDU
<1>2. /\ txQueue' = [txQueue EXCEPT ![n] = Append(txQueue[n], d)]
      /\ txQueue \in [Nodes -> Seq(PDU)]
      /\ id \notin usedIds /\ usedIds' = usedIds \union {id}
  BY <1>0 DEF Accept, IInv, TypeOK, QueueTypes
<1>3. \A m \in Nodes : \A k \in DOMAIN txQueue'[m] :
        (k \in DOMAIN txQueue[m] /\ txQueue'[m][k] = txQueue[m][k])
        \/ (m = n /\ txQueue'[m][k] = d)
  <2>1. ASSUME NEW m \in Nodes, NEW k \in DOMAIN txQueue'[m]
        PROVE  (k \in DOMAIN txQueue[m] /\ txQueue'[m][k] = txQueue[m][k])
               \/ (m = n /\ txQueue'[m][k] = d)
    <3>1. CASE m = n
      <4>1. txQueue'[n] = Append(txQueue[n], d) /\ txQueue[n] \in Seq(PDU)
        BY <1>2
      <4>2. k \in 1..(Len(txQueue[n]) + 1) /\ Len(txQueue[n]) \in Nat
        BY <1>1, <3>1, <4>1
      <4>3. CASE k = Len(txQueue[n]) + 1
        BY <1>1, <3>1, <4>1, <4>3
      <4>4. CASE k # Len(txQueue[n]) + 1
        BY <1>1, <3>1, <4>1, <4>2, <4>4
      <4> QED BY <4>3, <4>4
    <3>2. CASE m # n
      BY <1>2, <3>2
    <3> QED BY <3>1, <3>2
  <2> QED BY <2>1
<1>4. OwnFrames'
  BY <1>1, <1>3 DEF FrameInv, OwnFrames
<1>5. \A f \in DataFrames' : f \in DataFrames \/ f = d
  <2>1. \A f \in PDU : Carries(f)' => Carries(f) \/ f = d
    BY <1>3 DEF Carries
  <2> QED BY <2>1 DEF DataFrames
<1>6. \A i \in Ids : Known(i)' <=> Known(i)
  BY DEF Known
<1>7. IdsDrawn'
  BY <1>1, <1>2, <1>5, <1>6 DEF FrameInv, IdsDrawn
<1>8. OneFramePerId'
  BY <1>1, <1>2, <1>5 DEF FrameInv, IdsDrawn, OneFramePerId
<1>9. ~Known(id) /\ \A f \in DataFrames : f.id \in Ids
  BY <1>2 DEF FrameInv, IdsDrawn, DataFrames, PDU
<1>10. KnownIsDelivered'
  BY <1>1, <1>5, <1>6, <1>9 DEF FrameInv, KnownIsDelivered
<1>11. NoStrangers
  BY <1>0, <1>5 DEF NoStrangers, Copied, SameFrame, Taken
<1> QED BY <1>4, <1>7, <1>8, <1>10, <1>11 DEF FrameInv

\* A copy of one's own frame goes out, and the frame may leave the queue.
LEMMA TransmitFrames ==
  ASSUME IInv, FrameInv, NEW n \in Nodes, NEW p \in DataFrames, p.tx = n,
         NEW retry \in 0..MaxRetries, NEW rest, Transmit(n, p, retry, rest),
         \A m \in Nodes : \A k \in DOMAIN txQueue'[m] :
           \E j \in DOMAIN txQueue[m] : txQueue'[m][k] = txQueue[m][j]
  PROVE  FrameInv' /\ NoStrangers
<1>0. PICK f : f = [p EXCEPT !.retry = retry]
  OBVIOUS
<1>1. /\ p \in PDU /\ ~p.isACK
      /\ f \in PDU /\ SameFrame(f, p) /\ ~f.isACK
  BY <1>0 DEF DataFrames, PDU, SameFrame
<1>2. /\ txPDU' = [txPDU EXCEPT ![n] = f] \/ txPDU' = [txPDU EXCEPT ![n] = p]
      /\ UNCHANGED <<lastFramesIDs, delivered, usedIds>>
  BY <1>0 DEF Transmit, _attempt_transmission, ChannelBusy, upVars, envVars
<1>3. \A m \in Nodes : radioBuf'[m] = radioBuf[m] \/ radioBuf'[m] = f
  BY <1>0 DEF Transmit, _attempt_transmission, ChannelBusy, OnAir, airVars
<1>4. \A m \in Nodes : txPDU'[m] = txPDU[m] \/ (m = n /\ txPDU'[m] \in {f, p})
  BY <1>2 DEF IInv, TypeOK, FsmTypes
<1>5. OwnFrames'
  BY <1>1, <1>4 DEF FrameInv, OwnFrames, SameFrame
<1>6. ASSUME NEW g \in DataFrames'
      PROVE  Copied(g)
  <2>1. g \in PDU /\ ~g.isACK /\ (Carries(g) \/ g = f \/ g = p)
    BY <1>3, <1>4 DEF DataFrames, Carries
  <2> QED BY <1>1, <2>1 DEF DataFrames, Copied, SameFrame
<1>7. \A i \in Ids : Known(i)' => Known(i)
  BY <1>1, <1>2, <1>3 DEF Known
<1>8. DeliveredStays
  BY <1>2 DEF DeliveredStays
<1> QED BY <1>5, <1>6, <1>7, <1>8, NothingLearnt DEF NoStrangers

\* The frames and what is known of them stay as they are, or go.
LEMMA QuietFrames ==
  ASSUME FrameInv,
         \A m \in Nodes :
           /\ txPDU'[m] \in {txPDU[m], NoPDU} /\ radioBuf'[m] \in {radioBuf[m], NoPDU}
           /\ txQueue'[m] \in {txQueue[m], <<>>} /\ lastFramesIDs'[m] \in {lastFramesIDs[m], <<>>},
         UNCHANGED <<delivered, usedIds>>
  PROVE  FrameInv' /\ NoStrangers
<1>1. \A m \in Nodes : \A k \in DOMAIN txQueue'[m] :
        k \in DOMAIN txQueue[m] /\ txQueue'[m][k] = txQueue[m][k]
  OBVIOUS
<1>2. OwnFrames'
  BY <1>1 DEF FrameInv, OwnFrames
<1>3. \A f \in DataFrames' : Copied(f)
  BY <1>1 DEF DataFrames, Carries, Copied, SameFrame
<1>4. \A m \in Nodes, i \in Ids :
        Remembers(lastFramesIDs'[m], i) => Remembers(lastFramesIDs[m], i)
  BY DEF Remembers
<1>5. \A i \in Ids : Known(i)' => Known(i)
  BY <1>4 DEF Known
<1>6. DeliveredStays
  BY DEF DeliveredStays
<1> QED BY <1>2, <1>3, <1>5, <1>6, NothingLearnt DEF NoStrangers

\* What Remember adds to the ring, and keeps of it.
LEMMA RememberOne ==
  ASSUME NEW ring \in Seq(Ids), NEW i \in Ids
  PROVE  /\ \A j : Remembers(Remember(ring, i), j) => Remembers(ring, j) \/ j = i
         /\ Len(ring) < RingSize => \A j : Remembers(ring, j) => Remembers(Remember(ring, i), j)
         /\ Remembers(Remember(ring, i), i)
<1>1. CASE Len(ring) < RingSize
  <2>1. Remember(ring, i) = Append(ring, i)
    BY <1>1 DEF Remember
  <2>2. /\ DOMAIN Append(ring, i) = 1..(Len(ring) + 1) /\ Len(ring) \in Nat
        /\ \A k \in DOMAIN ring : k \in DOMAIN Append(ring, i) /\ Append(ring, i)[k] = ring[k]
        /\ Append(ring, i)[Len(ring) + 1] = i
        /\ \A k \in 1..(Len(ring) + 1) : k \in DOMAIN ring \/ k = Len(ring) + 1
    OBVIOUS
  <2>3. Len(ring) + 1 \in DOMAIN Append(ring, i)
    BY <2>2
  <2> QED BY <2>1, <2>2, <2>3 DEF Remembers
<1>2. CASE ~(Len(ring) < RingSize)
  <2> DEFINE t == Tail(ring)
  <2>1. Remember(ring, i) = Append(t, i)
    BY <1>2 DEF Remember
  <2>2. ring # <<>> /\ Len(ring) \in Nat \ {0}
    BY <1>2
  <2>3. t \in Seq(Ids) /\ \A k \in DOMAIN t : k + 1 \in DOMAIN ring /\ t[k] = ring[k + 1]
    BY <2>2
  <2> HIDE DEF t
  <2>4. /\ DOMAIN Append(t, i) = 1..(Len(t) + 1) /\ Len(t) \in Nat
        /\ \A k \in DOMAIN t : Append(t, i)[k] = t[k]
        /\ Append(t, i)[Len(t) + 1] = i
        /\ \A k \in 1..(Len(t) + 1) : k \in DOMAIN t \/ k = Len(t) + 1
    BY <2>3
  <2>5. Len(t) + 1 \in DOMAIN Append(t, i)
    BY <2>4
  <2> QED BY <1>2, <2>1, <2>3, <2>4, <2>5 DEF Remembers
<1> QED BY <1>1, <1>2

\* An acknowledgement goes out for an identifier that the receiver of its data
\* frame has handed over.
LEMMA AckFrames ==
  ASSUME IInv, FrameInv, NEW n \in Nodes, radioBuf[n] \in PDU, _send_ack(n, radioBuf[n]),
         UNCHANGED <<txPDU, txQueue, usedIds>>, DeliveredStays,
         \A m \in Nodes, j \in Ids : Remembers(lastFramesIDs'[m], j) =>
           Remembers(lastFramesIDs[m], j) \/ j = radioBuf[n].id,
         \A g \in DataFrames : g.id = radioBuf[n].id => <<g.tx, g.id>> \in delivered'[g.rx]
  PROVE  FrameInv' /\ NoStrangers
<1>0. PICK i, a : i = radioBuf[n].id /\ a = AckPDU(n, radioBuf[n])
  OBVIOUS
<1>1. a \in PDU /\ a.isACK /\ a.id = i /\ i \in Ids
  BY <1>0 DEF AckPDU, PDU
<1>2. \A m \in Nodes : radioBuf'[m] = radioBuf[m] \/ radioBuf'[m] = a
  BY <1>0 DEF _send_ack, OnAir
<1>3. OwnFrames'
  BY DEF FrameInv, OwnFrames
<1>4. \A f \in DataFrames' : Copied(f)
  BY <1>1, <1>2 DEF DataFrames, Carries, Copied, SameFrame
<1>5. \A j \in Ids : Known(j)' => Known(j) \/ j = i
  BY <1>0, <1>1, <1>2 DEF Known
<1>6. i \in usedIds
  <2>1. CASE radioBuf[n].isACK
    <3>1. Known(i)
      BY <1>0, <2>1 DEF Known
    <3> QED BY <1>1, <3>1 DEF FrameInv, IdsDrawn
  <2>2. CASE ~radioBuf[n].isACK
    <3>1. radioBuf[n] \in DataFrames
      BY <2>2 DEF DataFrames, Carries
    <3> QED BY <1>0, <3>1 DEF FrameInv, IdsDrawn
  <2> QED BY <2>1, <2>2
<1>7. PICK J : J = {i}
  OBVIOUS
<1>8. /\ J \in SUBSET usedIds /\ \A j \in Ids : Known(j)' => Known(j) \/ j \in J
      /\ \A g \in DataFrames : g.id \in J => <<g.tx, g.id>> \in delivered'[g.rx]
  BY <1>0, <1>5, <1>6, <1>7
<1> QED BY <1>3, <1>4, <1>8, FramesKeep DEF NoStrangers

LEMMA SeenFrames ==
  ASSUME IInv, FrameInv, NEW n \in Nodes, SeenFrame(n)
  PROVE  FrameInv' /\ NoStrangers
<1>1. radioBuf[n] \in PDU /\ radioBuf[n].id \in Ids
  BY DEF IInv, BuffersLoaded, SeenFrame, Read, PDU
<1>2. Known(radioBuf[n].id)
  BY <1>1 DEF SeenFrame, Seen, Known
<1>3. \A g \in DataFrames : g.id = radioBuf[n].id => <<g.tx, g.id>> \in delivered[g.rx]
  BY <1>2 DEF FrameInv, KnownIsDelivered
<1> QED BY <1>1, <1>3, AckFrames DEF SeenFrame, fsmVars, upVars, envVars, DeliveredStays

\* The acknowledgement of a frame that is data, and that of one that is taken
\* for data because it is an acknowledgement nobody waits for.
LEMMA DataFrameFrames ==
  ASSUME IInv, FrameInv, NEW n \in Nodes, DataFrame(n)
  PROVE  FrameInv' /\ NoStrangers
<1>0. PICK f : f = radioBuf[n]
  OBVIOUS
<1>1. f \in PDU /\ f.id \in Ids /\ f.rx = n /\ f.tx \in Nodes
  BY <1>0 DEF IInv, BuffersLoaded, DataFrame, Read, PDU
<1>2. /\ delivered' = [delivered EXCEPT ![n] =
           IF f.isACK THEN delivered[n] ELSE delivered[n] \union {<<f.tx, f.id>>}]
      /\ lastFramesIDs' = [lastFramesIDs EXCEPT ![n] = Remember(lastFramesIDs[n], f.id)]
      /\ _send_ack(n, f) /\ UNCHANGED <<txPDU, txQueue, usedIds>>
  BY <1>0 DEF DataFrame, fsmVars, upVars, envVars
<1>3. DeliveredStays
  BY <1>2 DEF DeliveredStays, IInv, TypeOK, HistoryTypes
<1>4. \A m \in Nodes, j \in Ids : Remembers(lastFramesIDs'[m], j) =>
        Remembers(lastFramesIDs[m], j) \/ j = f.id
  <2>1. /\ \A m \in Nodes : lastFramesIDs'[m] = IF m = n THEN Remember(lastFramesIDs[n], f.id)
                                               ELSE lastFramesIDs[m]
        /\ lastFramesIDs[n] \in Seq(Ids)
    BY <1>2 DEF IInv, TypeOK, QueueTypes
  <2> QED BY <1>1, <2>1, RememberOne
<1>5. ASSUME NEW g \in DataFrames, g.id = f.id
      PROVE  <<g.tx, g.id>> \in delivered'[g.rx]
  <2>1. CASE f.isACK
    <3>1. Known(f.id)
      BY <1>0, <1>1, <2>1 DEF Known
    <3>2. <<g.tx, g.id>> \in delivered[g.rx] /\ g.rx \in Nodes
      BY <1>5, <3>1 DEF FrameInv, KnownIsDelivered, DataFrames, PDU
    <3> QED BY <1>3, <3>2 DEF DeliveredStays
  <2>2. CASE ~f.isACK
    <3>1. f \in DataFrames
      BY <1>0, <1>1, <2>2 DEF DataFrames, Carries
    <3>2. g.tx = f.tx /\ g.rx = n
      BY <1>1, <1>5, <3>1 DEF FrameInv, OneFramePerId
    <3>3. <<f.tx, f.id>> \in delivered'[n]
      BY <1>2, <2>2 DEF IInv, TypeOK, HistoryTypes
    <3> QED BY <1>5, <3>2, <3>3
  <2> QED BY <2>1, <2>2
<1> QED BY <1>0, <1>1, <1>2, <1>3, <1>4, <1>5, AckFrames

LEMMA FinishFrames ==
  ASSUME IInv, FrameInv, UniqueIds = TRUE, NEW n \in Nodes, NEW ok \in BOOLEAN, NEW rest,
         Finish(n, ok, rest), UNCHANGED airVars
  PROVE  FrameInv' /\ NoStrangers
<1>1. UNCHANGED <<txPDU, radioBuf, lastFramesIDs, delivered>>
  BY DEF Finish, airVars, upVars
<1>2. CASE \E rx \in Nodes, id \in Ids : Accept(n, rx, id)
  BY <1>1, <1>2, AcceptFrames
<1>3. CASE UNCHANGED <<txQueue, accepted, usedIds>>
  BY <1>1, <1>3, QuietFrames
<1> QED BY <1>2, <1>3 DEF Finish

LEMMA StepFrames ==
  ASSUME IInv, FrameInv, UniqueIds = TRUE, NEW n \in Nodes, NodeStep(n)
  PROVE  FrameInv' /\ NoStrangers
<1>1. CASE \E rx \in Nodes, id \in Ids : MAC_send(n, rx, id)
  BY <1>1, AcceptFrames DEF MAC_send, fsmVars, airVars, upVars
<1>2. CASE StartTransmission(n)
  <2>1. PICK p : p = Head(txQueue[n])
    OBVIOUS
  <2>2. txQueue[n] \in Seq(PDU) /\ txQueue[n] # <<>>
    BY <1>2 DEF StartTransmission, IInv, TypeOK, QueueTypes
  <2>3. p = txQueue[n][1] /\ 1 \in DOMAIN txQueue[n] /\ p \in PDU
    BY <2>1, <2>2
  <2>4. p \in DataFrames /\ p.tx = n
    BY <2>3 DEF FrameInv, OwnFrames, DataFrames, Carries
  <2>5. \A m \in Nodes : \A k \in DOMAIN txQueue'[m] :
          \E j \in DOMAIN txQueue[m] : txQueue'[m][k] = txQueue[m][j]
    <3>1. \A m \in Nodes : txQueue'[m] = IF m = n THEN Tail(txQueue[n]) ELSE txQueue[m]
      BY <1>2 DEF StartTransmission, IInv, TypeOK, QueueTypes
    <3>2. \A k \in DOMAIN Tail(txQueue[n]) :
            k + 1 \in DOMAIN txQueue[n] /\ Tail(txQueue[n])[k] = txQueue[n][k + 1]
      BY <2>2
    <3> QED BY <3>1, <3>2
  <2>6. Transmit(n, p, 0, timers[n]) /\ 0 \in 0..MaxRetries
    BY <1>2, <2>1 DEF StartTransmission
  <2> QED BY <2>4, <2>5, <2>6, TransmitFrames
<1>3. CASE ChannelTimeout(n) \/ AckTimeoutRetry(n)
  <2>1. txPDU[n] \in PDU /\ currentTxRetry[n] \in 0..MaxRetries
    BY <1>3 DEF ChannelTimeout, AckTimeoutRetry, IInv, TypeOK, FsmTypes, BuffersLoaded,
                RetryAccounting, IDLE_S, WAIT_ACK_S, WAIT_CHAN_FREE_S
  <2>2. txPDU[n] \in DataFrames /\ txPDU[n].tx = n
    BY <2>1 DEF FrameInv, OwnFrames, DataFrames, Carries
  <2>3. UNCHANGED txQueue /\ \E rest : Transmit(n, txPDU[n], currentTxRetry[n], rest)
    BY <1>3 DEF ChannelTimeout, AckTimeoutRetry
  <2> QED BY <2>1, <2>2, <2>3, TransmitFrames
<1>4. CASE AckTimeoutGiveUp(n) \/ AckFrame(n)
  BY <1>4, FinishFrames DEF AckTimeoutGiveUp, AckFrame
<1>5. CASE MAC_receive(n) \/ SpareTxEvent(n) \/ _checkReceived(n) \/ DropFrame(n)
  BY <1>5, QuietFrames DEF MAC_receive, SpareTxEvent, _checkReceived, DropFrame,
                           fsmVars, airVars, upVars, envVars
<1>6. CASE Restart(n)
  BY <1>6, QuietFrames DEF Restart, IInv, TypeOK, FsmTypes, QueueTypes, RadioTypes
<1> QED BY <1>1, <1>2, <1>3, <1>4, <1>5, <1>6, SeenFrames, DataFrameFrames DEF NodeStep

\* The acknowledgement that ends the wait is one of the frame in transmission.
LEMMA AckIsTrue ==
  ASSUME IInv, FrameInv, NEW n \in Nodes, AckFrame(n)
  PROVE  <<n, txPDU[n].id>> \in delivered[txPDU[n].rx]
<1>1. /\ fsmState[n] = WAIT_ACK_S /\ radioBuf[n] \in PDU /\ radioBuf[n].isACK
      /\ radioBuf[n].id = txPDU[n].id /\ txPDU[n] \in PDU
  BY DEF AckFrame, _is_ack_valid, IInv, BuffersLoaded, IDLE_S, WAIT_ACK_S
<1>2. Known(txPDU[n].id)
  BY <1>1 DEF Known
<1>3. txPDU[n] \in DataFrames /\ txPDU[n].tx = n
  BY <1>1 DEF FrameInv, OwnFrames, DataFrames, Carries
<1> QED BY <1>2, <1>3 DEF FrameInv, KnownIsDelivered

\* Only a frame taken for data, and a restart, change what was handed up.
LEMMA ReceptionEffect ==
  ASSUME NEW n \in Nodes, NodeStep(n), ~DataFrame(n), ~Restart(n)
  PROVE  UNCHANGED <<lastFramesIDs, delivered, handedUp>>
BY DEF NodeStep, MAC_send, MAC_receive, StartTransmission, SpareTxEvent, ChannelTimeout,
       AckTimeoutRetry, AckTimeoutGiveUp, _checkReceived, DropFrame, SeenFrame, AckFrame,
       Transmit, Finish, upVars

LEMMA StepTrue ==
  ASSUME IInv, FrameInv, NoFalseSuccess, NEW n \in Nodes, NodeStep(n)
  PROVE  NoFalseSuccess'
<1>1. DeliveredStays \/ Restart(n)
  <2>1. usedIds \subseteq usedIds'
    BY DEF NodeStep, MAC_send, MAC_receive, StartTransmission, SpareTxEvent, ChannelTimeout,
           AckTimeoutRetry, AckTimeoutGiveUp, _checkReceived, DropFrame, SeenFrame, AckFrame,
           DataFrame, Transmit, Finish, Accept, envVars, Restart
  <2>2. CASE UNCHANGED delivered
    BY <2>1, <2>2 DEF DeliveredStays
  <2>3. CASE DataFrame(n)
    <3>1. PICK new : delivered' = [delivered EXCEPT ![n] =
                IF radioBuf[n].isACK THEN delivered[n] ELSE delivered[n] \union new]
      BY <2>3 DEF DataFrame
    <3>2. \A m \in Nodes : delivered[m] \subseteq delivered'[m]
      BY <3>1 DEF IInv, TypeOK, HistoryTypes
    <3> QED BY <2>1, <3>2 DEF DeliveredStays
  <2> QED BY <2>2, <2>3, ReceptionEffect
<1>2. outcomes \in [Nodes -> Seq(Outcome)]
  BY DEF IInv, TypeOK, HistoryTypes
<1>3. ASSUME NEW ok \in BOOLEAN, NEW rest, Finish(n, ok, rest), fsmState[n] = WAIT_ACK_S,
             ok => <<n, txPDU[n].id>> \in delivered[txPDU[n].rx], DeliveredStays
      PROVE  NoFalseSuccess'
  <2>0. PICK o : o = [rx |-> txPDU[n].rx, id |-> txPDU[n].id, ok |-> ok]
    OBVIOUS
  <2>1. txPDU[n] \in PDU
    BY <1>3 DEF IInv, BuffersLoaded, IDLE_S, WAIT_ACK_S
  <2>2. /\ o \in Outcome /\ o.rx \in Nodes
        /\ o.ok => <<n, o.id>> \in delivered'[o.rx]
    <3>1. o.rx = txPDU[n].rx /\ o.id = txPDU[n].id /\ o.ok = ok
      BY <2>0
    <3>2. o \in Outcome /\ o.rx \in Nodes
      BY <2>0, <2>1 DEF PDU, Outcome
    <3> QED BY <1>3, <3>1, <3>2 DEF DeliveredStays
  <2>3. outcomes' = [outcomes EXCEPT ![n] = Append(outcomes[n], o)]
    BY <1>3, <2>0 DEF Finish
  <2>4. ASSUME NEW m \in Nodes, NEW i \in DOMAIN outcomes'[m], outcomes'[m][i].ok
        PROVE  <<m, outcomes'[m][i].id>> \in delivered'[outcomes'[m][i].rx]
    <3>1. CASE m = n /\ i = Len(outcomes[n]) + 1
      <4>1. outcomes'[n] = Append(outcomes[n], o) /\ outcomes[n] \in Seq(Outcome)
        BY <1>2, <2>3
      <4>2. outcomes'[m][i] = o
        BY <2>2, <3>1, <4>1
      <4> QED BY <2>2, <2>4, <3>1, <4>2
    <3>2. CASE ~(m = n /\ i = Len(outcomes[n]) + 1)
      <4>1. i \in DOMAIN outcomes[m] /\ outcomes'[m][i] = outcomes[m][i]
        <5>1. CASE m = n
          <6>1. outcomes'[n] = Append(outcomes[n], o) /\ outcomes[n] \in Seq(Outcome)
            BY <1>2, <2>3
          <6>2. i \in 1..(Len(outcomes[n]) + 1) /\ Len(outcomes[n]) \in Nat
            BY <2>2, <2>4, <5>1, <6>1
          <6> QED BY <2>2, <3>2, <5>1, <6>1, <6>2
        <5>2. CASE m # n
          BY <1>2, <2>3, <5>2
        <5> QED BY <5>1, <5>2
      <4>2. outcomes[m][i] \in Outcome
        BY <1>2, <4>1
      <4>3. outcomes[m][i].rx \in Nodes
        BY <4>2 DEF Outcome
      <4> QED BY <1>3, <2>4, <4>1, <4>3 DEF NoFalseSuccess, DeliveredStays
    <3> QED BY <3>1, <3>2
  <2> QED BY <2>4 DEF NoFalseSuccess
<1>4. CASE AckTimeoutGiveUp(n)
  <2>1. DeliveredStays
    BY <1>4 DEF AckTimeoutGiveUp, Finish, Accept, upVars, DeliveredStays
  <2> QED BY <1>3, <1>4, <2>1 DEF AckTimeoutGiveUp
<1>5. CASE AckFrame(n)
  <2>1. DeliveredStays
    BY <1>5 DEF AckFrame, Finish, Accept, upVars, DeliveredStays
  <2>2. fsmState[n] = WAIT_ACK_S /\ <<n, txPDU[n].id>> \in delivered[txPDU[n].rx]
    BY <1>5, AckIsTrue DEF AckFrame, _is_ack_valid
  <2> QED BY <1>3, <1>5, <2>1, <2>2 DEF AckFrame
<1>6. CASE Restart(n)
  <2>1. outcomes' = [outcomes EXCEPT ![n] = <<>>] /\ UNCHANGED delivered
    BY <1>6 DEF Restart
  <2>2. \A m \in Nodes : outcomes'[m] = IF m = n THEN <<>> ELSE outcomes[m]
    BY <1>2, <2>1
  <2>3. \A m \in Nodes : \A i \in DOMAIN outcomes'[m] :
          i \in DOMAIN outcomes[m] /\ outcomes'[m][i] = outcomes[m][i]
    BY <2>2
  <2> QED BY <2>1, <2>3 DEF NoFalseSuccess
<1>7. CASE UNCHANGED outcomes /\ ~Restart(n)
  <2>1. ASSUME NEW m \in Nodes, NEW i \in DOMAIN outcomes[m]
        PROVE  outcomes[m][i].rx \in Nodes
    <3>1. outcomes[m][i] \in Outcome
      BY <1>2
    <3> QED BY <3>1 DEF Outcome
  <2> QED BY <1>1, <1>7, <2>1 DEF NoFalseSuccess, DeliveredStays
<1>8. \/ AckTimeoutGiveUp(n) \/ AckFrame(n) \/ Restart(n) \/ UNCHANGED outcomes
  BY DEF NodeStep, MAC_send, MAC_receive, StartTransmission, SpareTxEvent, ChannelTimeout,
         AckTimeoutRetry, _checkReceived, DropFrame, SeenFrame, DataFrame, Transmit
<1> QED BY <1>4, <1>5, <1>6, <1>7, <1>8

LEMMA FrameInvariant ==
  ASSUME UniqueIds = TRUE
  PROVE  Spec => []FrameInv
<1>1. Init => FrameInv
  <2>1. ASSUME Init
        PROVE  \A n \in Nodes : /\ radioBuf[n] = NoPDU /\ txPDU[n] = NoPDU
                                /\ txQueue[n] = <<>> /\ lastFramesIDs[n] = <<>>
    BY <2>1, Zenon DEF Init
  <2>2. ASSUME \A n \in Nodes : /\ radioBuf[n] = NoPDU /\ txPDU[n] = NoPDU
                                /\ txQueue[n] = <<>> /\ lastFramesIDs[n] = <<>>
        PROVE  FrameInv
    <3>1. DataFrames = {} /\ OwnFrames
      BY <2>2 DEF DataFrames, Carries, OwnFrames
    <3>2. \A i : ~Known(i)
      BY <2>2 DEF Known, Remembers
    <3> QED BY <3>1, <3>2 DEF FrameInv, IdsDrawn, OneFramePerId, KnownIsDelivered
  <2> QED BY <2>1, <2>2
<1>2. IInv /\ FrameInv /\ [Next]_vars => FrameInv'
  <2>1. ASSUME FrameInv, UNCHANGED vars
        PROVE  FrameInv'
    BY <2>1, QuietFrames DEF vars, fsmVars, airVars, upVars, envVars
  <2> QED BY <2>1, StepFrames DEF Next
<1> QED BY <1>1, <1>2, MacInvariant, PTL DEF Spec

\* onSend is not called for a frame that its receiver has not handed to its
\* upper layer (mac.cpp:341-363, 402-409), as long as _getRandomID repeats no
\* identifier; whatever is lost, late, overheard or forgotten in a restart.
THEOREM SuccessIsTrue ==
  ASSUME UniqueIds = TRUE
  PROVE  Spec => []NoFalseSuccess
<1>1. Init => NoFalseSuccess
  BY DEF Init, NoFalseSuccess
<1>2. IInv /\ FrameInv /\ NoFalseSuccess /\ [Next]_vars => NoFalseSuccess'
  <2>1. ASSUME NoFalseSuccess, UNCHANGED vars
        PROVE  NoFalseSuccess'
    BY <2>1 DEF vars, upVars, NoFalseSuccess
  <2> QED BY <2>1, StepTrue DEF Next
<1> QED BY <1>1, <1>2, MacInvariant, FrameInvariant, PTL DEF Spec

---------------------------------------------------------------------------
(* What is handed up twice has RingSize other frames in between, and the   *)
(* layer implements module MacService.                                     *)

\* The ring is the end of what was handed up.
RingIsEnd(ring, log) ==
  /\ Len(ring) <= RingSize /\ Len(ring) <= Len(log)
  /\ Len(ring) = RingSize \/ Len(ring) = Len(log)
  /\ \A k \in 1..Len(ring) : ring[k] = log[Len(log) - Len(ring) + k]

FarApart(log) ==
  \A i, j \in DOMAIN log : i < j /\ j - i <= RingSize => log[i] # log[j]

RingInv ==
  \A n \in Nodes : RingIsEnd(lastFramesIDs[n], handedUp[n]) /\ FarApart(handedUp[n])

\* Whatever is among the last RingSize values is in the ring.
LEMMA RecentIsRemembered ==
  ASSUME NEW ring \in Seq(Ids), NEW log \in Seq(Ids), RingIsEnd(ring, log),
         NEW i \in DOMAIN log, i > Len(log) - RingSize
  PROVE  Remembers(ring, log[i])
<1>1. Len(ring) \in Nat /\ Len(log) \in Nat /\ RingSize \in Nat /\ i \in 1..Len(log)
  BY MacAssumption
<1>2. i > Len(log) - Len(ring)
  BY <1>1 DEF RingIsEnd
<1>3. PICK k \in Int : k = i - (Len(log) - Len(ring))
  BY <1>1
<1>4. k \in 1..Len(ring) /\ Len(log) - Len(ring) + k = i
  BY <1>1, <1>2, <1>3
<1>5. ring[k] = log[i] /\ k \in DOMAIN ring
  BY <1>1, <1>4 DEF RingIsEnd
<1> QED BY <1>5 DEF Remembers

\* And nothing is in the ring that was not handed up.
LEMMA RememberedWasHanded ==
  ASSUME NEW ring \in Seq(Ids), NEW log \in Seq(Ids), RingIsEnd(ring, log),
         NEW id \in Ids, Remembers(ring, id)
  PROVE  \E k \in DOMAIN log : log[k] = id
<1>1. PICK k \in DOMAIN ring : ring[k] = id
  BY DEF Remembers
<1>2. /\ k \in 1..Len(ring) /\ Len(ring) \in Nat /\ Len(log) \in Nat
      /\ DOMAIN log = 1..Len(log)
  OBVIOUS
<1>3. Len(log) - Len(ring) + k \in 1..Len(log)
  BY <1>2 DEF RingIsEnd
<1>4. log[Len(log) - Len(ring) + k] = id
  BY <1>1, <1>2 DEF RingIsEnd
<1> QED BY <1>2, <1>3, <1>4

\* Both take an identifier that is not in the ring.
LEMMA RememberNew ==
  ASSUME NEW ring \in Seq(Ids), NEW log \in Seq(Ids), RingIsEnd(ring, log), FarApart(log),
         NEW id \in Ids, ~Remembers(ring, id)
  PROVE  RingIsEnd(Remember(ring, id), Append(log, id)) /\ FarApart(Append(log, id))
<1> DEFINE new == Append(log, id)
<1>1. /\ Len(ring) \in Nat /\ Len(log) \in Nat /\ RingSize \in Nat \ {0}
      /\ DOMAIN log = 1..Len(log) /\ DOMAIN ring = 1..Len(ring)
  BY MacAssumption
<1>2. /\ Len(new) = Len(log) + 1 /\ DOMAIN new = 1..(Len(log) + 1)
      /\ \A k \in 1..Len(log) : new[k] = log[k]
      /\ new[Len(log) + 1] = id
  OBVIOUS
<1> HIDE DEF new
<1>2a. /\ Len(ring) <= RingSize /\ Len(ring) <= Len(log)
       /\ Len(ring) = RingSize \/ Len(ring) = Len(log)
  BY DEF RingIsEnd
<1>2b. \A k \in 1..Len(ring) : ring[k] = log[Len(log) - Len(ring) + k]
  BY DEF RingIsEnd
<1>2c. RingSize \in Nat /\ Len(ring) \in Nat /\ Len(log) \in Nat
  BY <1>1
<1>3. RingIsEnd(Remember(ring, id), new)
  <2>1. CASE Len(ring) < RingSize
    <3>0. Len(ring) = Len(log)
      BY <1>2a, <1>2c, <2>1
    <3>1. Remember(ring, id) = Append(ring, id) /\ Len(ring) = Len(log)
      BY <2>1, <3>0 DEF Remember
    <3>2. /\ Len(Append(ring, id)) = Len(log) + 1
          /\ \A k \in 1..Len(log) : Append(ring, id)[k] = ring[k]
          /\ Append(ring, id)[Len(log) + 1] = id
      BY <3>1
    <3>3. \A k \in 1..Len(log) : ring[k] = log[k]
      <4>1. \A k \in 1..Len(log) : Len(log) - Len(ring) + k = k
        BY <1>1, <3>0
      <4> QED BY <1>2b, <3>0, <4>1
    <3>4. \A k \in 1..(Len(log) + 1) : Append(ring, id)[k] = new[k]
      BY <1>1, <1>2, <3>2, <3>3
    <3>5. PICK s : s = Append(ring, id)
      OBVIOUS
    <3>6. /\ Len(s) = Len(new) /\ Len(new) = Len(ring) + 1
          /\ \A k \in 1..Len(s) : s[k] = new[k]
      BY <1>2, <3>1, <3>2, <3>4, <3>5
    <3>7. \A k \in 1..Len(s) : Len(new) - Len(s) + k = k
      BY <1>1, <3>6
    <3>8. RingIsEnd(s, new)
      <4>1. Len(s) <= RingSize
        BY <1>1, <2>1, <3>6
      <4>2. Len(s) <= Len(new)
        BY <1>1, <3>6
      <4> QED BY <3>6, <3>7, <4>1, <4>2 DEF RingIsEnd
    <3> QED BY <3>1, <3>5, <3>8
  <2>2. CASE ~(Len(ring) < RingSize)
    <3>0. Len(ring) = RingSize
      BY <1>2a, <1>2c, <2>2
    <3>1. Remember(ring, id) = Append(Tail(ring), id) /\ Len(ring) = RingSize
      BY <2>2, <3>0 DEF Remember
    <3>2. PICK t : t = Tail(ring)
      OBVIOUS
    <3>3. /\ t \in Seq(Ids) /\ Len(t) = RingSize - 1
          /\ \A k \in 1..(RingSize - 1) : t[k] = ring[k + 1]
      BY <1>1, <3>1, <3>2
    <3>4. PICK s : s = Append(t, id)
      OBVIOUS
    <3>5. /\ Len(s) = RingSize /\ s[RingSize] = id
          /\ \A k \in 1..(RingSize - 1) : s[k] = ring[k + 1]
      <4>1. /\ Len(s) = Len(t) + 1 /\ s[Len(t) + 1] = id
            /\ \A k \in 1..Len(t) : s[k] = t[k]
        BY <3>3, <3>4
      <4>2. Len(t) + 1 = RingSize
        BY <1>2c, <3>3
      <4> QED BY <3>3, <4>1, <4>2
    <3>6. \A k \in 1..RingSize : ring[k] = log[Len(log) - RingSize + k]
      BY <1>2b, <3>0
    <3>7. RingSize <= Len(log)
      BY <1>2a, <3>0
    <3>8. ASSUME NEW k \in 1..RingSize
          PROVE  s[k] = new[Len(new) - RingSize + k]
      <4>1. CASE k = RingSize
        BY <1>1, <1>2, <3>5, <4>1
      <4>2. CASE k # RingSize
        <5>1. k \in 1..(RingSize - 1) /\ k + 1 \in 1..RingSize
          BY <1>1, <4>2
        <5>2. s[k] = log[Len(log) - RingSize + (k + 1)]
          BY <3>5, <3>6, <5>1
        <5>3. /\ Len(log) - RingSize + (k + 1) \in 1..Len(log)
              /\ Len(log) - RingSize + (k + 1) = Len(new) - RingSize + k
          BY <1>1, <1>2, <3>7, <5>1
        <5> QED BY <1>2, <5>2, <5>3
      <4> QED BY <4>1, <4>2
    <3>9. RingIsEnd(s, new)
      <4>1. RingSize <= Len(new) /\ RingSize <= RingSize
        BY <1>2, <1>2c, <3>7
      <4>2. \A k \in 1..Len(s) : s[k] = new[Len(new) - Len(s) + k]
        BY <3>5, <3>8
      <4>3. Len(s) = RingSize
        BY <3>5
      <4> QED BY <4>1, <4>2, <4>3 DEF RingIsEnd
    <3> QED BY <3>1, <3>2, <3>4, <3>9
  <2> QED BY <2>1, <2>2
<1>4. FarApart(new)
  <2>1. ASSUME NEW i \in 1..(Len(log) + 1), NEW j \in 1..(Len(log) + 1),
               i < j, j - i <= RingSize
        PROVE  new[i] # new[j]
    <3>1. i \in 1..Len(log)
      BY <1>1, <2>1
    <3>2. CASE j = Len(log) + 1
      <4>1. i > Len(log) - RingSize
        BY <1>1, <2>1, <3>1, <3>2
      <4>2. Remembers(ring, log[i])
        BY <1>1, <3>1, <4>1, RecentIsRemembered
      <4> QED BY <1>2, <3>1, <3>2, <4>2
    <3>3. CASE j # Len(log) + 1
      <4>1. j \in 1..Len(log)
        BY <1>1, <3>3
      <4> QED BY <1>1, <1>2, <2>1, <3>1, <4>1 DEF FarApart
    <3> QED BY <3>2, <3>3
  <2> QED BY <1>2, <2>1 DEF FarApart
<1> QED BY <1>3, <1>4 DEF new

LEMMA NothingRemembered == RingIsEnd(<<>>, <<>>) /\ FarApart(<<>>)
BY MacAssumption DEF RingIsEnd, FarApart

LEMMA RingStep ==
  ASSUME IInv, RingInv, NEW n \in Nodes, DataFrame(n)
  PROVE  /\ RingInv'
         /\ \A k \in DOMAIN handedUp[n] :
              k > Len(handedUp[n]) - RingSize => handedUp[n][k] # radioBuf[n].id
<1>0. PICK id : id = radioBuf[n].id
  OBVIOUS
<1> DEFINE ring == lastFramesIDs[n]
           log == handedUp[n]
<1>1. id \in Ids /\ ~Remembers(ring, id)
  BY <1>0 DEF IInv, BuffersLoaded, DataFrame, Read, PDU, Seen
<1>2. ring \in Seq(Ids) /\ log \in Seq(Ids) /\ RingIsEnd(ring, log) /\ FarApart(log)
  BY DEF IInv, TypeOK, QueueTypes, HistoryTypes, RingInv
<1>3. /\ lastFramesIDs' = [lastFramesIDs EXCEPT ![n] = Remember(ring, id)]
      /\ handedUp' = [handedUp EXCEPT ![n] = Append(log, id)]
  BY <1>0 DEF DataFrame
<1>4. \A m \in Nodes :
        /\ lastFramesIDs'[m] = IF m = n THEN Remember(ring, id) ELSE lastFramesIDs[m]
        /\ handedUp'[m] = IF m = n THEN Append(log, id) ELSE handedUp[m]
  BY <1>3 DEF IInv, TypeOK, QueueTypes, HistoryTypes
<1> HIDE DEF ring, log
<1>5. RingIsEnd(Remember(ring, id), Append(log, id)) /\ FarApart(Append(log, id))
  BY <1>1, <1>2, RememberNew
<1>6. ASSUME NEW m \in Nodes
      PROVE  RingIsEnd(lastFramesIDs'[m], handedUp'[m]) /\ FarApart(handedUp'[m])
  BY <1>4, <1>5 DEF RingInv
<1>7. RingInv'
  BY <1>6 DEF RingInv, RingIsEnd, FarApart
<1>8. \A k \in DOMAIN log : k > Len(log) - RingSize => log[k] # id
  BY <1>1, <1>2, RecentIsRemembered
<1> QED BY <1>0, <1>7, <1>8 DEF log

LEMMA RingInvariant == Spec => []RingInv
<1>1. Init => RingInv
  <2>1. Init => \A n \in Nodes : lastFramesIDs[n] = <<>> /\ handedUp[n] = <<>>
    BY Zenon DEF Init
  <2> QED BY <2>1, NothingRemembered, Zenon DEF RingInv
<1>2. IInv /\ RingInv /\ [Next]_vars => RingInv'
  <2>1. ASSUME RingInv, UNCHANGED <<lastFramesIDs, handedUp>>
        PROVE  RingInv'
    BY <2>1 DEF RingInv
  <2>2. ASSUME IInv, RingInv, NEW n \in Nodes, Restart(n)
        PROVE  RingInv'
    <3>1. \A m \in Nodes : \/ lastFramesIDs'[m] = <<>> /\ handedUp'[m] = <<>>
                           \/ lastFramesIDs'[m] = lastFramesIDs[m] /\ handedUp'[m] = handedUp[m]
      BY <2>2 DEF Restart, IInv, TypeOK, QueueTypes, HistoryTypes
    <3>2. \A m \in Nodes : RingIsEnd(lastFramesIDs'[m], handedUp'[m]) /\ FarApart(handedUp'[m])
      BY <2>2, <3>1, NothingRemembered, Zenon DEF RingInv
    <3> QED BY <3>2 DEF RingInv, RingIsEnd, FarApart
  <2>3. ASSUME IInv, RingInv, NEW n \in Nodes, NodeStep(n)
        PROVE  RingInv'
    BY <2>1, <2>2, <2>3, RingStep, ReceptionEffect
  <2> QED BY <2>1, <2>3 DEF Next, vars, upVars
<1> QED BY <1>1, <1>2, MacInvariant, PTL DEF Spec

\* mac.cpp:298-324: a frame that is sent again, whatever became of its
\* acknowledgements, is not handed to the upper layer again before RingSize
\* other frames, for every size of the ring, with repeated identifiers and with
\* restarts, between which the ring is counted from empty.
THEOREM NoneRepeatedEarly == Spec => []NoEarlyRepeat
<1>1. RingInv => NoEarlyRepeat
  BY DEF RingInv, FarApart, NoEarlyRepeat
<1> QED BY <1>1, RingInvariant, PTL

---------------------------------------------------------------------------
(* The acknowledgements of frames that were handed up.                     *)

Has(m, id) == \E k \in DOMAIN handedUp[m] : handedUp[m][k] = id

AcksHanded ==
  \A m \in Nodes :
    radioBuf[m] \in PDU /\ radioBuf[m].isACK => Has(radioBuf[m].tx, radioBuf[m].id)

LEMMA StepAcks ==
  ASSUME IInv, FrameInv, RingInv, RingInv', AcksHanded, MaxRestarts = 0,
         NEW n \in Nodes, NodeStep(n)
  PROVE  AcksHanded'
<1>1. ~Restart(n)
  BY DEF Restart, IInv, TypeOK, HistoryTypes
<1>2. \A m \in Nodes, id \in Ids :
        Has(m, id) => \E k \in DOMAIN handedUp'[m] : handedUp'[m][k] = id
  <2>1. CASE UNCHANGED handedUp
    BY <2>1 DEF Has
  <2>2. CASE DataFrame(n)
    <3>1. /\ \A m \in Nodes \ {n} : handedUp'[m] = handedUp[m]
          /\ handedUp'[n] = Append(handedUp[n], radioBuf[n].id)
          /\ handedUp[n] \in Seq(Ids) /\ radioBuf[n].id \in Ids
      BY <2>2 DEF DataFrame, Read, IInv, TypeOK, HistoryTypes, BuffersLoaded, PDU
    <3>2. \A k \in DOMAIN handedUp[n] :
            k \in DOMAIN handedUp'[n] /\ handedUp'[n][k] = handedUp[n][k]
      BY <3>1
    <3> QED BY <3>1, <3>2 DEF Has
  <2> QED BY <1>1, <2>1, <2>2, ReceptionEffect
\* Frames on the air are data, the acknowledgement of what is read, or old.
<1>3. \A m \in Nodes :
        \/ radioBuf'[m] = radioBuf[m]
        \/ radioBuf'[m] \in PDU /\ ~radioBuf'[m].isACK
        \/ /\ SeenFrame(n) \/ DataFrame(n)
           /\ radioBuf'[m] = AckPDU(n, radioBuf[n])
  <2>1. CASE StartTransmission(n) \/ ChannelTimeout(n) \/ AckTimeoutRetry(n)
    <3>1. \E pdu, retry, rest :
            /\ Transmit(n, pdu, retry, rest)
            /\ ~pdu.isACK /\ pdu \in PDU /\ retry \in 0..MaxRetries
      <4>1. CASE StartTransmission(n)
        <5>1. Head(txQueue[n]) \in PDU /\ 1 \in DOMAIN txQueue[n] /\ Head(txQueue[n]) = txQueue[n][1]
          BY <4>1 DEF StartTransmission, IInv, TypeOK, QueueTypes
        <5>2. ~Head(txQueue[n]).isACK
          BY <5>1 DEF FrameInv, OwnFrames
        <5>3. 0 \in 0..MaxRetries
          BY MacAssumption
        <5> QED BY <4>1, <5>1, <5>2, <5>3 DEF StartTransmission
      <4>2. CASE ChannelTimeout(n) \/ AckTimeoutRetry(n)
        <5>1. txPDU[n] \in PDU /\ currentTxRetry[n] \in 0..MaxRetries
          BY <4>2, MacAssumption
             DEF ChannelTimeout, AckTimeoutRetry, IInv, BuffersLoaded, TypeOK, FsmTypes,
                 RetryAccounting, IDLE_S, WAIT_ACK_S, WAIT_CHAN_FREE_S
        <5>2. ~txPDU[n].isACK
          BY <5>1 DEF FrameInv, OwnFrames
        <5> QED BY <4>2, <5>1, <5>2 DEF ChannelTimeout, AckTimeoutRetry
      <4> QED BY <2>1, <4>1, <4>2
    <3>2. PICK pdu, retry, rest :
            /\ Transmit(n, pdu, retry, rest)
            /\ ~pdu.isACK /\ pdu \in PDU /\ retry \in 0..MaxRetries
      BY <3>1
    <3>3. PICK f : f = [pdu EXCEPT !.retry = retry]
      OBVIOUS
    <3>4. f \in PDU /\ ~f.isACK
      BY <3>2, <3>3 DEF PDU
    <3>5. \A m \in Nodes : radioBuf'[m] = radioBuf[m] \/ radioBuf'[m] = f
      BY <3>2, <3>3 DEF Transmit, _attempt_transmission, ChannelBusy, OnAir, airVars
    <3> QED BY <3>4, <3>5
  <2>2. CASE SeenFrame(n) \/ DataFrame(n)
    BY <2>2 DEF SeenFrame, DataFrame, _send_ack, OnAir
  <2>3. CASE UNCHANGED radioBuf
    BY <2>3
  <2>4. \/ StartTransmission(n) \/ ChannelTimeout(n) \/ AckTimeoutRetry(n)
        \/ SeenFrame(n) \/ DataFrame(n) \/ UNCHANGED radioBuf
    BY <1>1 DEF NodeStep, MAC_send, MAC_receive, SpareTxEvent, AckTimeoutGiveUp,
                _checkReceived, DropFrame, AckFrame, airVars
  <2> QED BY <2>1, <2>2, <2>3, <2>4
<1>4. ASSUME SeenFrame(n) \/ DataFrame(n)
      PROVE  /\ AckPDU(n, radioBuf[n]).tx = n /\ AckPDU(n, radioBuf[n]).id = radioBuf[n].id
             /\ \E k \in DOMAIN handedUp'[n] : handedUp'[n][k] = radioBuf[n].id
  <2>1. radioBuf[n] \in PDU /\ radioBuf[n].id \in Ids
    BY <1>4 DEF SeenFrame, DataFrame, Read, IInv, BuffersLoaded, PDU
  <2>2. CASE SeenFrame(n)
    <3>1. Remembers(lastFramesIDs[n], radioBuf[n].id)
      BY <2>2 DEF SeenFrame, Seen
    <3>2. /\ lastFramesIDs[n] \in Seq(Ids) /\ handedUp[n] \in Seq(Ids)
          /\ RingIsEnd(lastFramesIDs[n], handedUp[n])
      BY DEF RingInv, IInv, TypeOK, QueueTypes, HistoryTypes
    <3>3. Has(n, radioBuf[n].id)
      BY <2>1, <3>1, <3>2, RememberedWasHanded DEF Has
    <3>4. handedUp' = handedUp
      BY <2>2 DEF SeenFrame, upVars
    <3> QED BY <3>3, <3>4 DEF AckPDU, Has
  <2>3. CASE DataFrame(n)
    <3>1. /\ handedUp'[n] = Append(handedUp[n], radioBuf[n].id)
          /\ handedUp[n] \in Seq(Ids)
      BY <2>3 DEF DataFrame, IInv, TypeOK, HistoryTypes
    <3>2. /\ Len(handedUp[n]) + 1 \in DOMAIN handedUp'[n]
          /\ handedUp'[n][Len(handedUp[n]) + 1] = radioBuf[n].id
      BY <2>1, <3>1
    <3> QED BY <3>2 DEF AckPDU
  <2> QED BY <1>4, <2>2, <2>3
<1>5. ASSUME NEW m \in Nodes, radioBuf'[m] \in PDU, radioBuf'[m].isACK
      PROVE  \E k \in DOMAIN handedUp'[radioBuf'[m].tx] :
               handedUp'[radioBuf'[m].tx][k] = radioBuf'[m].id
  <2>1. CASE radioBuf'[m] = radioBuf[m]
    <3>1. radioBuf[m].tx \in Nodes /\ radioBuf[m].id \in Ids
      BY <1>5, <2>1 DEF PDU
    <3> QED BY <1>2, <1>5, <2>1, <3>1 DEF AcksHanded
  <2>2. CASE (SeenFrame(n) \/ DataFrame(n)) /\ radioBuf'[m] = AckPDU(n, radioBuf[n])
    BY <1>4, <2>2
  <2> QED BY <1>3, <1>5, <2>1, <2>2
<1> QED BY <1>5 DEF AcksHanded, Has

\* A data frame is one of those its sender has accepted, and still has in its
\* list.
FramesAccepted ==
  \A f \in DataFrames : \E k \in DOMAIN accepted[f.tx] : accepted[f.tx][k] = HandleOf(f)

AcceptedStays ==
  \A m \in Nodes : \A k \in DOMAIN accepted[m] :
    k \in DOMAIN accepted'[m] /\ accepted'[m][k] = accepted[m][k]

\* MAC_send appends.
LEMMA AcceptAppends ==
  ASSUME IInv, NEW n \in Nodes, NEW rx \in Nodes, NEW id \in Ids, Accept(n, rx, id)
  PROVE  /\ AcceptedStays
         /\ \E k \in DOMAIN accepted'[n] : accepted'[n][k] = [rx |-> rx, id |-> id]
<1>0. PICK h : h = [rx |-> rx, id |-> id]
  OBVIOUS
<1>1. h \in Handle
  BY <1>0 DEF Handle
<1>2. /\ accepted' = [accepted EXCEPT ![n] = Append(accepted[n], h)]
      /\ accepted \in [Nodes -> Seq(Handle)]
  BY <1>0 DEF Accept, IInv, TypeOK, HistoryTypes
<1>3. /\ accepted'[n] = Append(accepted[n], h) /\ accepted[n] \in Seq(Handle)
      /\ \A m \in Nodes \ {n} : accepted'[m] = accepted[m]
  BY <1>2
<1>4. /\ \A k \in DOMAIN accepted[n] :
           k \in DOMAIN accepted'[n] /\ accepted'[n][k] = accepted[n][k]
      /\ Len(accepted[n]) + 1 \in DOMAIN accepted'[n]
      /\ accepted'[n][Len(accepted[n]) + 1] = h
  BY <1>1, <1>3
<1>5. AcceptedStays
  BY <1>3, <1>4 DEF AcceptedStays
<1> QED BY <1>0, <1>4, <1>5

LEMMA StepAccepted ==
  ASSUME IInv, FrameInv, UniqueIds = TRUE, MaxRestarts = 0, FramesAccepted,
         NEW n \in Nodes, NodeStep(n)
  PROVE  FramesAccepted'
<1>1. ~Restart(n)
  BY DEF Restart, IInv, TypeOK, HistoryTypes
<1>2. AcceptedStays
  <2>1. CASE UNCHANGED accepted
    BY <2>1 DEF AcceptedStays
  <2>2. CASE \E rx \in Nodes, id \in Ids : Accept(n, rx, id)
    BY <2>2, AcceptAppends
  <2>3. UNCHANGED accepted \/ \E rx \in Nodes, id \in Ids : Accept(n, rx, id)
    BY <1>1 DEF NodeStep, MAC_send, MAC_receive, StartTransmission, SpareTxEvent,
         ChannelTimeout, AckTimeoutRetry, AckTimeoutGiveUp, _checkReceived, DropFrame,
         SeenFrame, AckFrame, DataFrame, Transmit, Finish
  <2> QED BY <2>1, <2>2, <2>3
<1>3. NoStrangers
  BY StepFrames
<1>4. ASSUME NEW f \in DataFrames'
      PROVE  \E k \in DOMAIN accepted'[f.tx] : accepted'[f.tx][k] = HandleOf(f)
  <2>1. CASE Copied(f)
    <3>1. PICK g \in DataFrames : SameFrame(f, g)
      BY <2>1 DEF Copied
    <3>2. PICK k \in DOMAIN accepted[g.tx] : accepted[g.tx][k] = HandleOf(g)
      BY <3>1 DEF FramesAccepted
    <3>3. g.tx \in Nodes /\ f.tx = g.tx /\ HandleOf(f) = HandleOf(g)
      BY <3>1 DEF DataFrames, PDU, SameFrame, HandleOf
    <3> QED BY <1>2, <3>2, <3>3 DEF AcceptedStays
  <2>2. CASE Taken(f)
    <3>1. PICK m, rx \in Nodes, id \in Ids : Accept(m, rx, id) /\ f = DataPDU(m, rx, id)
      BY <2>2 DEF Taken
    <3>2. f.tx = m /\ HandleOf(f) = [rx |-> rx, id |-> id]
      BY <3>1 DEF DataPDU, HandleOf
    <3>3. \E k \in DOMAIN accepted'[m] : accepted'[m][k] = [rx |-> rx, id |-> id]
      BY <3>1, AcceptAppends
    <3> QED BY <3>2, <3>3
  <2> QED BY <1>3, <2>1, <2>2 DEF NoStrangers
<1> QED BY <1>4 DEF FramesAccepted

\* The result reported is that of the oldest frame without one.
LEMMA FinishSettles ==
  ASSUME IInv, OneOutcomeInOrder, NEW n \in Nodes, NEW ok \in BOOLEAN, NEW rest,
         Finish(n, ok, rest), fsmState[n] = WAIT_ACK_S,
         ok => <<n, txPDU[n].id>> \in delivered[txPDU[n].rx]
  PROVE  Service!Settle(n, ok)
<1>0. PICK h, s, q : h = HandleOf(txPDU[n]) /\ s = Handles(outcomes[n]) /\ q = Handles(txQueue[n])
  OBVIOUS
<1>1. /\ h \in Handle /\ InFlight(n) = <<h>> /\ txPDU[n] \in PDU
      /\ s \in Seq(Handle) /\ q \in Seq(Handle) /\ Len(s) = Len(outcomes[n])
  <2>1. fsmState[n] # IDLE_S /\ txPDU[n] \in PDU
    BY DEF IInv, BuffersLoaded, IDLE_S, WAIT_ACK_S
  <2>2. outcomes[n] \in Seq(Outcome)
    BY PartsType
  <2> QED BY <1>0, <2>1, <2>2, PartsType, PDUHandles, HandlesSeq DEF InFlight
<1>2. accepted[n] = (s \o <<h>>) \o q
  BY <1>0, <1>1 DEF OneOutcomeInOrder
<1>3. Len(s) + 1 \in 1..Len(accepted[n]) /\ accepted[n][Len(s) + 1] = h /\ Len(s) \in Nat
  <2>1. <<h>> \in Seq(Handle) /\ Len(<<h>>) = 1 /\ <<h>>[1] = h
    BY <1>1
  <2>2. /\ (s \o <<h>>) \in Seq(Handle) /\ Len(s \o <<h>>) = Len(s) + 1
        /\ (s \o <<h>>)[Len(s) + 1] = h /\ Len(s) \in Nat
    BY <1>1, <2>1
  <2>3. PICK t : t = s \o <<h>>
    OBVIOUS
  <2>4. Len(t \o q) = Len(t) + Len(q) /\ \A k \in 1..Len(t) : (t \o q)[k] = t[k]
    BY <1>1, <2>2, <2>3, ConcatProperties
  <2>5. Len(t) = Len(s) + 1 /\ t[Len(s) + 1] = h /\ Len(q) \in Nat /\ Len(s) \in Nat
    BY <1>1, <2>2, <2>3
  <2> QED BY <1>2, <2>3, <2>4, <2>5
<1>4. Service!Unsettled(n)
  BY <1>1, <1>3 DEF Service!Unsettled
<1>5. Service!NextToSettle(n) = h
  BY <1>1, <1>3 DEF Service!NextToSettle
<1>6. h.rx = txPDU[n].rx /\ h.id = txPDU[n].id
  BY <1>0 DEF HandleOf
<1>7. outcomes' = [outcomes EXCEPT ![n] = Append(@, [rx |-> h.rx, id |-> h.id, ok |-> ok])]
  BY <1>6 DEF Finish
<1>8. UNCHANGED accepted \/ \E f \in Service!Frames : Service!Accept(n, f)
  <2>1. ASSUME NEW rx \in Nodes, NEW id \in Ids, Accept(n, rx, id)
        PROVE  \E f \in Service!Frames : Service!Accept(n, f)
    <3>1. [rx |-> rx, id |-> id] \in Service!Frames
      BY DEF Service!Frames
    <3>2. Service!Accept(n, [rx |-> rx, id |-> id])
      BY <2>1 DEF Accept, Service!Accept
    <3> QED BY <3>1, <3>2
  <2> QED BY <2>1 DEF Finish
<1> QED BY <1>4, <1>5, <1>6, <1>7, <1>8 DEF Service!Settle, Finish, upVars

\* A frame taken for data is delivered, or echoes one that was.
LEMMA DataDelivers ==
  ASSUME IInv, FramesAccepted, AcksHanded, NEW n \in Nodes, DataFrame(n),
         \A k \in DOMAIN handedUp[n] :
           k > Len(handedUp[n]) - RingSize => handedUp[n][k] # radioBuf[n].id
  PROVE  Service!Next
<1>0. PICK f, h : f = radioBuf[n] /\ h = HandleOf(f)
  OBVIOUS
<1>1. f \in PDU /\ f.rx = n /\ f.tx \in Nodes /\ f.id \in Ids
  BY <1>0 DEF IInv, BuffersLoaded, DataFrame, Read, PDU
<1>2. h \in Service!Frames /\ h.rx = n /\ h.id = f.id
  BY <1>0, <1>1 DEF PDU, HandleOf, Service!Frames
<1>3. UNCHANGED <<accepted, outcomes>>
  BY DEF DataFrame
<1>4. ~Service!Recent(n, f.id)
  BY <1>0 DEF Service!Recent
<1>5. handedUp' = [handedUp EXCEPT ![n] = Append(@, f.id)]
  BY <1>0 DEF DataFrame
<1>6. Service!HandUp(n, f.id)
  BY <1>4, <1>5 DEF Service!HandUp
<1>7. CASE f.isACK
  <2>1. delivered' = [delivered EXCEPT ![n] = delivered[n]]
    BY <1>0, <1>7 DEF DataFrame
  <2>2. UNCHANGED delivered
    BY <2>1 DEF IInv, TypeOK, HistoryTypes
  <2>3. Service!Has(f.tx, f.id)
    BY <1>0, <1>1, <1>7 DEF AcksHanded, Has, Service!Has
  <2>4. Service!Echo(n, f.tx, f.id)
    BY <1>3, <1>6, <2>2, <2>3 DEF Service!Echo
  <2> QED BY <1>1, <2>4 DEF Service!Next
<1>8. CASE ~f.isACK
  <2>1. delivered' = [delivered EXCEPT ![n] = @ \union {<<f.tx, f.id>>}]
    BY <1>0, <1>8 DEF DataFrame
  <2>2. f \in DataFrames
    BY <1>0, <1>1, <1>8 DEF DataFrames, Carries
  <2>3. \E k \in DOMAIN accepted[f.tx] : accepted[f.tx][k] = h
    BY <1>0, <2>2 DEF FramesAccepted
  <2>4. Service!Deliver(f.tx, h)
    BY <1>2, <1>3, <1>6, <2>1, <2>3 DEF Service!Deliver
  <2> QED BY <1>1, <1>2, <2>4 DEF Service!Next
<1> QED BY <1>7, <1>8

LEMMA StepServes ==
  ASSUME UniqueIds = TRUE, MaxRestarts = 0,
         IInv, OneOutcomeInOrder, FrameInv, RingInv, FramesAccepted, AcksHanded,
         NEW n \in Nodes, NodeStep(n)
  PROVE  Service!Next \/ UNCHANGED Service!vars
<1>1. ~Restart(n)
  BY DEF Restart, IInv, TypeOK, HistoryTypes
<1>2. CASE \E rx \in Nodes, id \in Ids : MAC_send(n, rx, id)
  <2>1. PICK rx \in Nodes, id \in Ids : MAC_send(n, rx, id)
    BY <1>2
  <2>2. PICK f : f = [rx |-> rx, id |-> id]
    OBVIOUS
  <2>3. f \in Service!Frames /\ Service!Accept(n, f)
        /\ UNCHANGED <<outcomes, delivered, handedUp>>
    BY <2>1, <2>2 DEF Service!Frames, Service!Accept, MAC_send, Accept, upVars
  <2> QED BY <2>3 DEF Service!Next
<1>3. CASE AckTimeoutGiveUp(n)
  <2>1. Finish(n, FALSE, timers[n] \ {TOUT_ACK_E}) /\ fsmState[n] = WAIT_ACK_S
        /\ FALSE \in BOOLEAN
    BY <1>3 DEF AckTimeoutGiveUp
  <2>2. Service!Settle(n, FALSE)
    BY <2>1, FinishSettles
  <2> QED BY <2>2 DEF Service!Next
<1>4. CASE AckFrame(n)
  <2>1. Finish(n, TRUE, timers[n] \ {TOUT_ACK_E}) /\ fsmState[n] = WAIT_ACK_S
        /\ TRUE \in BOOLEAN
    BY <1>4 DEF AckFrame, _is_ack_valid
  <2>2. <<n, txPDU[n].id>> \in delivered[txPDU[n].rx]
    BY <1>4, AckIsTrue
  <2>3. Service!Settle(n, TRUE)
    BY <2>1, <2>2, FinishSettles
  <2> QED BY <2>3 DEF Service!Next
<1>5. CASE DataFrame(n)
  BY <1>5, RingStep, DataDelivers
<1>6. CASE \/ MAC_receive(n) \/ StartTransmission(n) \/ SpareTxEvent(n) \/ ChannelTimeout(n)
           \/ AckTimeoutRetry(n) \/ _checkReceived(n) \/ DropFrame(n) \/ SeenFrame(n)
  BY <1>6 DEF MAC_receive, StartTransmission, SpareTxEvent, ChannelTimeout, AckTimeoutRetry,
              _checkReceived, DropFrame, SeenFrame, Transmit, upVars, Service!vars
<1> QED BY <1>1, <1>2, <1>3, <1>4, <1>5, <1>6 DEF NodeStep

\* The layer promises its upper layer what MacService says, whatever the size
\* of the ring, while no identifier is drawn twice and no node restarts.
THEOREM ServiceImplemented ==
  ASSUME UniqueIds = TRUE, MaxRestarts = 0
  PROVE  Spec => ImplementsService
<1>1. Init => Service!Init /\ FramesAccepted /\ AcksHanded
  <2>1. Init => Service!Init
    BY DEF Init, Service!Init
  <2>2. Init => \A n \in Nodes : radioBuf[n] = NoPDU /\ txPDU[n] = NoPDU /\ txQueue[n] = <<>>
    BY Zenon DEF Init
  <2>3. ASSUME \A n \in Nodes : radioBuf[n] = NoPDU /\ txPDU[n] = NoPDU /\ txQueue[n] = <<>>
        PROVE  FramesAccepted
    BY <2>3 DEF DataFrames, Carries, FramesAccepted
  <2>4. ASSUME \A n \in Nodes : radioBuf[n] = NoPDU
        PROVE  AcksHanded
    BY <2>4 DEF AcksHanded
  <2> QED BY <2>1, <2>2, <2>3, <2>4
<1>1a. IInv /\ FrameInv /\ RingInv /\ RingInv' /\ AcksHanded /\ [Next]_vars => AcksHanded'
  <2>1. ASSUME AcksHanded, UNCHANGED vars
        PROVE  AcksHanded'
    BY <2>1 DEF vars, airVars, upVars, AcksHanded, Has
  <2> QED BY <2>1, StepAcks DEF Next
<1>2. IInv /\ FrameInv /\ FramesAccepted /\ [Next]_vars => FramesAccepted'
  <2>1. ASSUME FramesAccepted, UNCHANGED vars
        PROVE  FramesAccepted'
    BY <2>1 DEF vars, fsmVars, airVars, FramesAccepted, DataFrames, Carries
  <2> QED BY <2>1, StepAccepted DEF Next
<1>3. IInv /\ OneOutcomeInOrder /\ FrameInv /\ RingInv /\ FramesAccepted /\ AcksHanded
      /\ [Next]_vars
        => [Service!Next]_(Service!vars)
  <2>1. UNCHANGED vars => UNCHANGED Service!vars
    BY DEF vars, upVars, Service!vars
  <2> QED BY <2>1, StepServes DEF Next
<1> QED BY <1>1, <1>1a, <1>2, <1>3, MacInvariant, OutcomesInOrder, FrameInvariant, RingInvariant, PTL
        DEF Spec, ImplementsService, Service!Spec

=============================================================================
