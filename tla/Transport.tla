----------------------------- MODULE Transport -----------------------------
(***************************************************************************)
(* The transport layer: segments with or without end-to-end                *)
(* acknowledgement, retransmitted on timeouts that double, filtered by     *)
(* identifier, with the results notified to the application of a port      *)
(* (src/firmware/src/transport.cpp).                                       *)
(*                                                                         *)
(* Below it the routing layer is what it makes of the two layers under it: *)
(* frames that the medium access layer settles one by one, in order, each  *)
(* reaching the network at most once (module Mac), and LoRaWAN uplinks     *)
(* whose result is an event of its own. A gateway uplinks what its table   *)
(* sends to NODE_ADDRESS_GATEWAY, whatever the destination; the server may *)
(* send on what is for a node. The network loses, delays and reorders      *)
(* packets. Callbacks are the last thing every handler does, so what an    *)
(* application does in one is a step after it.                             *)
(***************************************************************************)
EXTENDS Integers, Sequences, FiniteSets

CONSTANTS
  Nodes,          \* the devices that run the firmware
  Gateway,        \* NODE_ADDRESS_GATEWAY, reached through LoRaWAN
  WanNodes,       \* the devices that are gateways for the others (is_gateway)
  Uplinks,        \* <<n, rx>>: the next hop of gateway n to rx is
                  \* NODE_ADDRESS_GATEWAY; these routes do not change
  IDs,            \* segment identifiers: what random draws, never twice
  Ports,          \* applications
  MaxRetries,     \* TRANSPORT_MAX_RETRIES
  RingSize,       \* TRANSPORT_QUEUE_SIZE
  RoutesMayMiss,  \* TRUE: routes may be removed, so Routing_send may fail
  Senders,        \* bound: the nodes whose applications send
  MaxOutstanding, \* bound: segments of a node waiting for their result
  MaxRelays,      \* bound: uplink results not notified when a packet is relayed
                  \* or a call fails
  MaxUplinks,     \* bound: uplinks of a packet before its time to live ends
  MaxHandedUp,    \* bound: segments a node hands to its applications
  MaxFrames       \* bound: frame identifiers in use at a node

ASSUME TransportAssumption ==
  /\ Gateway \notin Nodes /\ WanNodes \subseteq Nodes /\ Senders \subseteq Nodes
  /\ Uplinks \subseteq WanNodes \X (Nodes \union {Gateway})
  /\ MaxRetries \in Nat /\ RingSize \in Nat \ {0}
  /\ RoutesMayMiss \in BOOLEAN
  /\ MaxOutstanding \in Nat /\ MaxRelays \in Nat /\ MaxUplinks \in Nat
  /\ MaxHandedUp \in Nat /\ MaxFrames \in Nat

NoID == "NoID"  \* of a segment no queue holds

Off     == "Off"      \* ackTimeout = -1 and not isSent
Running == "Running"  \* isSent, and the instant ackTimeout is still to come
Expired == "Expired"  \* isSent, and that instant is past

PDU == [ID : IDs, port : Ports, ACKRequest : BOOLEAN, ACKResponse : BOOLEAN]

\* ackTask: the timeout task that was armed for the try-th copy of a segment.
\* NoTask: the pointer scheduler_once has never been assigned to.
TaskKey == [ID : IDs, try : Nat \ {0}]
NoTask == [ID |-> NoID, try |-> 0]

Metadata == [pdu : PDU, id : 0..MaxFrames, rx : Nodes \union {Gateway},
             ackTimeout : {Off, Running, Expired}, retries : Nat,
             ackTask : TaskKey \union {NoTask}]

VARIABLES
  txQueue,    \* metadata of the segments without result, oldest first
  lastIds,    \* the identifiers received last, oldest first
  tasks,      \* existing timeout tasks: <<key, enabled>>
  pending,    \* frames the medium access layer has not settled, oldest first
  wanEvents,  \* results of LoRaWAN uplinks scheduled to be notified
  net,        \* packets on their way to their destination
  notes,      \* history: results notified to applications
  delivered,  \* history: <<sender, ID>> handed to applications
  handedUp,   \* history: the identifiers handed to applications, oldest first
  usedIDs     \* history: <<sender, pdu, rx>> accepted by Transport_send

lowerVars == <<pending, wanEvents>>
upVars    == <<delivered, handedUp>>
histVars  == <<notes, upVars, usedIDs>>
vars == <<txQueue, lastIds, tasks, lowerVars, net, histVars>>

---------------------------------------------------------------------------
Indices(n, P(_)) == {i \in DOMAIN txQueue[n] : P(txQueue[n][i])}

First(S) == CHOOSE i \in S : \A j \in S : i <= j

Without(s, i) == SubSeq(s, 1, i - 1) \o SubSeq(s, i + 1, Len(s))

Remember(ring, id) ==
  IF Len(ring) < RingSize THEN Append(ring, id) ELSE Append(Tail(ring), id)

\* Mutant: the search stops before the newest identifier.
RemembersOlder(ring, id) == \E i \in DOMAIN ring : i < Len(ring) /\ ring[i] = id

Remembers(ring, id) == \E i \in DOMAIN ring : ring[i] = id

Segment(ID, port, ack) ==
  [ID |-> ID, port |-> port, ACKRequest |-> ack, ACKResponse |-> FALSE]

_buildAck(pdu) == [pdu EXCEPT !.ACKRequest = FALSE, !.ACKResponse = TRUE]

---------------------------------------------------------------------------
(* Routing_send: what it returns, and what it sets off. *)

\* An identifier the medium access layer has not given to a live frame.
FreeFrameIds(n) ==
  (1..MaxFrames) \ ({txQueue[n][i].id : i \in DOMAIN txQueue[n]}
                    \union {pending[n][i].id : i \in DOMAIN pending[n]}
                    \union {p.id : p \in {q \in net : q.tx = n}})

MacFrame(id, rx, pdu) == [id |-> id, rx |-> rx, pdu |-> pdu, sent |-> FALSE]

Uplink(n, rx) == <<n, rx>> \in Uplinks

\* _sendThroughLoRaWAN: the result is known at once and notified later, with
\* the identifier 0 for every packet. ID is whose result it is.
Result(ID, ok) == [ID |-> ID, ok |-> ok]

_sendThroughLoRaWAN(n, results) ==
  wanEvents' = [wanEvents EXCEPT ![n] = @ \o results]

\* What is uplinked for a node, for the ups-th time, may come down again and
\* travel on; Lose is the server that keeps it.
ThroughServer(tx, rx, pdu, ups) ==
  {[tx |-> tx, rx |-> m, id |-> 0, pdu |-> pdu, ups |-> ups] : m \in Nodes \intersect {rx}}

Routing_send(n, rx, pdu, id) ==
  \/ /\ ~Uplink(n, rx)
     /\ FreeFrameIds(n) # {} /\ id = First(FreeFrameIds(n))
     /\ pending' = [pending EXCEPT ![n] = Append(@, MacFrame(id, rx, pdu))]
     /\ UNCHANGED <<wanEvents, net>>
  \/ /\ Uplink(n, rx) /\ id = 0
     /\ _sendThroughLoRaWAN(n, <<Result(pdu.ID, TRUE)>>)
     /\ net' = net \union ThroughServer(n, rx, pdu, 1)
     /\ UNCHANGED pending

\* No route; or an uplink that failed, which is notified as well.
Routing_sendFails(n, rx, ID) ==
  \/ RoutesMayMiss /\ UNCHANGED <<lowerVars, net>>
  \/ /\ Uplink(n, rx) /\ _sendThroughLoRaWAN(n, <<Result(ID, FALSE)>>)
     /\ UNCHANGED <<pending, net>>

---------------------------------------------------------------------------
(* The pieces the handlers share. *)

\* _segmentSent and _segmentSentError.
Notify(n, ID, port, ok) ==
  notes' = [notes EXCEPT ![n] = Append(@, [ID |-> ID, port |-> port, ok |-> ok])]

\* `meta' is a reference into the vector: once its element is erased it names
\* the element that took its place or, at the end, the bytes left there.
PortAfterErase(n, i) ==
  IF i < Len(txQueue[n]) THEN txQueue[n][i + 1].pdu.port ELSE txQueue[n][i].pdu.port

\* Mutant: the entry of a segment without acknowledgement stays.
NotifyOnly(n, i, ok) ==
  /\ Notify(n, txQueue[n][i].pdu.ID, PortAfterErase(n, i), ok)
  /\ UNCHANGED <<txQueue, tasks>>

\* Mutant: a failure is not told to the application.
EraseQuietly(n, i, ok) ==
  /\ txQueue' = [txQueue EXCEPT ![n] = Without(@, i)]
  /\ IF ok THEN Notify(n, txQueue[n][i].pdu.ID, PortAfterErase(n, i), ok)
           ELSE UNCHANGED notes
  /\ UNCHANGED tasks

EraseAndNotify(n, i, ok) ==
  /\ txQueue' = [txQueue EXCEPT ![n] = Without(@, i)]
  /\ Notify(n, txQueue[n][i].pdu.ID, PortAfterErase(n, i), ok)
  /\ UNCHANGED tasks

StartTimeout(n, i) ==
  LET meta == txQueue[n][i]
      key  == [ID |-> meta.pdu.ID, try |-> meta.retries + 1]
  IN  /\ txQueue' = [txQueue EXCEPT ![n][i] =
                       [meta EXCEPT !.ackTimeout = Running, !.retries = @ + 1,
                                    !.ackTask = key]]
      /\ tasks' = [tasks EXCEPT ![n] = @ \union {<<key, TRUE>>}]
      /\ UNCHANGED notes

Disable(n, key) ==
  tasks' = [tasks EXCEPT ![n] =
              {<<t[1], t[2] /\ t[1] # key>> : t \in tasks[n]}]

\* The pointer names a task that has not been deleted.
TaskExists(n, key) == \E t \in tasks[n] : t[1] = key

\* Through any other pointer the call writes to memory that is no task's, or
\* is another task's by now.
scheduler_stop(n, key) ==
  \/ TaskExists(n, key) /\ Disable(n, key)
  \/ ~TaskExists(n, key) /\ (UNCHANGED tasks \/ \E t \in tasks[n] : Disable(n, t[1]))

---------------------------------------------------------------------------
(* Calls of the applications. *)

Transport_send(n, rx, port, ack, ID) ==
  /\ n \in Senders /\ rx # n /\ (rx = Gateway => WanNodes # {})
  /\ Len(txQueue[n]) < MaxOutstanding
  /\ ID \notin {u[2].ID : u \in usedIDs}
  /\ LET pdu == Segment(ID, port, ack) IN
     \E id \in 0..MaxFrames :
       /\ Routing_send(n, rx, pdu, id)
       /\ txQueue' = [txQueue EXCEPT ![n] =
            Append(@, [pdu |-> pdu, id |-> id, rx |-> rx, ackTimeout |-> Off,
                       retries |-> 0, ackTask |-> NoTask])]
       /\ usedIDs' = usedIDs \union {<<n, pdu, rx>>}
  /\ UNCHANGED <<lastIds, tasks, notes, upVars>>

\* The call returns TRANSPORT_ERR.
Transport_sendFails(n, rx) ==
  /\ n \in Senders /\ rx # n /\ (rx = Gateway => WanNodes # {})
  /\ Len(txQueue[n]) < MaxOutstanding /\ Len(wanEvents[n]) < MaxRelays
  /\ Routing_sendFails(n, rx, NoID)
  /\ UNCHANGED <<txQueue, lastIds, tasks, histVars>>

---------------------------------------------------------------------------
(* Results from the routing layer. *)

_onRoutingSent(n, id) ==
  LET I == Indices(n, LAMBDA m : m.id = id)  i == First(I) IN
  \/ I = {} /\ UNCHANGED <<txQueue, tasks, notes>>
  \/ I # {} /\ ~txQueue[n][i].pdu.ACKRequest /\ EraseAndNotify(n, i, TRUE)
  \/ I # {} /\ txQueue[n][i].pdu.ACKRequest /\ StartTimeout(n, i)

\* Mutant: a reliable segment whose frame failed starts no timeout.
TxErrorWaitsForever(n, id) ==
  LET I == Indices(n, LAMBDA m : m.id = id)  i == First(I)
      final == ~txQueue[n][i].pdu.ACKRequest \/ txQueue[n][i].retries >= MaxRetries
  IN
  \/ I = {} /\ UNCHANGED <<txQueue, tasks, notes>>
  \/ I # {} /\ ~final /\ UNCHANGED <<txQueue, tasks, notes>>
  \/ I # {} /\ final /\ EraseAndNotify(n, i, FALSE)

_onRoutingTxError(n, id) ==
  LET I == Indices(n, LAMBDA m : m.id = id)  i == First(I)
      final == ~txQueue[n][i].pdu.ACKRequest \/ txQueue[n][i].retries >= MaxRetries
  IN
  \/ I = {} /\ UNCHANGED <<txQueue, tasks, notes>>
  \/ I # {} /\ final /\ EraseAndNotify(n, i, FALSE)
  \/ I # {} /\ ~final /\ StartTimeout(n, i)

\* The oldest frame reaches its next hop, and the packet goes its way.
FrameSent(n) ==
  /\ pending[n] # <<>> /\ ~Head(pending[n]).sent
  /\ LET f == Head(pending[n]) IN
     /\ pending' = [pending EXCEPT ![n][1].sent = TRUE]
     /\ net' = net \union
          {[tx |-> n, rx |-> f.rx, id |-> f.id, pdu |-> f.pdu, ups |-> 0]}
  /\ UNCHANGED <<txQueue, lastIds, tasks, wanEvents, histVars>>

\* _onMacSend and _onMacTxFailed of the routing layer: the medium access layer
\* has settled a frame; a failed one may have reached the next hop.
FrameSettled(n) ==
  /\ pending[n] # <<>>
  /\ pending' = [pending EXCEPT ![n] = Tail(@)]
  /\ \/ Head(pending[n]).sent /\ _onRoutingSent(n, Head(pending[n]).id)
     \/ _onRoutingTxError(n, Head(pending[n]).id)
  /\ UNCHANGED <<lastIds, wanEvents, net, upVars, usedIDs>>

\* _WANPacketSent and _WANPacketTxFailed.
WanSettled(n) ==
  /\ wanEvents[n] # <<>>
  /\ wanEvents' = [wanEvents EXCEPT ![n] = Tail(@)]
  /\ \/ Head(wanEvents[n]).ok /\ _onRoutingSent(n, 0)
     \/ ~Head(wanEvents[n]).ok /\ _onRoutingTxError(n, 0)
  /\ UNCHANGED <<lastIds, pending, net, upVars, usedIDs>>

---------------------------------------------------------------------------
(* Timeouts. *)

TimeoutExpires(n) ==
  /\ \E i \in DOMAIN txQueue[n] :
       /\ txQueue[n][i].ackTimeout = Running
       /\ txQueue' = [txQueue EXCEPT ![n][i].ackTimeout = Expired]
  /\ UNCHANGED <<lastIds, tasks, lowerVars, net, histVars>>

\* A task runs 5 ms or more after the instant it was armed for.
Due(n, t) ==
  t[2] /\ ~\E i \in DOMAIN txQueue[n] :
            txQueue[n][i].ackTask = t[1] /\ txQueue[n][i].ackTimeout = Running

_resendSegment(n, i) ==
  LET meta == txQueue[n][i] IN
  \/ \E id \in 0..MaxFrames :
       /\ Routing_send(n, meta.rx, meta.pdu, id)
       /\ txQueue' = [txQueue EXCEPT ![n][i].ackTimeout = Off, ![n][i].id = id]
  \/ /\ Routing_sendFails(n, meta.rx, meta.pdu.ID)
     /\ txQueue' = [txQueue EXCEPT ![n][i].ackTimeout = Off]

\* Mutant: one copy too many.
ExhaustedLate(meta) == meta.retries > MaxRetries + 1

Exhausted(meta) == meta.retries > MaxRetries

_checkTxQueueMetadata(n) ==
  \E t \in tasks[n] :
    /\ Due(n, t)
    /\ Disable(n, t[1])
    /\ LET I == Indices(n, LAMBDA m : m.ackTimeout = Expired)  i == First(I) IN
       \/ I = {} /\ UNCHANGED <<txQueue, lowerVars, net, notes>>
       \/ /\ I # {} /\ Exhausted(txQueue[n][i])
          /\ txQueue' = [txQueue EXCEPT ![n] = Without(@, i)]
          /\ Notify(n, txQueue[n][i].pdu.ID, PortAfterErase(n, i), FALSE)
          /\ UNCHANGED <<lowerVars, net>>
       \/ /\ I # {} /\ ~Exhausted(txQueue[n][i])
          /\ _resendSegment(n, i)
          /\ UNCHANGED notes
    /\ UNCHANGED <<lastIds, upVars, usedIDs>>

\* _delete_completed_tasks of the scheduler.
_delete_completed_tasks(n) ==
  /\ \E t \in tasks[n] : ~t[2]
  /\ tasks' = [tasks EXCEPT ![n] = {t \in @ : t[2]}]
  /\ UNCHANGED <<txQueue, lastIds, lowerVars, net, histVars>>

---------------------------------------------------------------------------
(* _onRoutingReceived. *)

\* The uplink results one reception leaves to be notified, and what it leaves
\* in the network.
Leaves(n, results, packets) == _sendThroughLoRaWAN(n, results) /\ net' = packets

\* A segment that asks for an acknowledgement gets one whether or not it is
\* new, by Routing_send; nobody looks at what that returns. No table has a
\* route to its own node unless it was given one.
AnswerSegment(n, p, results, packets) ==
  LET ack == _buildAck(p.pdu) IN
  \/ /\ ~p.pdu.ACKRequest \/ RoutesMayMiss \/ p.tx = n
     /\ Leaves(n, results, packets)
     /\ UNCHANGED pending
  \/ /\ p.pdu.ACKRequest /\ ~Uplink(n, p.tx) /\ FreeFrameIds(n) # {}
     /\ pending' = [pending EXCEPT ![n] =
                      Append(@, MacFrame(First(FreeFrameIds(n)), p.tx, ack))]
     /\ Leaves(n, results, packets)
  \/ /\ p.pdu.ACKRequest /\ Uplink(n, p.tx)
     /\ \/ Leaves(n, Append(results, Result(NoID, TRUE)),
                  packets \union ThroughServer(n, p.tx, ack, 1))
        \/ Leaves(n, Append(results, Result(NoID, FALSE)), packets)
     /\ UNCHANGED pending

\* Only a new segment is handed to the application of its port.
KeepNewSegment(n, p) ==
  \/ /\ ~Remembers(lastIds[n], p.pdu.ID) /\ Len(handedUp[n]) < MaxHandedUp
     /\ lastIds' = [lastIds EXCEPT ![n] = Remember(@, p.pdu.ID)]
     /\ delivered' = [delivered EXCEPT ![n] = @ \union {<<p.tx, p.pdu.ID>>}]
     /\ handedUp' = [handedUp EXCEPT ![n] = Append(@, p.pdu.ID)]
  \/ Remembers(lastIds[n], p.pdu.ID) /\ UNCHANGED <<lastIds, upVars>>

ReceiveSegment(n) ==
  \E p \in net :
    /\ p.rx = n /\ ~p.pdu.ACKResponse
    /\ AnswerSegment(n, p, <<>>, net \ {p})
    /\ KeepNewSegment(n, p)
    /\ UNCHANGED <<txQueue, tasks, notes, usedIDs>>

\* Mutant: the entry stays after its acknowledgement.
AckKeepsEntry(n, pdu) ==
  LET I == Indices(n, LAMBDA m : m.pdu.ID = pdu.ID) IN
  \/ I = {} /\ UNCHANGED <<txQueue, tasks, notes>>
  \/ /\ I # {}
     /\ Notify(n, pdu.ID, txQueue[n][First(I)].pdu.port, TRUE)
     /\ UNCHANGED <<txQueue, tasks>>

\* Mutant: an acknowledgement is taken for the oldest segment's.
AckOfOldest(n, pdu) ==
  \/ txQueue[n] = <<>> /\ UNCHANGED <<txQueue, tasks, notes>>
  \/ /\ txQueue[n] # <<>>
     /\ scheduler_stop(n, txQueue[n][1].ackTask)
     /\ txQueue' = [txQueue EXCEPT ![n] = Tail(@)]
     /\ Notify(n, txQueue[n][1].pdu.ID, txQueue[n][1].pdu.port, TRUE)

_ackReceived(n, pdu) ==
  LET I == Indices(n, LAMBDA m : m.pdu.ID = pdu.ID)  i == First(I) IN
  \/ I = {} /\ UNCHANGED <<txQueue, tasks, notes>>
  \/ /\ I # {}
     /\ scheduler_stop(n, txQueue[n][i].ackTask)
     /\ txQueue' = [txQueue EXCEPT ![n] = Without(@, i)]
     /\ Notify(n, txQueue[n][i].pdu.ID, txQueue[n][i].pdu.port, TRUE)

ReceiveAck(n) ==
  \E p \in net :
    /\ p.rx = n /\ p.pdu.ACKResponse
    /\ net' = net \ {p}
    /\ _ackReceived(n, p.pdu)
    /\ UNCHANGED <<lastIds, lowerVars, upVars, usedIDs>>

\* _processReceivedPacket at a gateway whose next hop to the destination is
\* NODE_ADDRESS_GATEWAY: it uplinks the packet and, when that works, takes it
\* for its own as well, be it for the other end or for a node.
Relayed(n, p) ==
  /\ p.rx # n /\ Uplink(n, p.rx)
  /\ Len(wanEvents[n]) < MaxRelays /\ p.ups < MaxUplinks

Onward(p) == (net \ {p}) \union ThroughServer(p.tx, p.rx, p.pdu, p.ups + 1)

\* Mutant: the acknowledgement is sent whether or not the uplink works.
AnswerAnyway(n) ==
  \E p \in net, ok \in BOOLEAN :
    /\ Relayed(n, p) /\ ~p.pdu.ACKResponse
    /\ AnswerSegment(n, p, <<Result(NoID, ok)>>, IF ok THEN Onward(p) ELSE net \ {p})
    /\ IF ok THEN KeepNewSegment(n, p) ELSE UNCHANGED <<lastIds, upVars>>
    /\ UNCHANGED <<txQueue, tasks, notes, usedIDs>>

RelaySegment(n) ==
  \E p \in net :
    /\ Relayed(n, p) /\ ~p.pdu.ACKResponse
    /\ AnswerSegment(n, p, <<Result(NoID, TRUE)>>, Onward(p))
    /\ KeepNewSegment(n, p)
    /\ UNCHANGED <<txQueue, tasks, notes, usedIDs>>

RelayAck(n) ==
  \E p \in net :
    /\ Relayed(n, p) /\ p.pdu.ACKResponse
    /\ Leaves(n, <<Result(NoID, TRUE)>>, Onward(p))
    /\ _ackReceived(n, p.pdu)
    /\ UNCHANGED <<lastIds, pending, upVars, usedIDs>>

RelayFails(n) ==
  \E p \in net :
    /\ Relayed(n, p)
    /\ Leaves(n, <<Result(NoID, FALSE)>>, net \ {p})
    /\ UNCHANGED <<txQueue, lastIds, tasks, pending, histVars>>

\* A hop gives up, a route or the time to live ends, a relay restarts.
Lose ==
  /\ \E p \in net : net' = net \ {p}
  /\ UNCHANGED <<txQueue, lastIds, tasks, lowerVars, histVars>>

---------------------------------------------------------------------------
Init ==
  /\ txQueue = [n \in Nodes |-> <<>>]
  /\ lastIds = [n \in Nodes |-> <<>>]
  /\ tasks = [n \in Nodes |-> {}]
  /\ pending = [n \in Nodes |-> <<>>]
  /\ wanEvents = [n \in Nodes |-> <<>>]
  /\ net = {}
  /\ notes = [n \in Nodes |-> <<>>]
  /\ delivered = [n \in Nodes |-> {}]
  /\ handedUp = [n \in Nodes |-> <<>>]
  /\ usedIDs = {}

Next ==
  \/ \E n \in Nodes :
       \/ \E rx \in Nodes \union {Gateway}, port \in Ports, ack \in BOOLEAN, ID \in IDs :
            Transport_send(n, rx, port, ack, ID)
       \/ \E rx \in Nodes \union {Gateway} : Transport_sendFails(n, rx)
       \/ FrameSent(n)
       \/ FrameSettled(n)
       \/ WanSettled(n)
       \/ TimeoutExpires(n)
       \/ _checkTxQueueMetadata(n)
       \/ _delete_completed_tasks(n)
       \/ ReceiveSegment(n)
       \/ ReceiveAck(n)
       \/ RelaySegment(n)
       \/ RelayAck(n)
       \/ RelayFails(n)
  \/ Lose

Spec == Init /\ [][Next]_vars

\* The medium access layer settles every frame (module Mac), the scheduler runs
\* every task that is due and time passes.
Fairness ==
  \A n \in Nodes :
    /\ WF_vars(FrameSettled(n))
    /\ WF_vars(WanSettled(n))
    /\ WF_vars(TimeoutExpires(n))
    /\ WF_vars(_checkTxQueueMetadata(n))

FairSpec == Spec /\ Fairness

---------------------------------------------------------------------------
(* Properties. *)

Queued(n, ID) == \E i \in DOMAIN txQueue[n] : txQueue[n][i].pdu.ID = ID
Settles(n, i) == \A j \in DOMAIN txQueue'[n] : txQueue'[n][j].pdu.ID # txQueue[n][i].pdu.ID
Reported(n, ID) == \E i \in DOMAIN notes[n] : notes[n][i].ID = ID

\* Every variable keeps its type, and no identifier is queued twice.
TypeOK ==
  /\ txQueue \in [Nodes -> Seq(Metadata)]
  /\ lastIds \in [Nodes -> Seq(IDs)]
  /\ \A n \in Nodes : tasks[n] \subseteq TaskKey \X BOOLEAN
  /\ \A n \in Nodes : \A i, j \in DOMAIN txQueue[n] :
       txQueue[n][i].pdu.ID = txQueue[n][j].pdu.ID => i = j

\* transport.cpp:239-301, 311-345: every segment without result has something
\* left that will wake it, a frame not settled, an uplink not notified, or a
\* timeout whose task is enabled. Handlers that leave one without are forgotten
\* by the whole device: nothing else looks at the queue. tfe.tex:1065 says that
\* a retransmission that cannot be made is met with the same timeout.
NoStuckSegment ==
  \A n \in Nodes : \A i \in DOMAIN txQueue[n] :
    LET meta == txQueue[n][i] IN
    \/ /\ meta.ackTimeout = Off /\ meta.id # 0
       /\ \E j \in DOMAIN pending[n] : pending[n][j].id = meta.id
    \/ meta.ackTimeout = Off /\ meta.id = 0 /\ wanEvents[n] # <<>>
    \/ meta.ackTimeout # Off /\ \E t \in tasks[n] : t[2]

\* transport.cpp:220-303: no segment gets two results, whatever late
\* acknowledgements, timeouts and results of frames still come for it.
OneResult ==
  \A n \in Nodes : \A i, j \in DOMAIN notes[n] :
    notes[n][i].ID = notes[n][j].ID => i = j

\* transport.cpp:92-134, 225-228: a segment that was accepted is either waiting
\* in the queue or has had its result, never both and never neither.
NoneForgotten ==
  \A u \in usedIDs : Queued(u[1], u[2].ID) # Reported(u[1], u[2].ID)

\* The other end of what is sent to rx: the gateways stand for that of LoRaWAN.
Holders(rx) == IF rx = Gateway THEN WanNodes ELSE {rx}

\* tfe.tex:1024, transport.cpp:180-190, 220-230: a segment that asked for an
\* acknowledgement is reported sent only when its destination's application has
\* been handed it. It is so while what is for a node goes through nodes only.
NoFalseSuccess ==
  \A u \in usedIDs : \A i \in DOMAIN notes[u[1]] :
    LET note == notes[u[1]][i] IN
    note.ID = u[2].ID /\ note.ok /\ u[2].ACKRequest =>
      \E n \in Holders(u[3]) : <<u[1], u[2].ID>> \in delivered[n]

\* The nodes that answer for rx: itself, and the gateways that uplink what is
\* for it.
Answerers(rx) == {n \in Nodes : n = rx \/ Uplink(n, rx)}

\* routing.cpp:170-201, transport.cpp:180-230: whatever the routes, a segment
\* that asked for an acknowledgement is reported sent only when an application
\* of its destination, or of a gateway that answers for it, has been handed it.
SuccessIsAnswered ==
  \A u \in usedIDs : \A i \in DOMAIN notes[u[1]] :
    LET note == notes[u[1]][i] IN
    note.ID = u[2].ID /\ note.ok /\ u[2].ACKRequest =>
      \E n \in Answerers(u[3]) : <<u[1], u[2].ID>> \in delivered[n]

\* transport.cpp:209-216: a segment retransmitted, or received again from the
\* network, is not handed to an application again before as many others as
\* lastIds holds.
NoEarlyRepeat ==
  \A n \in Nodes : \A i, j \in DOMAIN handedUp[n] :
    i < j /\ j - i <= RingSize => handedUp[n][i] # handedUp[n][j]

\* transport.cpp:271-276, 317-320: a segment is never transmitted more often
\* than the first time and MaxRetries times again, so its timeouts stay finite.
RetryBound ==
  \A n \in Nodes : \A i \in DOMAIN txQueue[n] :
    LET meta == txQueue[n][i] IN
    /\ meta.retries <= MaxRetries + 1
    /\ meta.ackTimeout = Off => meta.retries <= MaxRetries

\* transport.cpp:239-345: every segment the layer accepts gets its result.
EverySegmentSettles ==
  \A n \in Nodes : \A ID \in IDs : Queued(n, ID) ~> Reported(n, ID)

\* transport.cpp:364: the application notified is the one of the segment.
RightPort ==
  \A u \in usedIDs : \A i \in DOMAIN notes[u[1]] :
    notes[u[1]][i].ID = u[2].ID => notes[u[1]][i].port = u[2].port

\* transport.cpp:225: the task an acknowledgement stops is the timeout of its
\* segment.
AckStopsItsTask ==
  [][\A n \in Nodes : \A i \in DOMAIN txQueue[n] :
       ReceiveAck(n) /\ Settles(n, i) => TaskExists(n, txQueue[n][i].ackTask)]_vars

\* transport.cpp:327: a timeout task always finds a segment.
TimeoutFindsSegment ==
  \A n \in Nodes : \A t \in tasks[n] :
    Due(n, t) => \E i \in DOMAIN txQueue[n] : txQueue[n][i].ackTimeout = Expired

\* routing.cpp:150-165: the result of an uplink settles only the segment that
\* was sent in it, and that of a relayed packet settles none (tfe.tex:774).
UplinkResultIsOwn ==
  [][\A n \in Nodes : WanSettled(n) =>
       \A i \in DOMAIN txQueue[n] :
         Settles(n, i) => txQueue[n][i].pdu.ID = Head(wanEvents[n]).ID]_vars
=============================================================================
