-------------------------- MODULE TransportProofs --------------------------
(***************************************************************************)
(* The transport layer for every set of nodes, identifiers and ports and   *)
(* every bound.                                                            *)
(*                                                                         *)
(* ResultInv is about results: what the queue, the notifications that are  *)
(* due and the history say of the same call. NetInv is about packets: what *)
(* is under way or remembered was sent, and what was acknowledged was      *)
(* handed to an application of its destination, or of a gateway that       *)
(* uplinked it and answers for it. LayerInv adds what the results and      *)
(* timeouts to come are about: how often a segment was sent, and what will *)
(* wake it, depends on every one of them that names it.                    *)
(***************************************************************************)
EXTENDS Transport, SequenceTheorems, WellFoundedInduction, TLAPS

USE TransportAssumption

Hops == Nodes \union {Gateway}

Note == [ID : IDs, port : Ports, ok : BOOLEAN]

---------------------------------------------------------------------------
(* The operators of the module. *)

\* The search of a vector from its start finds the lowest index.
LEMMA FirstIsLeast ==
  ASSUME NEW I \in SUBSET Nat, I # {}
  PROVE  First(I) \in I /\ \A j \in I : First(I) <= j
<1> DEFINE R == OpToRel(<, Nat)
<1>1. IsWellFoundedOn(R, Nat)
  BY NatLessThanWellFounded
<1> HIDE DEF R
<1>2. PICK i \in I : \A j \in I : ~(<<j, i>> \in R)
  BY <1>1, WFMin
<1>3. ASSUME NEW j \in I
      PROVE  i <= j
  <2>1. R = {p \in Nat \X Nat : p[1] < p[2]}
    BY DEF R, OpToRel
  <2>2. <<j, i>> \in Nat \X Nat /\ <<j, i>>[1] = j /\ <<j, i>>[2] = i
    OBVIOUS
  <2>3. ~(j < i)
    BY <1>2, <2>1, <2>2
  <2> QED BY <2>3
<1>4. \E k \in I : \A j \in I : k <= j
  BY <1>2, <1>3
<1> QED BY <1>4 DEF First

\* txQueue.erase.
LEMMA WithoutOne ==
  ASSUME NEW S, NEW q \in Seq(S), NEW i \in DOMAIN q
  PROVE  /\ Without(q, i) \in Seq(S)
         /\ Len(Without(q, i)) = Len(q) - 1
         /\ \A k \in DOMAIN Without(q, i) :
              Without(q, i)[k] = IF k < i THEN q[k] ELSE q[k + 1]
<1> DEFINE s == SubSeq(q, 1, i - 1)
           t == SubSeq(q, i + 1, Len(q))
<1>1. i \in 1..Len(q) /\ Len(q) \in Nat
  BY LenProperties
<1>2. \A k \in 1..Len(q) : q[k] \in S
  BY ElementOfSeq
<1>3. /\ s \in Seq(S) /\ Len(s) = i - 1
      /\ \A k \in 1..(i - 1) : s[k] = q[k]
  <2>1. \A k \in 1..(i - 1) : q[k] \in S
    BY <1>1, <1>2
  <2>2. /\ s \in Seq(S) /\ Len(s) = IF 1 <= i - 1 THEN i - 1 - 1 + 1 ELSE 0
        /\ \A k \in 1..(i - 1 - 1 + 1) : s[k] = q[1 + k - 1]
    BY <1>1, <2>1, SubSeqProperties
  <2> HIDE DEF s
  <2> QED BY <1>1, <2>2
<1>4. /\ t \in Seq(S) /\ Len(t) = Len(q) - i
      /\ \A k \in 1..(Len(q) - i) : t[k] = q[k + i]
  <2>1. \A k \in (i + 1)..Len(q) : q[k] \in S
    BY <1>1, <1>2
  <2>2. /\ t \in Seq(S) /\ Len(t) = IF i + 1 <= Len(q) THEN Len(q) - (i + 1) + 1 ELSE 0
        /\ \A k \in 1..(Len(q) - (i + 1) + 1) : t[k] = q[i + 1 + k - 1]
    BY <1>1, <2>1, SubSeqProperties
  <2> HIDE DEF t
  <2> QED BY <1>1, <2>2
<1> HIDE DEF s, t
<1>5. /\ s \o t \in Seq(S) /\ Len(s \o t) = Len(s) + Len(t)
      /\ \A k \in 1..(Len(s) + Len(t)) :
           (s \o t)[k] = IF k <= Len(s) THEN s[k] ELSE t[k - Len(s)]
  BY ONLY <1>3, <1>4, ConcatProperties
<1>6. Without(q, i) = s \o t
  BY DEF Without, s, t
<1>7. DOMAIN (s \o t) = 1..(Len(q) - 1)
  BY <1>1, <1>3, <1>4, <1>5, LenProperties
<1>8. ASSUME NEW k \in 1..(Len(q) - 1)
      PROVE  (s \o t)[k] = IF k < i THEN q[k] ELSE q[k + 1]
  <2>1. CASE k < i
    BY <1>1, <1>3, <1>4, <1>5, <2>1
  <2>2. CASE ~(k < i)
    <3>1. k \in 1..(Len(s) + Len(t)) /\ ~(k <= Len(s))
      BY <1>1, <1>3, <1>4, <2>2
    <3>2. (s \o t)[k] = t[k - Len(s)]
      BY <1>5, <3>1
    <3>3. k - Len(s) \in 1..(Len(q) - i) /\ k - Len(s) + i = k + 1
      BY <1>1, <1>3, <2>2
    <3>4. t[k - Len(s)] = q[k - Len(s) + i]
      BY <1>4, <3>3
    <3> QED BY <2>2, <3>2, <3>3, <3>4
  <2> QED BY <2>1, <2>2
<1>9. Len(s) + Len(t) = Len(q) - 1
  BY <1>1, <1>3, <1>4
<1> QED BY <1>5, <1>6, <1>7, <1>8, <1>9

\* What is left of a queue of segments that are all different.
DistinctSegments(q) == \A i, j \in DOMAIN q : q[i].pdu.ID = q[j].pdu.ID => i = j

LEMMA EraseEntry ==
  ASSUME NEW q \in Seq(Metadata), DistinctSegments(q), NEW i \in DOMAIN q
  PROVE  /\ Without(q, i) \in Seq(Metadata) /\ DistinctSegments(Without(q, i))
         /\ \A k \in DOMAIN Without(q, i) :
              \E j \in DOMAIN q : j # i /\ Without(q, i)[k] = q[j]
         /\ \A j \in DOMAIN q : j # i =>
              \E k \in DOMAIN Without(q, i) : Without(q, i)[k] = q[j]
<1> DEFINE w == Without(q, i)
           old(k) == IF k < i THEN k ELSE k + 1
<1>1. /\ w \in Seq(Metadata) /\ Len(w) = Len(q) - 1
      /\ \A k \in DOMAIN w : w[k] = IF k < i THEN q[k] ELSE q[k + 1]
  BY WithoutOne
<1> HIDE DEF w
<1>2. DOMAIN q = 1..Len(q) /\ DOMAIN w = 1..(Len(q) - 1) /\ Len(q) \in Nat
  BY <1>1, LenProperties
<1>3. \A k \in DOMAIN w : old(k) \in DOMAIN q /\ old(k) # i /\ w[k] = q[old(k)]
  BY <1>1, <1>2
<1>4. DistinctSegments(w)
  <2>1. \A k, m \in DOMAIN w : old(k) = old(m) => k = m
    BY <1>2
  <2> HIDE DEF old
  <2> QED BY <1>3, <2>1 DEF DistinctSegments
<1>5. ASSUME NEW j \in DOMAIN q, j # i
      PROVE  \E k \in DOMAIN w : w[k] = q[j]
  <2>1. CASE j < i
    <3>1. j \in DOMAIN w /\ w[j] = q[j]
      BY <1>1, <1>2, <2>1
    <3> QED BY <3>1
  <2>2. CASE j > i
    <3>1. j - 1 \in DOMAIN w /\ w[j - 1] = q[j - 1 + 1] /\ j - 1 + 1 = j
      BY <1>1, <1>2, <2>2
    <3> QED BY <3>1
  <2> QED BY <1>2, <1>5, <2>1, <2>2
<1> HIDE DEF old
<1> QED BY <1>1, <1>3, <1>4, <1>5 DEF w

\* Pushing at the back.
LEMMA AppendEntry ==
  ASSUME NEW S, NEW q \in Seq(S), NEW m \in S
  PROVE  /\ Append(q, m) \in Seq(S)
         /\ DOMAIN Append(q, m) = DOMAIN q \union {Len(q) + 1}
         /\ Len(q) + 1 \notin DOMAIN q
         /\ Append(q, m)[Len(q) + 1] = m
         /\ \A i \in DOMAIN q : Append(q, m)[i] = q[i]
<1>1. DOMAIN q = 1..Len(q) /\ Len(q) \in Nat
  BY LenProperties
<1>2. /\ Append(q, m) \in Seq(S) /\ Len(Append(q, m)) = Len(q) + 1
      /\ \A i \in 1..Len(q) : Append(q, m)[i] = q[i]
      /\ Append(q, m)[Len(q) + 1] = m
  BY AppendProperties
<1>3. DOMAIN Append(q, m) = 1..(Len(q) + 1)
  BY <1>2, LenProperties
<1>4. 1..(Len(q) + 1) = 1..Len(q) \union {Len(q) + 1} /\ Len(q) + 1 \notin 1..Len(q)
  BY <1>1
<1> QED BY <1>1, <1>2, <1>3, <1>4

---------------------------------------------------------------------------
(* What the steps do to the segments of a node. *)

QueueTypes ==
  /\ txQueue \in [Nodes -> Seq(Metadata)]
  /\ notes \in [Nodes -> Seq(Note)]

Accepts(n, m) ==
  /\ m.pdu.ID \notin {u[2].ID : u \in usedIDs} /\ ~m.pdu.ACKResponse
  /\ txQueue' = [txQueue EXCEPT ![n] = Append(@, m)]
  /\ usedIDs' = usedIDs \union {<<n, m.pdu, m.rx>>}
  /\ UNCHANGED notes

\* Neither the segment nor its destination changes.
Restamps(n, i, m) ==
  /\ m.pdu = txQueue[n][i].pdu /\ m.rx = txQueue[n][i].rx
  /\ txQueue' = [txQueue EXCEPT ![n] = [txQueue[n] EXCEPT ![i] = m]]
  /\ UNCHANGED <<notes, usedIDs>>

\* A success of a segment that asked for it has an acknowledgement.
Concludes(n, i, port, ok) ==
  /\ txQueue' = [txQueue EXCEPT ![n] = Without(@, i)]
  /\ Notify(n, txQueue[n][i].pdu.ID, port, ok)
  /\ ok /\ txQueue[n][i].pdu.ACKRequest =>
       \E p \in net : p.pdu.ACKResponse /\ p.pdu.ID = txQueue[n][i].pdu.ID
  /\ UNCHANGED usedIDs

QueueStep ==
  \/ UNCHANGED <<txQueue, notes, usedIDs>>
  \/ \E n \in Nodes, m \in Metadata : Accepts(n, m)
  \/ \E n \in Nodes : \E i \in DOMAIN txQueue[n], m \in Metadata : Restamps(n, i, m)
  \/ \E n \in Nodes : \E i \in DOMAIN txQueue[n], port \in Ports, ok \in BOOLEAN :
       Concludes(n, i, port, ok)

\* A search of a queue that finds something.
LEMMA FoundIndex ==
  ASSUME QueueTypes, NEW n \in Nodes, NEW I \in SUBSET DOMAIN txQueue[n], I # {}
  PROVE  First(I) \in I /\ First(I) \in DOMAIN txQueue[n]
<1>1. txQueue[n] \in Seq(Metadata)
  BY DEF QueueTypes
<1>2. DOMAIN txQueue[n] = 1..Len(txQueue[n]) /\ Len(txQueue[n]) \in Nat
  BY <1>1, LenProperties
<1>3. I \in SUBSET Nat
  BY <1>2
<1> QED BY <1>3, FirstIsLeast

LEMMA EntryType ==
  ASSUME QueueTypes, NEW n \in Nodes, NEW i \in DOMAIN txQueue[n]
  PROVE  /\ txQueue[n] \in Seq(Metadata) /\ i \in 1..Len(txQueue[n])
         /\ txQueue[n][i] \in Metadata
<1>1. txQueue[n] \in Seq(Metadata)
  BY DEF QueueTypes
<1>2. i \in 1..Len(txQueue[n])
  BY <1>1, LenProperties
<1> QED BY <1>1, <1>2, ElementOfSeq

\* The port that is read after the erase is some port.
LEMMA PortType ==
  ASSUME QueueTypes, NEW n \in Nodes, NEW i \in DOMAIN txQueue[n]
  PROVE  PortAfterErase(n, i) \in Ports
<1>1. Len(txQueue[n]) \in Nat
  BY EntryType, LenProperties
<1>2. ASSUME NEW k \in 1..Len(txQueue[n])
      PROVE  txQueue[n][k].pdu.port \in Ports
  <2>1. txQueue[n][k] \in Metadata
    BY EntryType, ElementOfSeq
  <2> QED BY <2>1 DEF Metadata, PDU
<1>3. CASE i < Len(txQueue[n])
  <2>1. i + 1 \in 1..Len(txQueue[n])
    BY <1>1, <1>3, EntryType
  <2> QED BY <1>2, <1>3, <2>1 DEF PortAfterErase
<1>4. CASE ~(i < Len(txQueue[n]))
  BY <1>2, <1>4, EntryType DEF PortAfterErase
<1> QED BY <1>3, <1>4

LEMMA EraseEffect ==
  ASSUME QueueTypes, NEW n \in Nodes, NEW i \in DOMAIN txQueue[n], NEW ok \in BOOLEAN,
         EraseAndNotify(n, i, ok), ok => ~txQueue[n][i].pdu.ACKRequest, UNCHANGED usedIDs
  PROVE  QueueStep
<1>1. Concludes(n, i, PortAfterErase(n, i), ok)
  BY DEF EraseAndNotify, Concludes
<1> QED BY <1>1, PortType DEF QueueStep

LEMMA TimeoutEffect ==
  ASSUME QueueTypes, NEW n \in Nodes, NEW i \in DOMAIN txQueue[n],
         StartTimeout(n, i), UNCHANGED usedIDs
  PROVE  QueueStep
<1> DEFINE meta == txQueue[n][i]
           key == [ID |-> meta.pdu.ID, try |-> meta.retries + 1]
           m == [meta EXCEPT !.ackTimeout = Running, !.retries = @ + 1, !.ackTask = key]
<1>1. meta \in Metadata
  BY EntryType
<1>2. key \in TaskKey
  BY <1>1 DEF Metadata, PDU, TaskKey
<1>3. m \in Metadata /\ m.pdu = meta.pdu /\ m.rx = meta.rx
  <2>1. meta.retries + 1 \in Nat
    BY <1>1 DEF Metadata
  <2>2. m = [meta EXCEPT !.ackTimeout = Running, !.retries = meta.retries + 1,
                         !.ackTask = key]
    OBVIOUS
  <2> HIDE DEF meta, key, m
  <2> QED BY <1>1, <1>2, <2>1, <2>2 DEF Metadata
<1>4. txQueue' = [txQueue EXCEPT ![n] = [txQueue[n] EXCEPT ![i] = m]] /\ UNCHANGED notes
  BY DEF StartTimeout
<1>5. Restamps(n, i, m)
  BY <1>3, <1>4 DEF Restamps
<1> QED BY <1>3, <1>5 DEF QueueStep

\* The result of a frame or of an uplink.
LEMMA FrameResultEffect ==
  ASSUME QueueTypes, NEW n \in Nodes, NEW id, UNCHANGED usedIDs,
         _onRoutingSent(n, id) \/ _onRoutingTxError(n, id)
  PROVE  QueueStep
<1> DEFINE I == {i \in DOMAIN txQueue[n] : txQueue[n][i].id = id}
           i == First(I)
<1>1. I = Indices(n, LAMBDA m : m.id = id)
  BY DEF Indices
<1>2. CASE I = {}
  BY <1>1, <1>2 DEF _onRoutingSent, _onRoutingTxError, QueueStep
<1>3. CASE I # {}
  <2>1. i \in DOMAIN txQueue[n]
    BY <1>3, FoundIndex
  <2>2. \/ ~txQueue[n][i].pdu.ACKRequest /\ EraseAndNotify(n, i, TRUE)
        \/ EraseAndNotify(n, i, FALSE)
        \/ StartTimeout(n, i)
    BY <1>1, <1>3 DEF _onRoutingSent, _onRoutingTxError
  <2> HIDE DEF i
  <2> QED BY <2>1, <2>2, EraseEffect, TimeoutEffect
<1> QED BY <1>2, <1>3


LEMMA SendEffect ==
  ASSUME NEW n \in Nodes, NEW rx \in Hops, NEW port \in Ports, NEW ack \in BOOLEAN,
         NEW ID \in IDs, Transport_send(n, rx, port, ack, ID)
  PROVE  QueueStep
<1> DEFINE pdu == Segment(ID, port, ack)
           m(id) == [pdu |-> pdu, id |-> id, rx |-> rx, ackTimeout |-> Off,
                     retries |-> 0, ackTask |-> NoTask]
<1>1. PICK id \in 0..MaxFrames :
        /\ txQueue' = [txQueue EXCEPT ![n] = Append(@, m(id))]
        /\ usedIDs' = usedIDs \union {<<n, pdu, rx>>}
  BY DEF Transport_send
<1>2. pdu \in PDU /\ pdu.ID = ID /\ ~pdu.ACKResponse
  BY DEF Segment, PDU
<1>3. m(id) \in Metadata /\ m(id).pdu = pdu /\ m(id).rx = rx
  BY <1>2 DEF Metadata, Hops
<1> HIDE DEF pdu, m
<1>4. Accepts(n, m(id))
  BY <1>1, <1>2, <1>3 DEF Accepts, Transport_send
<1> QED BY <1>3, <1>4 DEF QueueStep

LEMMA ExpiryEffect ==
  ASSUME QueueTypes, NEW n \in Nodes, TimeoutExpires(n)
  PROVE  QueueStep
<1>1. PICK i \in DOMAIN txQueue[n] :
        txQueue' = [txQueue EXCEPT ![n][i].ackTimeout = Expired]
  BY DEF TimeoutExpires
<1> DEFINE m == [txQueue[n][i] EXCEPT !.ackTimeout = Expired]
<1>2. m \in Metadata /\ m.pdu = txQueue[n][i].pdu /\ m.rx = txQueue[n][i].rx
  <2>1. txQueue[n][i] \in Metadata
    BY EntryType
  <2> QED BY <2>1 DEF Metadata
<1>3. Restamps(n, i, m)
  BY <1>1, <1>2 DEF Restamps, TimeoutExpires, histVars
<1> QED BY <1>2, <1>3 DEF QueueStep

LEMMA ResendEffect ==
  ASSUME QueueTypes, NEW n \in Nodes, NEW i \in DOMAIN txQueue[n],
         _resendSegment(n, i), UNCHANGED <<notes, usedIDs>>
  PROVE  QueueStep
<1> DEFINE meta == txQueue[n][i]
<1>1. meta \in Metadata
  BY EntryType
<1>2. CASE \E id \in 0..MaxFrames :
             txQueue' = [txQueue EXCEPT ![n][i].ackTimeout = Off, ![n][i].id = id]
  <2>1. PICK id \in 0..MaxFrames :
          txQueue' = [txQueue EXCEPT ![n][i].ackTimeout = Off, ![n][i].id = id]
    BY <1>2
  <2> DEFINE m == [meta EXCEPT !.ackTimeout = Off, !.id = id]
  <2>2. m \in Metadata /\ m.pdu = meta.pdu /\ m.rx = meta.rx
    BY <1>1 DEF Metadata
  <2>3. txQueue' = [txQueue EXCEPT ![n] = [txQueue[n] EXCEPT ![i] = m]]
    BY <2>1
  <2> QED BY <2>2, <2>3 DEF Restamps, QueueStep
<1>3. CASE txQueue' = [txQueue EXCEPT ![n][i].ackTimeout = Off]
  <2> DEFINE m == [meta EXCEPT !.ackTimeout = Off]
  <2>1. m \in Metadata /\ m.pdu = meta.pdu /\ m.rx = meta.rx
    BY <1>1 DEF Metadata
  <2>2. txQueue' = [txQueue EXCEPT ![n] = [txQueue[n] EXCEPT ![i] = m]]
    BY <1>3
  <2> QED BY <2>1, <2>2 DEF Restamps, QueueStep
<1> QED BY <1>2, <1>3 DEF _resendSegment

LEMMA CheckEffect ==
  ASSUME QueueTypes, NEW n \in Nodes, _checkTxQueueMetadata(n)
  PROVE  QueueStep
<1> DEFINE I == {i \in DOMAIN txQueue[n] : txQueue[n][i].ackTimeout = Expired}
           i == First(I)
<1>1. I = Indices(n, LAMBDA m : m.ackTimeout = Expired)
  BY DEF Indices
<1>2. /\ \/ I = {} /\ UNCHANGED <<txQueue, notes>>
         \/ /\ I # {} /\ txQueue' = [txQueue EXCEPT ![n] = Without(@, i)]
            /\ Notify(n, txQueue[n][i].pdu.ID, PortAfterErase(n, i), FALSE)
         \/ I # {} /\ _resendSegment(n, i) /\ UNCHANGED notes
      /\ UNCHANGED usedIDs
  BY <1>1 DEF _checkTxQueueMetadata
<1>3. I # {} => i \in DOMAIN txQueue[n]
  BY FoundIndex
<1> HIDE DEF I, i
<1>4. CASE I = {} /\ UNCHANGED <<txQueue, notes>>
  BY <1>2, <1>4 DEF QueueStep
<1>5. CASE /\ I # {} /\ txQueue' = [txQueue EXCEPT ![n] = Without(@, i)]
           /\ Notify(n, txQueue[n][i].pdu.ID, PortAfterErase(n, i), FALSE)
  <2>1. Concludes(n, i, PortAfterErase(n, i), FALSE)
    BY <1>2, <1>5 DEF Concludes
  <2> QED BY <1>3, <1>5, <2>1, PortType DEF QueueStep
<1>6. CASE I # {} /\ _resendSegment(n, i) /\ UNCHANGED notes
  BY <1>2, <1>3, <1>6, ResendEffect
<1> QED BY <1>2, <1>4, <1>5, <1>6

LEMMA AckEffect ==
  ASSUME QueueTypes, NEW n \in Nodes, ReceiveAck(n) \/ RelayAck(n)
  PROVE  QueueStep
<1>1. PICK p \in net : p.pdu.ACKResponse /\ _ackReceived(n, p.pdu)
  BY DEF ReceiveAck, RelayAck
<1> DEFINE I == {i \in DOMAIN txQueue[n] : txQueue[n][i].pdu.ID = p.pdu.ID}
           i == First(I)
<1>2. I = Indices(n, LAMBDA m : m.pdu.ID = p.pdu.ID)
  BY DEF Indices
<1>3. UNCHANGED usedIDs
  BY DEF ReceiveAck, RelayAck
<1>4. CASE I = {}
  BY <1>1, <1>2, <1>3, <1>4 DEF _ackReceived, QueueStep
<1>5. CASE I # {}
  <2>1. i \in I /\ i \in DOMAIN txQueue[n]
    BY <1>5, FoundIndex
  <2>2. txQueue[n][i].pdu.ID = p.pdu.ID
    BY <2>1
  <2>3. /\ txQueue' = [txQueue EXCEPT ![n] = Without(@, i)]
        /\ Notify(n, txQueue[n][i].pdu.ID, txQueue[n][i].pdu.port, TRUE)
    BY <1>1, <1>2, <1>5 DEF _ackReceived
  <2>4. txQueue[n][i].pdu.port \in Ports
    BY <2>1, EntryType DEF Metadata, PDU
  <2> HIDE DEF i
  <2>5. Concludes(n, i, txQueue[n][i].pdu.port, TRUE)
    BY <1>1, <1>3, <2>2, <2>3 DEF Concludes
  <2> QED BY <2>1, <2>4, <2>5 DEF QueueStep
<1> QED BY <1>4, <1>5

\* Every step of the layer does one of four things to its queues.
LEMMA StepEffect ==
  ASSUME QueueTypes, [Next]_vars
  PROVE  QueueStep
<1>1. CASE UNCHANGED vars \/ Lose
  BY <1>1 DEF vars, histVars, Lose, QueueStep
<1>2. ASSUME NEW n \in Nodes,
             \/ FrameSent(n) \/ _delete_completed_tasks(n)
             \/ ReceiveSegment(n) \/ RelaySegment(n) \/ RelayFails(n)
             \/ \E rx \in Hops : Transport_sendFails(n, rx)
      PROVE  QueueStep
  BY <1>2 DEF FrameSent, _delete_completed_tasks, ReceiveSegment, RelaySegment, RelayFails,
              Transport_sendFails, histVars, QueueStep
<1>3. ASSUME NEW n \in Nodes, FrameSettled(n) \/ WanSettled(n)
      PROVE  QueueStep
  BY <1>3, FrameResultEffect DEF FrameSettled, WanSettled
<1> QED BY <1>1, <1>2, <1>3, SendEffect, ExpiryEffect, CheckEffect, AckEffect DEF Next, Hops


---------------------------------------------------------------------------
(* Every accepted segment is queued or has had its one result. *)

Accepted == Nodes \X {pdu \in PDU : ~pdu.ACKResponse} \X Hops

\* An identifier is that of one segment of one node.
UsedOnce == \A u, v \in usedIDs : u[2].ID = v[2].ID => u = v

QueuedAreAccepted ==
  \A n \in Nodes :
    /\ DistinctSegments(txQueue[n])
    /\ \A i \in DOMAIN txQueue[n] : <<n, txQueue[n][i].pdu, txQueue[n][i].rx>> \in usedIDs

NotesAreOfAccepted ==
  \A n \in Nodes : \A i \in DOMAIN notes[n] :
    \E u \in usedIDs : u[1] = n /\ u[2].ID = notes[n][i].ID

ResultInv ==
  /\ QueueTypes
  /\ usedIDs \subseteq Accepted
  /\ UsedOnce
  /\ QueuedAreAccepted
  /\ NotesAreOfAccepted
  /\ NoneForgotten
  /\ OneResult

LEMMA AcceptKeepsResults ==
  ASSUME ResultInv, NEW n \in Nodes, NEW m \in Metadata, Accepts(n, m)
  PROVE  ResultInv'
<1> DEFINE q == txQueue[n]
           v == <<n, m.pdu, m.rx>>
<1>1. q \in Seq(Metadata) /\ txQueue \in [Nodes -> Seq(Metadata)]
  BY DEF ResultInv, QueueTypes
<1>2. /\ Append(q, m) \in Seq(Metadata)
      /\ DOMAIN Append(q, m) = DOMAIN q \union {Len(q) + 1}
      /\ Append(q, m)[Len(q) + 1] = m
      /\ \A i \in DOMAIN q : Append(q, m)[i] = q[i]
  BY <1>1, AppendEntry
<1>3. txQueue' = [txQueue EXCEPT ![n] = Append(q, m)]
  BY DEF Accepts
<1>4. txQueue'[n] = Append(q, m) /\ \A k \in Nodes \ {n} : txQueue'[k] = txQueue[k]
  BY <1>1, <1>3
<1>5. /\ usedIDs' = usedIDs \union {v} /\ notes' = notes
      /\ \A u \in usedIDs : u[2].ID # m.pdu.ID
  BY DEF Accepts
<1>6. m.pdu \in PDU /\ m.rx \in Hops /\ v[1] = n /\ v[2] = m.pdu
  BY DEF Metadata, Hops
<1>7. QueueTypes'
  <2>1. txQueue' \in [Nodes -> Seq(Metadata)]
    BY <1>1, <1>2, <1>3
  <2> QED BY <1>5, <2>1 DEF ResultInv, QueueTypes
<1>8. (usedIDs \subseteq Accepted)'
  <2>1. v \in Accepted
    BY <1>6 DEF Accepted, Accepts
  <2> QED BY <1>5, <2>1 DEF ResultInv, Accepted
<1> HIDE DEF v
<1>9. UsedOnce'
  BY <1>5, <1>6 DEF ResultInv, UsedOnce
<1>10. \A i \in DOMAIN q : q[i].pdu.ID # m.pdu.ID /\ <<n, q[i].pdu, q[i].rx>> \in usedIDs
  <2>1. ASSUME NEW i \in DOMAIN q
        PROVE  q[i].pdu.ID # m.pdu.ID /\ <<n, q[i].pdu, q[i].rx>> \in usedIDs
    <3>1. <<n, q[i].pdu, q[i].rx>> \in usedIDs
      BY DEF ResultInv, QueuedAreAccepted
    <3>2. <<n, q[i].pdu, q[i].rx>>[2] = q[i].pdu
      OBVIOUS
    <3> QED BY <1>5, <3>1, <3>2
  <2> QED BY <2>1
<1>11. QueuedAreAccepted'
  <2>1. DistinctSegments(Append(q, m))
    <3>1. DistinctSegments(q)
      BY DEF ResultInv, QueuedAreAccepted
    <3> HIDE DEF q
    <3> QED BY <1>2, <1>10, <3>1 DEF DistinctSegments
  <2>2. \A i \in DOMAIN txQueue'[n] :
          <<n, txQueue'[n][i].pdu, txQueue'[n][i].rx>> \in usedIDs'
    <3> HIDE DEF q
    <3> QED BY <1>2, <1>4, <1>5, <1>10 DEF v
  <2> HIDE DEF q
  <2> QED BY <1>4, <1>5, <2>1, <2>2 DEF ResultInv, QueuedAreAccepted
<1>12. NotesAreOfAccepted'
  BY <1>5 DEF ResultInv, NotesAreOfAccepted
<1>13. NoneForgotten'
  <2>1. ASSUME NEW u \in usedIDs
        PROVE  Queued(u[1], u[2].ID)' = Queued(u[1], u[2].ID)
    <3>1. u[1] \in Nodes /\ u[2].ID # m.pdu.ID
      BY <1>5 DEF ResultInv, Accepted
    <3>2. CASE u[1] = n
      <4> HIDE DEF q
      <4>1. (\E i \in DOMAIN Append(q, m) : Append(q, m)[i].pdu.ID = u[2].ID)
              = (\E i \in DOMAIN q : q[i].pdu.ID = u[2].ID)
        BY <1>2, <3>1
      <4> QED BY <1>4, <3>2, <4>1 DEF Queued, q
    <3>3. CASE u[1] # n
      BY <1>4, <3>1, <3>3 DEF Queued
    <3> QED BY <3>2, <3>3
  <2>2. Queued(n, m.pdu.ID)'
    BY <1>2, <1>4 DEF Queued
  <2>3. ~Reported(n, m.pdu.ID)'
    BY <1>5 DEF Reported, ResultInv, NotesAreOfAccepted
  <2>4. \A u \in usedIDs : Reported(u[1], u[2].ID)' = Reported(u[1], u[2].ID)
    BY <1>5 DEF Reported
  <2>5. ASSUME NEW u \in usedIDs'
        PROVE  Queued(u[1], u[2].ID)' # Reported(u[1], u[2].ID)'
    <3>1. CASE u \in usedIDs
      BY <2>1, <2>4, <3>1 DEF ResultInv, NoneForgotten
    <3>2. CASE u = v
      BY <1>6, <2>2, <2>3, <3>2
    <3> QED BY <1>5, <3>1, <3>2
  <2> QED BY <2>5 DEF NoneForgotten
<1>14. OneResult'
  BY <1>5 DEF ResultInv, OneResult
<1> QED BY <1>7, <1>8, <1>9, <1>11, <1>12, <1>13, <1>14 DEF ResultInv

LEMMA RestampKeepsResults ==
  ASSUME ResultInv, NEW n \in Nodes, NEW i \in DOMAIN txQueue[n], NEW m \in Metadata,
         Restamps(n, i, m)
  PROVE  ResultInv'
<1> DEFINE q == txQueue[n]
           r == [q EXCEPT ![i] = m]
<1>1. /\ q \in Seq(Metadata) /\ i \in 1..Len(q)
      /\ txQueue \in [Nodes -> Seq(Metadata)]
  BY EntryType DEF ResultInv, QueueTypes
<1>2. r \in Seq(Metadata)
  BY <1>1, ExceptSeq
<1>3. txQueue' = [txQueue EXCEPT ![n] = r] /\ UNCHANGED <<notes, usedIDs>>
  BY DEF Restamps
<1>4. txQueue'[n] = r /\ \A k \in Nodes \ {n} : txQueue'[k] = txQueue[k]
  BY <1>1, <1>3
<1>5. DOMAIN r = DOMAIN q /\ \A j \in DOMAIN q : r[j].pdu = q[j].pdu /\ r[j].rx = q[j].rx
  BY DEF Restamps
<1>6. QueueTypes'
  <2>1. txQueue' \in [Nodes -> Seq(Metadata)]
    BY <1>1, <1>2, <1>3
  <2> QED BY <1>3, <2>1 DEF ResultInv, QueueTypes
<1> HIDE DEF q, r
<1>7. \A k \in Nodes :
        /\ DOMAIN txQueue'[k] = DOMAIN txQueue[k]
        /\ \A j \in DOMAIN txQueue[k] :
             txQueue'[k][j].pdu = txQueue[k][j].pdu /\ txQueue'[k][j].rx = txQueue[k][j].rx
  BY <1>4, <1>5 DEF q
<1>8. QueuedAreAccepted'
  BY <1>3, <1>7 DEF ResultInv, QueuedAreAccepted, DistinctSegments
<1>9. NoneForgotten'
  <2>1. \A u \in usedIDs : u[1] \in Nodes
    BY DEF ResultInv, Accepted
  <2> QED BY <1>3, <1>7, <2>1 DEF ResultInv, NoneForgotten, Queued, Reported
<1> QED BY <1>3, <1>6, <1>8, <1>9 DEF ResultInv, UsedOnce, NotesAreOfAccepted, OneResult


LEMMA ConcludeKeepsResults ==
  ASSUME ResultInv, NEW n \in Nodes, NEW i \in DOMAIN txQueue[n],
         NEW port \in Ports, NEW ok \in BOOLEAN, Concludes(n, i, port, ok)
  PROVE  ResultInv'
<1>0. PICK ID : ID = txQueue[n][i].pdu.ID
  OBVIOUS
<1> DEFINE q == txQueue[n]
           w == Without(q, i)
           note == [ID |-> ID, port |-> port, ok |-> ok]
           s == notes[n]
           v == <<n, q[i].pdu, q[i].rx>>
<1>1. /\ q \in Seq(Metadata) /\ q[i] \in Metadata /\ i \in DOMAIN q
      /\ txQueue \in [Nodes -> Seq(Metadata)] /\ notes \in [Nodes -> Seq(Note)]
  BY EntryType DEF ResultInv, QueueTypes
<1>2. DistinctSegments(q) /\ \A j \in DOMAIN q : <<n, q[j].pdu, q[j].rx>> \in usedIDs
  BY DEF ResultInv, QueuedAreAccepted
<1>3. /\ w \in Seq(Metadata) /\ DistinctSegments(w)
      /\ \A k \in DOMAIN w : \E j \in DOMAIN q : j # i /\ w[k] = q[j]
      /\ \A j \in DOMAIN q : j # i => \E k \in DOMAIN w : w[k] = q[j]
  BY <1>1, <1>2, EraseEntry
<1>4. note \in Note /\ note.ID = ID /\ q[i].pdu.ID = ID
  BY <1>0, <1>1 DEF Note, Metadata, PDU
<1>5. s \in Seq(Note)
  BY <1>1
<1> HIDE DEF s, note, w, q
<1>6. /\ Append(s, note) \in Seq(Note)
      /\ DOMAIN Append(s, note) = DOMAIN s \union {Len(s) + 1}
      /\ Len(s) + 1 \notin DOMAIN s
      /\ Append(s, note)[Len(s) + 1] = note
      /\ \A j \in DOMAIN s : Append(s, note)[j] = s[j]
  BY <1>4, <1>5, AppendEntry
<1>7. /\ txQueue' = [txQueue EXCEPT ![n] = w]
      /\ notes' = [notes EXCEPT ![n] = Append(s, note)]
      /\ usedIDs' = usedIDs
  BY <1>0 DEF Concludes, Notify, w, q, s, note
<1>8. /\ txQueue'[n] = w /\ notes'[n] = Append(s, note)
      /\ \A k \in Nodes \ {n} : txQueue'[k] = txQueue[k] /\ notes'[k] = notes[k]
  BY <1>1, <1>7
<1>9. QueueTypes'
  BY <1>1, <1>3, <1>6, <1>7 DEF QueueTypes
<1>10. QueuedAreAccepted'
  <2>1. \A k \in DOMAIN w : <<n, w[k].pdu, w[k].rx>> \in usedIDs
    BY <1>2, <1>3
  <2>2. ASSUME NEW k \in Nodes
        PROVE  /\ DistinctSegments(txQueue'[k])
               /\ \A j \in DOMAIN txQueue'[k] :
                    <<k, txQueue'[k][j].pdu, txQueue'[k][j].rx>> \in usedIDs'
    <3>1. CASE k = n
      BY <1>3, <1>7, <1>8, <2>1, <3>1
    <3>2. CASE k # n
      BY <1>7, <1>8, <3>2 DEF ResultInv, QueuedAreAccepted
    <3> QED BY <3>1, <3>2
  <2> QED BY <2>2 DEF QueuedAreAccepted, DistinctSegments
<1>11. v \in usedIDs /\ v[1] = n /\ v[2] = q[i].pdu
  BY <1>1, <1>2
<1> HIDE DEF v
<1>12. NotesAreOfAccepted'
  <2>1. ASSUME NEW j \in DOMAIN Append(s, note)
        PROVE  \E u \in usedIDs : u[1] = n /\ u[2].ID = Append(s, note)[j].ID
    <3>1. CASE j \in DOMAIN s
      BY <1>6, <3>1 DEF ResultInv, NotesAreOfAccepted, s
    <3>2. CASE j = Len(s) + 1
      BY <1>4, <1>6, <1>11, <3>2
    <3> QED BY <1>6, <3>1, <3>2
  <2> QED BY <1>7, <1>8, <2>1 DEF ResultInv, NotesAreOfAccepted
<1>13. Queued(n, ID) /\ ~Reported(n, ID)
  <2>1. Queued(n, ID)
    BY <1>1, <1>4 DEF Queued, q
  <2>2. Queued(v[1], v[2].ID) # Reported(v[1], v[2].ID)
    BY <1>11 DEF ResultInv, NoneForgotten
  <2> QED BY <1>4, <1>11, <2>1, <2>2 DEF Queued, Reported
<1>14. NoneForgotten'
  <2>1. ASSUME NEW u \in usedIDs
        PROVE  Queued(u[1], u[2].ID)' # Reported(u[1], u[2].ID)'
    <3>1. u[1] \in Nodes /\ Queued(u[1], u[2].ID) # Reported(u[1], u[2].ID)
      BY DEF ResultInv, Accepted, NoneForgotten
    <3>2. CASE u[1] # n
      BY <1>8, <3>1, <3>2 DEF Queued, Reported
    <3>3. CASE u[1] = n /\ u[2].ID = ID
      <4>1. Reported(n, ID)'
        BY <1>4, <1>6, <1>8 DEF Reported
      <4>2. \A k \in DOMAIN w : w[k].pdu.ID # ID
        BY <1>1, <1>2, <1>3, <1>4 DEF DistinctSegments
      <4>3. ~Queued(n, ID)'
        BY <1>8, <4>2 DEF Queued
      <4> QED BY <3>3, <4>1, <4>3 DEF Queued, Reported
    <3>4. CASE u[1] = n /\ u[2].ID # ID
      <4>1. (\E k \in DOMAIN w : w[k].pdu.ID = u[2].ID)
              = (\E j \in DOMAIN q : q[j].pdu.ID = u[2].ID)
        BY <1>3, <1>4, <3>4
      <4>2. (\E j \in DOMAIN Append(s, note) : Append(s, note)[j].ID = u[2].ID)
              = (\E j \in DOMAIN s : s[j].ID = u[2].ID)
        BY <1>4, <1>6, <3>4
      <4> QED BY <1>8, <3>1, <3>4, <4>1, <4>2 DEF Queued, Reported, q, s
    <3> QED BY <3>2, <3>3, <3>4
  <2> QED BY <1>7, <2>1 DEF NoneForgotten
<1>15. OneResult'
  <2>1. \A j \in DOMAIN s : s[j].ID # ID
    BY <1>13 DEF Reported, s
  <2>2. \A j, k \in DOMAIN Append(s, note) :
          Append(s, note)[j].ID = Append(s, note)[k].ID => j = k
    BY <1>4, <1>6, <2>1 DEF ResultInv, OneResult, s
  <2> QED BY <1>8, <2>2 DEF ResultInv, OneResult
<1> QED BY <1>7, <1>9, <1>10, <1>12, <1>14, <1>15 DEF ResultInv, UsedOnce

LEMMA ResultsInductive ==
  ASSUME ResultInv, [Next]_vars
  PROVE  ResultInv'
<1>1. QueueStep
  BY StepEffect DEF ResultInv
<1>2. CASE UNCHANGED <<txQueue, notes, usedIDs>>
  BY <1>2 DEF ResultInv, QueueTypes, UsedOnce, QueuedAreAccepted, NotesAreOfAccepted,
              NoneForgotten, OneResult, DistinctSegments, Queued, Reported
<1> QED BY <1>1, <1>2, AcceptKeepsResults, RestampKeepsResults, ConcludeKeepsResults
        DEF QueueStep

LEMMA InitResults == Init => ResultInv
BY DEF Init, ResultInv, QueueTypes, UsedOnce, QueuedAreAccepted, NotesAreOfAccepted,
       NoneForgotten, OneResult, DistinctSegments

THEOREM ResultInvariant == Spec => []ResultInv
<1>1. ResultInv /\ [Next]_vars => ResultInv'
  BY ResultsInductive
<1> QED BY <1>1, InitResults, PTL DEF Spec

\* transport.cpp:220-303: no segment gets two results, whatever late
\* acknowledgements, timeouts and results of frames still come for it.
THEOREM OneResultEach == Spec => []OneResult
<1>1. ResultInv => OneResult
  BY DEF ResultInv
<1> QED BY <1>1, ResultInvariant, PTL

\* transport.cpp:92-134, 225-228: an accepted segment is waiting in the queue of
\* its sender or has had its result, never both and never neither.
THEOREM NothingForgotten == Spec => []NoneForgotten
<1>1. ResultInv => NoneForgotten
  BY DEF ResultInv
<1> QED BY <1>1, ResultInvariant, PTL

---------------------------------------------------------------------------
(* What travels is genuine: a segment as it was accepted, or the           *)
(* acknowledgement of one that a node that answers for its destination has *)
(* been handed.                                                            *)

Frame  == [id : 1..MaxFrames, rx : Hops, pdu : PDU, sent : BOOLEAN]
Packet == [tx : Nodes, rx : Hops, id : 0..MaxFrames, pdu : PDU, ups : Nat]

HandedOver(ID) ==
  \E u \in usedIDs : u[2].ID = ID /\ \E m \in Answerers(u[3]) : <<u[1], ID>> \in delivered[m]

Genuine(tx, rx, pdu) ==
  IF pdu.ACKResponse THEN rx \in Nodes /\ HandedOver(pdu.ID)
                     ELSE <<tx, pdu, rx>> \in usedIDs

GenuineFrames(n) == {f \in Frame : Genuine(n, f.rx, f.pdu)}
GenuinePackets   == {p \in Packet : Genuine(p.tx, p.rx, p.pdu)}

FramesGenuine ==
  /\ pending \in [Nodes -> Seq(Frame)]
  /\ \A n \in Nodes : pending[n] \in Seq(GenuineFrames(n))

\* What a device remembers it has handed to an application.
RememberedIsDelivered ==
  /\ lastIds \in [Nodes -> Seq(IDs)]
  /\ delivered \in [Nodes -> SUBSET (Nodes \X IDs)]
  /\ \A n \in Nodes : \A i \in DOMAIN lastIds[n] :
       \E u \in usedIDs : u[2].ID = lastIds[n][i] /\ <<u[1], lastIds[n][i]>> \in delivered[n]

NetInv == FramesGenuine /\ net \subseteq GenuinePackets /\ RememberedIsDelivered

\* The histories only grow, and what was genuine stays so.
Grows ==
  /\ usedIDs \subseteq usedIDs'
  /\ \A n \in Nodes : delivered[n] \subseteq delivered'[n]

LEMMA GenuineStays ==
  ASSUME Grows
  PROVE  /\ \A n \in Nodes : GenuineFrames(n) \subseteq GenuineFrames(n)'
         /\ GenuinePackets \subseteq GenuinePackets'
<1>1. ASSUME NEW ID, HandedOver(ID)
      PROVE  HandedOver(ID)'
  <2>1. PICK u \in usedIDs : u[2].ID = ID /\
          \E m \in Answerers(u[3]) : <<u[1], ID>> \in delivered[m]
    BY <1>1 DEF HandedOver
  <2>2. PICK m \in Answerers(u[3]) : <<u[1], ID>> \in delivered[m]
    BY <2>1
  <2>3. m \in Nodes
    BY DEF Answerers
  <2> QED BY <2>1, <2>2, <2>3 DEF Grows, HandedOver
<1>2. ASSUME NEW tx, NEW rx, NEW pdu, Genuine(tx, rx, pdu)
      PROVE  Genuine(tx, rx, pdu)'
  BY <1>1, <1>2 DEF Genuine, Grows
<1> QED BY <1>2 DEF GenuineFrames, GenuinePackets

\* Of the frames below: one more, one less, or the oldest one sent.
PendingStep(n) ==
  \/ UNCHANGED pending
  \/ \E f \in GenuineFrames(n)' : pending' = [pending EXCEPT ![n] = Append(@, f)]
  \/ pending[n] # <<>> /\ pending' = [pending EXCEPT ![n] = Tail(@)]
  \/ pending[n] # <<>> /\ pending' = [pending EXCEPT ![n][1].sent = TRUE]

LEMMA PendingKept ==
  ASSUME FramesGenuine, Grows, NEW n \in Nodes, PendingStep(n)
  PROVE  FramesGenuine'
<1> DEFINE G == GenuineFrames(n)'
           s == pending[n]
<1>1. pending \in [Nodes -> Seq(Frame)]
  BY DEF FramesGenuine
<1>2. ASSUME NEW k \in Nodes
      PROVE  pending[k] \in Seq(GenuineFrames(k)')
  <2>1. pending[k] \in Seq(GenuineFrames(k)) /\ GenuineFrames(k) \subseteq GenuineFrames(k)'
    BY GenuineStays DEF FramesGenuine
  <2> QED BY <2>1, SeqMonotonic
<1>3. s \in Seq(G) /\ \A f \in G : f \in Frame
  BY <1>2 DEF GenuineFrames
<1>4. CASE UNCHANGED pending
  BY <1>1, <1>2, <1>4 DEF FramesGenuine
<1>5. ASSUME NEW t \in Seq(G), pending' = [pending EXCEPT ![n] = t]
      PROVE  FramesGenuine'
  <2>1. t \in Seq(Frame)
    BY <1>3, SeqMonotonic
  <2>2. pending' \in [Nodes -> Seq(Frame)]
    BY <1>1, <1>5, <2>1
  <2>3. pending'[n] = t /\ \A k \in Nodes \ {n} : pending'[k] = pending[k]
    BY <1>1, <1>5
  <2>4. \A k \in Nodes : pending'[k] \in Seq(GenuineFrames(k)')
    BY <1>2, <1>5, <2>3
  <2> QED BY <2>2, <2>4 DEF FramesGenuine
<1>6. ASSUME NEW f \in G, pending' = [pending EXCEPT ![n] = Append(@, f)]
      PROVE  FramesGenuine'
  BY <1>3, <1>5, <1>6, AppendEntry
<1>7. CASE pending[n] # <<>> /\ pending' = [pending EXCEPT ![n] = Tail(@)]
  BY <1>3, <1>5, <1>7, HeadTailProperties
<1>8. CASE pending[n] # <<>> /\ pending' = [pending EXCEPT ![n][1].sent = TRUE]
  <2> DEFINE f == [s[1] EXCEPT !.sent = TRUE]
  <2>1. 1 \in 1..Len(s) /\ s[1] \in G
    <3>1. Len(s) \in Nat \ {0}
      BY <1>3, <1>8, EmptySeq
    <3> QED BY <1>3, <3>1, ElementOfSeq
  <2>2. f \in Frame /\ f.rx = s[1].rx /\ f.pdu = s[1].pdu
    BY <1>3, <2>1 DEF Frame
  <2>3. f \in G
    <3>1. PICK h : h = s[1]
      OBVIOUS
    <3>2. PICK g : g = f
      OBVIOUS
    <3>3. Genuine(n, h.rx, h.pdu)'
      BY <2>1, <3>1 DEF GenuineFrames
    <3>4. g \in Frame /\ g.rx = h.rx /\ g.pdu = h.pdu
      BY <2>2, <3>1, <3>2
    <3>5. Genuine(n, g.rx, g.pdu)'
      BY <3>3, <3>4
    <3>6. g \in G
      BY <3>4, <3>5 DEF GenuineFrames
    <3> QED BY <3>2, <3>6
  <2> HIDE DEF G
  <2>4. [s EXCEPT ![1] = f] \in Seq(G)
    BY <1>3, <2>1, <2>3, ExceptSeq
  <2>5. pending' = [pending EXCEPT ![n] = [s EXCEPT ![1] = f]]
    BY <1>8
  <2> HIDE DEF f, s
  <2> QED BY <1>5, <2>4, <2>5
<1> QED BY <1>4, <1>6, <1>7, <1>8 DEF PendingStep

LEMMA FreeId ==
  ASSUME NEW n \in Nodes, FreeFrameIds(n) # {}
  PROVE  First(FreeFrameIds(n)) \in FreeFrameIds(n) /\ First(FreeFrameIds(n)) \in 1..MaxFrames
<1>1. FreeFrameIds(n) \in SUBSET Nat /\ FreeFrameIds(n) \subseteq 1..MaxFrames
  BY DEF FreeFrameIds
<1> QED BY <1>1, FirstIsLeast

LEMMA NewFrame ==
  ASSUME NEW n \in Nodes, NEW id \in 1..MaxFrames, NEW rx \in Hops, NEW pdu \in PDU,
         Genuine(n, rx, pdu)',
         pending' = [pending EXCEPT ![n] = Append(@, MacFrame(id, rx, pdu))]
  PROVE  PendingStep(n)
<1> DEFINE f == MacFrame(id, rx, pdu)
<1>1. f \in Frame /\ f.rx = rx /\ f.pdu = pdu
  BY DEF MacFrame, Frame
<1> HIDE DEF f
<1>2. f \in GenuineFrames(n)'
  BY <1>1 DEF GenuineFrames
<1>3. pending' = [pending EXCEPT ![n] = Append(@, f)]
  BY DEF f
<1> QED BY <1>2, <1>3 DEF PendingStep

\* What the server sends on is what it was sent.
LEMMA ServerPackets ==
  ASSUME NEW tx \in Nodes, NEW rx, NEW pdu \in PDU, NEW ups \in Nat,
         Genuine(tx, rx, pdu)'
  PROVE  ThroughServer(tx, rx, pdu, ups) \subseteq GenuinePackets'
<1>1. ASSUME NEW m \in Nodes \intersect {rx}
      PROVE  [tx |-> tx, rx |-> m, id |-> 0, pdu |-> pdu, ups |-> ups] \in GenuinePackets'
  <2> DEFINE p == [tx |-> tx, rx |-> m, id |-> 0, pdu |-> pdu, ups |-> ups]
  <2>1. p \in Packet /\ p.tx = tx /\ p.rx = rx /\ p.pdu = pdu
    BY DEF Packet, Hops
  <2> HIDE DEF p
  <2>2. Genuine(p.tx, p.rx, p.pdu)'
    BY <2>1
  <2>3. p \in GenuinePackets'
    BY <2>1, <2>2 DEF GenuinePackets
  <2> QED BY <2>3 DEF p
<1> QED BY <1>1 DEF ThroughServer

\* Of the network: less, or genuine packets more.
NetStep == \A p \in net' : p \in net \/ p \in GenuinePackets'

LEMMA RoutingSendStep ==
  ASSUME NEW n \in Nodes, NEW rx \in Hops, NEW pdu \in PDU, NEW id,
         Routing_send(n, rx, pdu, id), Genuine(n, rx, pdu)'
  PROVE  PendingStep(n) /\ NetStep
<1>1. CASE UNCHANGED pending /\ net' = net \union ThroughServer(n, rx, pdu, 1)
  <2>1. ThroughServer(n, rx, pdu, 1) \subseteq GenuinePackets'
    BY ServerPackets
  <2> QED BY <1>1, <2>1 DEF PendingStep, NetStep
<1>2. CASE /\ FreeFrameIds(n) # {} /\ id = First(FreeFrameIds(n))
           /\ pending' = [pending EXCEPT ![n] = Append(@, MacFrame(id, rx, pdu))]
           /\ UNCHANGED net
  BY <1>2, FreeId, NewFrame DEF NetStep
<1> QED BY <1>1, <1>2 DEF Routing_send

\* What is genuine depends on the histories only.
LEMMA Unmoved ==
  ASSUME UNCHANGED <<usedIDs, delivered>>, NEW tx, NEW rx, NEW pdu, Genuine(tx, rx, pdu)
  PROVE  Genuine(tx, rx, pdu)'
BY DEF Genuine, HandedOver, Answerers, Uplink

\* Steps that hand nothing to an application.
LEMMA QuietNet ==
  ASSUME NetInv, usedIDs \subseteq usedIDs', UNCHANGED <<lastIds, delivered>>,
         NEW n \in Nodes, PendingStep(n), NetStep
  PROVE  NetInv' /\ Grows
<1>1. Grows
  BY DEF Grows
<1>2. FramesGenuine'
  BY <1>1, PendingKept DEF NetInv
<1>3. (net \subseteq GenuinePackets)'
  BY <1>1, GenuineStays DEF NetInv, NetStep
<1>4. RememberedIsDelivered'
  BY DEF NetInv, RememberedIsDelivered
<1> QED BY <1>1, <1>2, <1>3, <1>4 DEF NetInv

LEMMA SendNet ==
  ASSUME NetInv, NEW n \in Nodes, NEW rx \in Hops, NEW port \in Ports,
         NEW ack \in BOOLEAN, NEW ID \in IDs, Transport_send(n, rx, port, ack, ID)
  PROVE  NetInv' /\ Grows
<1> DEFINE pdu == Segment(ID, port, ack)
<1>1. PICK id \in 0..MaxFrames : Routing_send(n, rx, pdu, id)
  BY DEF Transport_send
<1>2. pdu \in PDU /\ ~pdu.ACKResponse
  BY DEF Segment, PDU
<1>3. /\ usedIDs' = usedIDs \union {<<n, pdu, rx>>}
      /\ UNCHANGED <<lastIds, delivered>>
  BY DEF Transport_send, upVars
<1> HIDE DEF pdu
<1>4. Genuine(n, rx, pdu)'
  BY <1>2, <1>3 DEF Genuine
<1>5. PendingStep(n) /\ NetStep
  BY <1>1, <1>2, <1>4, RoutingSendStep
<1> QED BY <1>3, <1>5, QuietNet

LEMMA CheckNet ==
  ASSUME NetInv, ResultInv, NEW n \in Nodes, _checkTxQueueMetadata(n)
  PROVE  NetInv' /\ Grows
<1> DEFINE I == {i \in DOMAIN txQueue[n] : txQueue[n][i].ackTimeout = Expired}
           i == First(I)
<1>1. I = Indices(n, LAMBDA m : m.ackTimeout = Expired)
  BY DEF Indices
<1>2. /\ UNCHANGED <<lowerVars, net>> \/ (I # {} /\ _resendSegment(n, i))
      /\ UNCHANGED <<lastIds, delivered, usedIDs>>
  BY <1>1 DEF _checkTxQueueMetadata, upVars
<1>3. PendingStep(n) /\ NetStep
  <2>1. CASE UNCHANGED <<lowerVars, net>>
    BY <2>1 DEF lowerVars, PendingStep, NetStep
  <2>2. CASE I # {} /\ _resendSegment(n, i)
    <3>1. i \in DOMAIN txQueue[n]
      BY <2>2, FoundIndex DEF ResultInv
    <3> HIDE DEF i
    <3>2. PICK pdu, rx : pdu = txQueue[n][i].pdu /\ rx = txQueue[n][i].rx
      OBVIOUS
    <3>3. <<n, pdu, rx>> \in usedIDs
      BY <3>1, <3>2 DEF ResultInv, QueuedAreAccepted
    <3>4. pdu \in PDU /\ ~pdu.ACKResponse /\ rx \in Hops
      BY <3>3 DEF ResultInv, Accepted
    <3>5. Genuine(n, rx, pdu)'
      BY <1>2, <3>3, <3>4 DEF Genuine
    <3>6. \/ \E id \in 0..MaxFrames : Routing_send(n, rx, pdu, id)
          \/ UNCHANGED <<pending, net>>
      BY <2>2, <3>2 DEF _resendSegment, Routing_sendFails, lowerVars
    <3> QED BY <3>4, <3>5, <3>6, RoutingSendStep DEF PendingStep, NetStep
  <2> QED BY <1>2, <2>1, <2>2
<1> QED BY <1>2, <1>3, QuietNet

LEMMA FrameSentNet ==
  ASSUME NetInv, NEW n \in Nodes, FrameSent(n)
  PROVE  NetInv' /\ Grows
<1>0. PICK f, p : /\ f = Head(pending[n])
                  /\ p = [tx |-> n, rx |-> f.rx, id |-> f.id, pdu |-> f.pdu, ups |-> 0]
  OBVIOUS
<1>1. /\ pending[n] # <<>> /\ net' = net \union {p}
      /\ pending' = [pending EXCEPT ![n][1].sent = TRUE]
      /\ UNCHANGED <<lastIds, delivered, usedIDs>>
  BY <1>0 DEF FrameSent, histVars, upVars
<1>2. p \in GenuinePackets'
  <2>1. f \in GenuineFrames(n)
    BY <1>0, <1>1, HeadTailProperties DEF NetInv, FramesGenuine
  <2>2. f \in Frame /\ Genuine(n, f.rx, f.pdu)
    BY <2>1 DEF GenuineFrames
  <2>3. p \in Packet /\ p.tx = n /\ p.rx = f.rx /\ p.pdu = f.pdu
    BY <1>0, <2>2 DEF Packet, Frame
  <2>4. Genuine(p.tx, p.rx, p.pdu)'
    BY <1>1, <2>2, <2>3, Unmoved
  <2> QED BY <2>3, <2>4 DEF GenuinePackets
<1> QED BY <1>1, <1>2, QuietNet DEF PendingStep, NetStep

\* The ring holds what it held, or all of it but the oldest, and what is new.
LEMMA RememberedIds ==
  ASSUME NEW ring \in Seq(IDs), NEW id \in IDs
  PROVE  /\ Remember(ring, id) \in Seq(IDs)
         /\ \A k \in DOMAIN Remember(ring, id) :
              \/ Remember(ring, id)[k] = id
              \/ \E j \in DOMAIN ring : ring[j] = Remember(ring, id)[k]
<1>1. CASE Len(ring) < RingSize
  BY <1>1, AppendEntry DEF Remember
<1>2. CASE ~(Len(ring) < RingSize)
  <2>1. Len(ring) \in Nat /\ DOMAIN ring = 1..Len(ring)
    BY LenProperties
  <2>2. ring # <<>>
    BY <1>2, EmptySeq
  <2>3. /\ Tail(ring) \in Seq(IDs) /\ Len(Tail(ring)) = Len(ring) - 1
        /\ \A k \in 1..Len(Tail(ring)) : Tail(ring)[k] = ring[k + 1]
    BY <2>2, HeadTailProperties
  <2>4. DOMAIN Tail(ring) = 1..(Len(ring) - 1)
    BY <2>3, LenProperties
  <2>5. \A k \in DOMAIN Tail(ring) : k + 1 \in DOMAIN ring /\ Tail(ring)[k] = ring[k + 1]
    BY <2>1, <2>3, <2>4
  <2>6. /\ Append(Tail(ring), id) \in Seq(IDs)
        /\ \A k \in DOMAIN Append(Tail(ring), id) :
             \/ Append(Tail(ring), id)[k] = id
             \/ k \in DOMAIN Tail(ring) /\ Append(Tail(ring), id)[k] = Tail(ring)[k]
    BY <2>3, AppendEntry
  <2>7. Remember(ring, id) = Append(Tail(ring), id)
    BY <1>2 DEF Remember
  <2> QED BY <2>5, <2>6, <2>7
<1> QED BY <1>1, <1>2

\* A segment handed to the application, or one that was before.
LEMMA KeepDelivers ==
  ASSUME NetInv, ResultInv, NEW n \in Nodes, NEW p \in net, ~p.pdu.ACKResponse,
         KeepNewSegment(n, p), usedIDs' = usedIDs
  PROVE  /\ RememberedIsDelivered' /\ Grows
         /\ <<p.tx, p.pdu, p.rx>> \in usedIDs
         /\ <<p.tx, p.pdu.ID>> \in delivered'[n]
<1> DEFINE ring == lastIds[n]
           id == p.pdu.ID
           v == <<p.tx, p.pdu, p.rx>>
<1>1. p \in Packet /\ v \in usedIDs
  BY DEF NetInv, GenuinePackets, Genuine
<1>2. p.tx \in Nodes /\ id \in IDs /\ v[1] = p.tx /\ v[2] = p.pdu
  BY <1>1 DEF Packet, PDU
<1>3. /\ lastIds \in [Nodes -> Seq(IDs)] /\ ring \in Seq(IDs)
      /\ delivered \in [Nodes -> SUBSET (Nodes \X IDs)]
  BY DEF NetInv, RememberedIsDelivered
<1> HIDE DEF v
<1>4. CASE ~Remembers(ring, id)
  <2> DEFINE new == Remember(ring, id)
  <2>1. /\ lastIds' = [lastIds EXCEPT ![n] = new]
        /\ delivered' = [delivered EXCEPT ![n] = @ \union {<<p.tx, id>>}]
    BY <1>4 DEF KeepNewSegment
  <2>2. /\ new \in Seq(IDs)
        /\ \A k \in DOMAIN new : new[k] = id \/ \E j \in DOMAIN ring : ring[j] = new[k]
    BY <1>2, <1>3, RememberedIds
  <2> HIDE DEF new, id
  <2>3. /\ lastIds'[n] = new /\ delivered'[n] = delivered[n] \union {<<p.tx, id>>}
        /\ \A m \in Nodes \ {n} : lastIds'[m] = lastIds[m] /\ delivered'[m] = delivered[m]
    BY <1>3, <2>1
  <2>4. /\ lastIds' \in [Nodes -> Seq(IDs)]
        /\ delivered' \in [Nodes -> SUBSET (Nodes \X IDs)]
    BY <1>2, <1>3, <2>1, <2>2
  <2>5. ASSUME NEW k \in DOMAIN new
        PROVE  \E u \in usedIDs : u[2].ID = new[k] /\ <<u[1], new[k]>> \in delivered'[n]
    <3>1. CASE new[k] = id
      BY <1>1, <1>2, <2>3, <3>1 DEF id
    <3>2. CASE \E j \in DOMAIN ring : ring[j] = new[k]
      BY <2>3, <3>2 DEF NetInv, RememberedIsDelivered
    <3> QED BY <2>2, <3>1, <3>2
  <2>6. RememberedIsDelivered'
    BY <2>3, <2>4, <2>5 DEF NetInv, RememberedIsDelivered
  <2>7. Grows
    BY <2>3 DEF Grows
  <2> QED BY <1>1, <2>3, <2>6, <2>7 DEF v, id
<1>5. CASE Remembers(ring, id)
  <2>1. UNCHANGED <<lastIds, delivered>>
    BY <1>5 DEF KeepNewSegment, upVars
  <2>2. PICK j \in DOMAIN ring : ring[j] = id
    BY <1>5 DEF Remembers
  <2>3. PICK u \in usedIDs : u[2].ID = id /\ <<u[1], id>> \in delivered[n]
    BY <2>2 DEF NetInv, RememberedIsDelivered
  <2>4. u = v
    BY <1>1, <1>2, <2>3 DEF ResultInv, UsedOnce
  <2>5. RememberedIsDelivered' /\ Grows
    BY <2>1 DEF NetInv, RememberedIsDelivered, Grows
  <2> QED BY <1>1, <1>2, <2>1, <2>3, <2>4, <2>5 DEF v
<1> QED BY <1>4, <1>5

\* A segment answered by its destination or in its place, and perhaps sent on.
LEMMA ReceptionNet ==
  ASSUME NetInv, ResultInv, NEW n \in Nodes, NEW p \in net, ~p.pdu.ACKResponse,
         NEW results, NEW packets,
         n \in Answerers(p.rx), AnswerSegment(n, p, results, packets),
         packets \subseteq net \union ThroughServer(p.tx, p.rx, p.pdu, p.ups + 1),
         KeepNewSegment(n, p), usedIDs' = usedIDs
  PROVE  NetInv' /\ Grows
<1> DEFINE ack == _buildAck(p.pdu)
           v == <<p.tx, p.pdu, p.rx>>
<1>1. /\ RememberedIsDelivered' /\ Grows /\ v \in usedIDs
      /\ <<p.tx, p.pdu.ID>> \in delivered'[n]
  BY KeepDelivers
<1>2. p \in Packet
  BY DEF NetInv, GenuinePackets
<1>3. /\ ack \in PDU /\ ack.ACKResponse /\ ack.ID = p.pdu.ID
      /\ p.tx \in Nodes /\ p.pdu \in PDU /\ p.ups + 1 \in Nat
  <2>1. p.tx \in Nodes /\ p.pdu \in PDU /\ p.ups + 1 \in Nat
    BY <1>2 DEF Packet
  <2>2. ack \in PDU /\ ack.ACKResponse /\ ack.ID = p.pdu.ID
    BY <2>1 DEF _buildAck, PDU
  <2> QED BY <2>1, <2>2
<1>4. v[1] = p.tx /\ v[2].ID = p.pdu.ID /\ v[3] = p.rx /\ v \in usedIDs'
  BY <1>1
<1>5. Genuine(p.tx, p.rx, p.pdu)'
  BY <1>4 DEF Genuine, v
<1> HIDE DEF ack, v
<1>6. Genuine(n, p.tx, ack)'
  <2>1. n \in Answerers(v[3])'
    BY <1>4 DEF Answerers, Uplink
  <2>2. HandedOver(p.pdu.ID)'
    BY <1>1, <1>4, <2>1 DEF HandedOver
  <2> QED BY <1>3, <2>2 DEF Genuine
<1>7. PendingStep(n)
  <2>1. CASE UNCHANGED pending
    BY <2>1 DEF PendingStep
  <2>2. CASE /\ FreeFrameIds(n) # {}
             /\ pending' = [pending EXCEPT ![n] = Append(@,
                              MacFrame(First(FreeFrameIds(n)), p.tx, ack))]
    <3>1. PICK id \in 1..MaxFrames : id = First(FreeFrameIds(n))
      BY <2>2, FreeId
    <3> QED BY <1>3, <1>6, <2>2, <3>1, NewFrame DEF Hops
  <2> QED BY <2>1, <2>2 DEF AnswerSegment, ack
<1>8. NetStep
  <2>1. ThroughServer(p.tx, p.rx, p.pdu, p.ups + 1) \subseteq GenuinePackets'
    BY <1>3, <1>5, ServerPackets
  <2>2. ThroughServer(n, p.tx, ack, 1) \subseteq GenuinePackets'
    BY <1>3, <1>6, ServerPackets
  <2>3. net' \subseteq packets \union ThroughServer(n, p.tx, ack, 1)
    BY DEF AnswerSegment, Leaves, ack
  <2> QED BY <2>1, <2>2, <2>3 DEF NetStep
<1>9. FramesGenuine'
  BY <1>1, <1>7, PendingKept DEF NetInv
<1>10. (net \subseteq GenuinePackets)'
  BY <1>1, <1>8, GenuineStays DEF NetInv, NetStep
<1> QED BY <1>1, <1>9, <1>10 DEF NetInv

LEMMA RelayNet ==
  ASSUME NetInv, ResultInv, NEW n \in Nodes,
         RelaySegment(n) \/ RelayAck(n) \/ RelayFails(n)
  PROVE  NetInv' /\ Grows
<1>1. CASE RelaySegment(n)
  <2>1. PICK p \in net :
          /\ Relayed(n, p) /\ ~p.pdu.ACKResponse /\ UNCHANGED usedIDs
          /\ AnswerSegment(n, p, <<Result(NoID, TRUE)>>, Onward(p))
          /\ KeepNewSegment(n, p)
    BY <1>1 DEF RelaySegment
  <2>2. n \in Answerers(p.rx)
    BY <2>1 DEF Relayed, Answerers
  <2>3. Onward(p) \subseteq net \union ThroughServer(p.tx, p.rx, p.pdu, p.ups + 1)
    BY DEF Onward
  <2> QED BY <2>1, <2>2, <2>3, ReceptionNet
<1>2. CASE RelayAck(n)
  <2>1. PICK p \in net :
          net' = (net \ {p}) \union ThroughServer(p.tx, p.rx, p.pdu, p.ups + 1)
    BY <1>2 DEF RelayAck, Leaves, Onward
  <2>2. UNCHANGED <<lastIds, delivered, pending, usedIDs>>
    BY <1>2 DEF RelayAck, upVars
  <2>3. p \in Packet /\ Genuine(p.tx, p.rx, p.pdu)
    BY DEF NetInv, GenuinePackets
  <2>4. p.tx \in Nodes /\ p.pdu \in PDU /\ p.ups + 1 \in Nat
    BY <2>3 DEF Packet
  <2>5. Genuine(p.tx, p.rx, p.pdu)'
    BY <2>2, <2>3, Unmoved
  <2>6. ThroughServer(p.tx, p.rx, p.pdu, p.ups + 1) \subseteq GenuinePackets'
    BY <2>4, <2>5, ServerPackets
  <2> QED BY <2>1, <2>2, <2>6, QuietNet DEF PendingStep, NetStep
<1>3. CASE RelayFails(n)
  BY <1>3, QuietNet DEF RelayFails, Leaves, histVars, upVars, PendingStep, NetStep
<1> QED BY <1>1, <1>2, <1>3

LEMMA NetInductive ==
  ASSUME NetInv, ResultInv, [Next]_vars
  PROVE  NetInv' /\ Grows
<1>1. CASE UNCHANGED vars \/ Lose
  <2>1. /\ UNCHANGED <<usedIDs, lastIds, delivered, pending>> /\ net' \subseteq net
    BY <1>1 DEF vars, lowerVars, histVars, upVars, Lose
  <2>2. CASE \E n \in Nodes : TRUE
    BY <2>1, <2>2, QuietNet DEF PendingStep, NetStep
  <2>3. CASE ~\E n \in Nodes : TRUE
    BY <2>1, <2>3 DEF NetInv, FramesGenuine, RememberedIsDelivered, GenuinePackets,
                      Packet, Grows
  <2> QED BY <2>2, <2>3
<1>2. ASSUME NEW n \in Nodes,
             \/ FrameSettled(n) \/ WanSettled(n) \/ TimeoutExpires(n)
             \/ _delete_completed_tasks(n) \/ ReceiveAck(n)
             \/ \E rx \in Hops : Transport_sendFails(n, rx)
      PROVE  NetInv' /\ Grows
  <2>1. /\ UNCHANGED <<usedIDs, lastIds, delivered>> /\ net' \subseteq net
        /\ \/ UNCHANGED pending
           \/ pending[n] # <<>> /\ pending' = [pending EXCEPT ![n] = Tail(@)]
    BY <1>2 DEF FrameSettled, WanSettled, TimeoutExpires, _delete_completed_tasks,
                ReceiveAck, Transport_sendFails, Routing_sendFails, lowerVars, histVars,
                upVars
  <2> QED BY <2>1, QuietNet DEF PendingStep, NetStep
<1>3. ASSUME NEW n \in Nodes, ReceiveSegment(n)
      PROVE  NetInv' /\ Grows
  <2>1. PICK p \in net :
          /\ p.rx = n /\ ~p.pdu.ACKResponse /\ UNCHANGED usedIDs
          /\ AnswerSegment(n, p, <<>>, net \ {p}) /\ KeepNewSegment(n, p)
    BY <1>3 DEF ReceiveSegment
  <2>2. n \in Answerers(p.rx)
    BY <2>1 DEF Answerers
  <2> QED BY <2>1, <2>2, ReceptionNet
<1> QED BY <1>1, <1>2, <1>3, SendNet, CheckNet, FrameSentNet, RelayNet DEF Next, Hops

---------------------------------------------------------------------------
(* A success that was asked for is one. *)

\* Who was handed a segment keeps it.
HandedTo(u) == \E m \in Answerers(u[3]) : <<u[1], u[2].ID>> \in delivered[m]

LEMMA HandedStays ==
  ASSUME Grows, NEW u, HandedTo(u)
  PROVE  HandedTo(u)'
BY DEF HandedTo, Grows, Answerers, Uplink

LEMMA SuccessInductive ==
  ASSUME SuccessIsAnswered, NetInv, ResultInv, [Next]_vars
  PROVE  SuccessIsAnswered'
<1>1. QueueStep /\ Grows /\ usedIDs \subseteq Accepted
  BY StepEffect, NetInductive DEF ResultInv
<1>2. ASSUME NEW u \in usedIDs, NEW i \in DOMAIN notes[u[1]],
             notes[u[1]][i].ID = u[2].ID, notes[u[1]][i].ok, u[2].ACKRequest
      PROVE  HandedTo(u)'
  <2>1. HandedTo(u)
    BY <1>2 DEF SuccessIsAnswered, HandedTo
  <2> QED BY <1>1, <2>1, HandedStays
<1>3. CASE UNCHANGED <<notes, usedIDs>>
  BY <1>2, <1>3 DEF SuccessIsAnswered, HandedTo
<1>4. ASSUME NEW n \in Nodes, NEW m \in Metadata, Accepts(n, m)
      PROVE  SuccessIsAnswered'
  <2> DEFINE v == <<n, m.pdu, m.rx>>
  <2>1. v[1] = n /\ v[2] = m.pdu
    OBVIOUS
  <2> HIDE DEF v
  <2>2. /\ notes' = notes /\ usedIDs' = usedIDs \union {v}
        /\ \A u \in usedIDs : u[2].ID # v[2].ID
    BY <1>4, <2>1 DEF Accepts, v
  <2>3. \A i \in DOMAIN notes[n] : notes[n][i].ID # v[2].ID
    BY <2>2 DEF ResultInv, NotesAreOfAccepted
  <2> QED BY <1>2, <2>1, <2>2, <2>3 DEF SuccessIsAnswered, HandedTo
<1>5. ASSUME NEW n \in Nodes, NEW i \in DOMAIN txQueue[n],
             NEW port \in Ports, NEW ok \in BOOLEAN, Concludes(n, i, port, ok)
      PROVE  SuccessIsAnswered'
  <2>1. PICK meta \in Metadata : meta = txQueue[n][i]
    BY EntryType DEF ResultInv
  <2> DEFINE s == notes[n]
             note == [ID |-> meta.pdu.ID, port |-> port, ok |-> ok]
             v == <<n, meta.pdu, meta.rx>>
  <2>2. /\ v \in usedIDs /\ v[1] = n /\ v[2] = meta.pdu /\ v[3] = meta.rx
        /\ note \in Note /\ note.ID = meta.pdu.ID /\ note.ok = ok
    BY <2>1 DEF ResultInv, QueuedAreAccepted, Note, Metadata, PDU
  <2>3. /\ notes \in [Nodes -> Seq(Note)] /\ s \in Seq(Note)
        /\ notes' = [notes EXCEPT ![n] = Append(s, note)] /\ usedIDs' = usedIDs
    BY <1>5, <2>1 DEF ResultInv, QueueTypes, Concludes, Notify
  <2> HIDE DEF v, note
  <2>4. ok /\ v[2].ACKRequest => HandedTo(v)'
    <3> SUFFICES ASSUME ok, v[2].ACKRequest PROVE HandedTo(v)'
      OBVIOUS
    <3>1. PICK p \in net : p.pdu.ACKResponse /\ p.pdu.ID = v[2].ID
      BY <1>5, <2>1, <2>2 DEF Concludes
    <3>2. HandedOver(v[2].ID)
      BY <3>1 DEF NetInv, GenuinePackets, Genuine
    <3>3. PICK u \in usedIDs : u[2].ID = v[2].ID /\
            \E m \in Answerers(u[3]) : <<u[1], v[2].ID>> \in delivered[m]
      BY <3>2 DEF HandedOver
    <3>4. u = v
      BY <2>2, <3>3 DEF ResultInv, UsedOnce
    <3>5. HandedTo(v)
      BY <3>3, <3>4 DEF HandedTo
    <3> QED BY <1>1, <2>2, <3>5, HandedStays
  <2>5. ASSUME NEW u \in usedIDs, NEW j \in DOMAIN notes'[u[1]],
               notes'[u[1]][j].ID = u[2].ID, notes'[u[1]][j].ok, u[2].ACKRequest
        PROVE  HandedTo(u)'
    <3>1. u[1] \in Nodes
      BY <1>1 DEF Accepted
    <3>2. CASE u[1] # n
      BY <1>2, <2>3, <2>5, <3>1, <3>2
    <3>3. CASE u[1] = n
      <4> HIDE DEF s
      <4>1. notes'[n] = Append(s, note)
        BY <2>3 DEF s
      <4>2. \/ j \in DOMAIN s /\ notes'[n][j] = s[j]
            \/ notes'[n][j] = note
        BY <2>2, <2>3, <2>5, <3>3, <4>1, AppendEntry
      <4>3. CASE j \in DOMAIN s /\ notes'[n][j] = s[j]
        BY <1>2, <2>5, <3>3, <4>3 DEF s
      <4>4. CASE notes'[n][j] = note
        <5>1. u = v
          BY <2>2, <2>5, <3>3, <4>4 DEF ResultInv, UsedOnce
        <5> QED BY <2>2, <2>4, <2>5, <3>3, <4>4, <5>1
      <4> QED BY <4>2, <4>3, <4>4
    <3> QED BY <3>2, <3>3
  <2> QED BY <2>3, <2>5 DEF SuccessIsAnswered, HandedTo
<1> QED BY <1>1, <1>3, <1>4, <1>5 DEF QueueStep, Restamps

LEMMA InitNet == Init => NetInv
BY EmptySeq DEF Init, NetInv, FramesGenuine, RememberedIsDelivered

THEOREM NetInvariant == Spec => []NetInv
<1>1. NetInv /\ ResultInv /\ [Next]_vars => NetInv'
  BY NetInductive
<1> QED BY <1>1, InitNet, ResultInvariant, PTL DEF Spec

\* routing.cpp:170-201, transport.cpp:180-230: whatever the routes, a segment
\* that asked for an acknowledgement is reported sent only when an application
\* of its destination, or of a gateway that answers for it, has been handed it.
THEOREM SuccessAnswered == Spec => []SuccessIsAnswered
<1>1. Init => SuccessIsAnswered
  BY DEF Init, SuccessIsAnswered
<1>2. SuccessIsAnswered /\ NetInv /\ ResultInv /\ [Next]_vars => SuccessIsAnswered'
  BY SuccessInductive
<1> QED BY <1>1, <1>2, NetInvariant, ResultInvariant, PTL DEF Spec

\* transport.cpp:180-190, 220-230: where gateways uplink only what is for the
\* other end of LoRaWAN, a segment that asked for an acknowledgement is reported
\* sent only when its destination's application has been handed it.
THEOREM SuccessIsTrue ==
  ASSUME \A u \in Uplinks : u[2] = Gateway
  PROVE  Spec => []NoFalseSuccess
<1>1. SuccessIsAnswered /\ ResultInv => NoFalseSuccess
  <2> SUFFICES ASSUME SuccessIsAnswered, ResultInv,
                      NEW u \in usedIDs, NEW i \in DOMAIN notes[u[1]],
                      notes[u[1]][i].ID = u[2].ID, notes[u[1]][i].ok, u[2].ACKRequest
               PROVE  \E n \in Holders(u[3]) : <<u[1], u[2].ID>> \in delivered[n]
    BY DEF NoFalseSuccess
  <2>1. PICK n \in Answerers(u[3]) : <<u[1], u[2].ID>> \in delivered[n]
    BY DEF SuccessIsAnswered
  <2>2. n \in Holders(u[3])
    <3>1. CASE n = u[3]
      BY <3>1 DEF Holders, Answerers
    <3>2. CASE Uplink(n, u[3])
      <4>1. u[3] = Gateway
        BY <3>2 DEF Uplink
      <4> QED BY <3>2, <4>1 DEF Holders, Uplink
    <3> QED BY <3>1, <3>2 DEF Answerers
  <2> QED BY <2>1, <2>2
<1> QED BY <1>1, SuccessAnswered, ResultInvariant, PTL

---------------------------------------------------------------------------
(* The types of what is left: tasks, and the ring with them. *)

TasksOK == tasks \in [Nodes -> SUBSET (TaskKey \X BOOLEAN)]

LEMMA TasksKept ==
  ASSUME TasksOK, ResultInv, [Next]_vars
  PROVE  TasksOK'
<1>1. CASE UNCHANGED tasks
  BY <1>1 DEF TasksOK
<1>2. ASSUME NEW n \in Nodes, NEW S \in SUBSET (TaskKey \X BOOLEAN),
             tasks' = [tasks EXCEPT ![n] = S]
      PROVE  TasksOK'
  BY <1>2 DEF TasksOK
<1>3. ASSUME NEW n \in Nodes, NEW key, Disable(n, key)
      PROVE  TasksOK'
  <2>1. ASSUME NEW t \in tasks[n]
        PROVE  <<t[1], t[2] /\ t[1] # key>> \in TaskKey \X BOOLEAN
    <3>1. t[1] \in TaskKey
      BY DEF TasksOK
    <3>2. (t[2] /\ t[1] # key) \in BOOLEAN
      BY Zenon
    <3> QED BY <3>1, <3>2, Zenon
  <2>2. {<<t[1], t[2] /\ t[1] # key>> : t \in tasks[n]} \in SUBSET (TaskKey \X BOOLEAN)
    BY <2>1, Zenon
  <2> QED BY <1>2, <1>3, <2>2 DEF Disable
<1>4. ASSUME NEW n \in Nodes, NEW i \in DOMAIN txQueue[n], StartTimeout(n, i)
      PROVE  TasksOK'
  <2> DEFINE key == [ID |-> txQueue[n][i].pdu.ID, try |-> txQueue[n][i].retries + 1]
  <2>1. txQueue[n][i] \in Metadata
    BY EntryType DEF ResultInv
  <2>2. key \in TaskKey
    BY <2>1 DEF Metadata, PDU, TaskKey
  <2>3. tasks' = [tasks EXCEPT ![n] = tasks[n] \union {<<key, TRUE>>}]
    BY <1>4 DEF StartTimeout
  <2> HIDE DEF key
  <2>4. tasks[n] \union {<<key, TRUE>>} \in SUBSET (TaskKey \X BOOLEAN)
    <3>1. <<key, TRUE>> \in TaskKey \X BOOLEAN
      BY <2>2, Zenon
    <3>2. tasks[n] \in SUBSET (TaskKey \X BOOLEAN)
      BY DEF TasksOK
    <3> QED BY <3>1, <3>2, Zenon
  <2> QED BY <1>2, <2>3, <2>4
<1>5. ASSUME NEW n \in Nodes, NEW id, _onRoutingSent(n, id) \/ _onRoutingTxError(n, id)
      PROVE  TasksOK'
  <2> DEFINE I == {i \in DOMAIN txQueue[n] : txQueue[n][i].id = id}
             i == First(I)
  <2>1. I = Indices(n, LAMBDA m : m.id = id)
    BY DEF Indices
  <2>2. UNCHANGED tasks \/ (I # {} /\ StartTimeout(n, i))
    BY <1>5, <2>1 DEF _onRoutingSent, _onRoutingTxError, EraseAndNotify
  <2>3. I # {} => i \in DOMAIN txQueue[n]
    BY FoundIndex DEF ResultInv
  <2> HIDE DEF I, i
  <2> QED BY <1>1, <1>4, <2>2, <2>3
<1>6. ASSUME NEW n \in Nodes, ReceiveAck(n) \/ RelayAck(n)
      PROVE  TasksOK'
  <2>1. UNCHANGED tasks \/ \E key : Disable(n, key)
    BY <1>6 DEF ReceiveAck, RelayAck, _ackReceived, scheduler_stop
  <2> QED BY <1>1, <1>3, <2>1
<1>7. ASSUME NEW n \in Nodes, _delete_completed_tasks(n)
      PROVE  TasksOK'
  BY <1>7 DEF _delete_completed_tasks, TasksOK
<1>8. ASSUME NEW n \in Nodes,
             \/ \E rx \in Hops, port \in Ports, ack \in BOOLEAN, ID \in IDs :
                  Transport_send(n, rx, port, ack, ID)
             \/ \E rx \in Hops : Transport_sendFails(n, rx)
             \/ FrameSent(n) \/ TimeoutExpires(n) \/ ReceiveSegment(n)
             \/ RelaySegment(n) \/ RelayFails(n)
      PROVE  TasksOK'
  BY <1>1, <1>8 DEF Transport_send, Transport_sendFails, FrameSent, TimeoutExpires,
                    ReceiveSegment, RelaySegment, RelayFails
<1>9. ASSUME NEW n \in Nodes, FrameSettled(n) \/ WanSettled(n) \/ _checkTxQueueMetadata(n)
      PROVE  TasksOK'
  BY <1>3, <1>5, <1>9 DEF FrameSettled, WanSettled, _checkTxQueueMetadata
<1> QED BY <1>1, <1>6, <1>7, <1>8, <1>9 DEF Next, Lose, vars, Hops

\* transport.cpp:60-88, transport.h: queue, ring and timeout tasks, and no two
\* segments of a queue with the same identifier.
THEOREM TypeCorrect == Spec => []TypeOK
<1>1. Init => TasksOK
  BY DEF Init, TasksOK
<1>2. TasksOK /\ ResultInv /\ [Next]_vars => TasksOK'
  BY TasksKept
<1>3. TasksOK /\ ResultInv /\ NetInv => TypeOK
  BY DEF TasksOK, ResultInv, QueueTypes, QueuedAreAccepted, DistinctSegments, NetInv,
         RememberedIsDelivered, TypeOK
<1> QED BY <1>1, <1>2, <1>3, NetInvariant, ResultInvariant, PTL DEF Spec

---------------------------------------------------------------------------
(* What is handed to an application twice has RingSize other segments in   *)
(* between.                                                                *)

\* The ring is the end of what was handed up.
RingIsEnd(ring, log) ==
  /\ Len(ring) <= RingSize /\ Len(ring) <= Len(log)
  /\ Len(ring) = RingSize \/ Len(ring) = Len(log)
  /\ \A k \in 1..Len(ring) : ring[k] = log[Len(log) - Len(ring) + k]

FarApart(log) ==
  \A i, j \in DOMAIN log : i < j /\ j - i <= RingSize => log[i] # log[j]

RingInv ==
  /\ handedUp \in [Nodes -> Seq(IDs)]
  /\ \A n \in Nodes : RingIsEnd(lastIds[n], handedUp[n]) /\ FarApart(handedUp[n])

\* Whatever is among the last RingSize values is in the ring.
LEMMA RecentIsRemembered ==
  ASSUME NEW ring \in Seq(IDs), NEW log \in Seq(IDs), RingIsEnd(ring, log),
         NEW i \in DOMAIN log, i > Len(log) - RingSize
  PROVE  Remembers(ring, log[i])
<1>1. Len(ring) \in Nat /\ Len(log) \in Nat /\ RingSize \in Nat /\ i \in 1..Len(log)
  OBVIOUS
<1>2. i > Len(log) - Len(ring)
  BY <1>1 DEF RingIsEnd
<1>3. PICK k \in Int : k = i - (Len(log) - Len(ring))
  BY <1>1
<1>4. k \in 1..Len(ring) /\ Len(log) - Len(ring) + k = i
  BY <1>1, <1>2, <1>3
<1>5. ring[k] = log[i] /\ k \in DOMAIN ring
  BY <1>1, <1>4 DEF RingIsEnd
<1> QED BY <1>5 DEF Remembers

\* Both take an identifier that is not in the ring.
LEMMA RememberNew ==
  ASSUME NEW ring \in Seq(IDs), NEW log \in Seq(IDs), RingIsEnd(ring, log), FarApart(log),
         NEW id \in IDs, ~Remembers(ring, id)
  PROVE  RingIsEnd(Remember(ring, id), Append(log, id)) /\ FarApart(Append(log, id))
<1> DEFINE new == Append(log, id)
<1>1. /\ Len(ring) \in Nat /\ Len(log) \in Nat /\ RingSize \in Nat \ {0}
      /\ DOMAIN log = 1..Len(log) /\ DOMAIN ring = 1..Len(ring)
  OBVIOUS
<1>2. /\ Len(new) = Len(log) + 1 /\ DOMAIN new = 1..(Len(log) + 1)
      /\ \A k \in 1..Len(log) : new[k] = log[k]
      /\ new[Len(log) + 1] = id
  OBVIOUS
<1> HIDE DEF new
<1>2a. /\ Len(ring) <= RingSize /\ Len(ring) <= Len(log)
       /\ Len(ring) = RingSize \/ Len(ring) = Len(log)
  BY DEF RingIsEnd
<1>2b. \A k \in 1..Len(ring) : ring[k] = log[Len(log) - Len(ring) + k]
  BY DEF RingIsEnd
<1>2c. RingSize \in Nat /\ Len(ring) \in Nat /\ Len(log) \in Nat
  BY <1>1
<1>3. RingIsEnd(Remember(ring, id), new)
  <2>1. CASE Len(ring) < RingSize
    <3>0. Len(ring) = Len(log)
      BY <1>2a, <1>2c, <2>1
    <3>1. Remember(ring, id) = Append(ring, id) /\ Len(ring) = Len(log)
      BY <2>1, <3>0 DEF Remember
    <3>2. /\ Len(Append(ring, id)) = Len(log) + 1
          /\ \A k \in 1..Len(log) : Append(ring, id)[k] = ring[k]
          /\ Append(ring, id)[Len(log) + 1] = id
      BY <3>1
    <3>3. \A k \in 1..Len(log) : ring[k] = log[k]
      <4>1. \A k \in 1..Len(log) : Len(log) - Len(ring) + k = k
        BY <1>1, <3>0
      <4> QED BY <1>2b, <3>0, <4>1
    <3>4. \A k \in 1..(Len(log) + 1) : Append(ring, id)[k] = new[k]
      BY <1>1, <1>2, <3>2, <3>3
    <3>5. PICK s : s = Append(ring, id)
      OBVIOUS
    <3>6. /\ Len(s) = Len(new) /\ Len(new) = Len(ring) + 1
          /\ \A k \in 1..Len(s) : s[k] = new[k]
      BY <1>2, <3>1, <3>2, <3>4, <3>5
    <3>7. \A k \in 1..Len(s) : Len(new) - Len(s) + k = k
      BY <1>1, <3>6
    <3>8. RingIsEnd(s, new)
      <4>1. Len(s) <= RingSize
        BY <1>1, <2>1, <3>6
      <4>2. Len(s) <= Len(new)
        BY <1>1, <3>6
      <4> QED BY <3>6, <3>7, <4>1, <4>2 DEF RingIsEnd
    <3> QED BY <3>1, <3>5, <3>8
  <2>2. CASE ~(Len(ring) < RingSize)
    <3>0. Len(ring) = RingSize
      BY <1>2a, <1>2c, <2>2
    <3>1. Remember(ring, id) = Append(Tail(ring), id) /\ Len(ring) = RingSize
      BY <2>2, <3>0 DEF Remember
    <3>2. PICK t : t = Tail(ring)
      OBVIOUS
    <3>3. /\ t \in Seq(IDs) /\ Len(t) = RingSize - 1
          /\ \A k \in 1..(RingSize - 1) : t[k] = ring[k + 1]
      BY <1>1, <3>1, <3>2
    <3>4. PICK s : s = Append(t, id)
      OBVIOUS
    <3>5. /\ Len(s) = RingSize /\ s[RingSize] = id
          /\ \A k \in 1..(RingSize - 1) : s[k] = ring[k + 1]
      <4>1. /\ Len(s) = Len(t) + 1 /\ s[Len(t) + 1] = id
            /\ \A k \in 1..Len(t) : s[k] = t[k]
        BY <3>3, <3>4
      <4>2. Len(t) + 1 = RingSize
        BY <1>2c, <3>3
      <4> QED BY <3>3, <4>1, <4>2
    <3>6. \A k \in 1..RingSize : ring[k] = log[Len(log) - RingSize + k]
      BY <1>2b, <3>0
    <3>7. RingSize <= Len(log)
      BY <1>2a, <3>0
    <3>8. ASSUME NEW k \in 1..RingSize
          PROVE  s[k] = new[Len(new) - RingSize + k]
      <4>1. CASE k = RingSize
        BY <1>1, <1>2, <3>5, <4>1
      <4>2. CASE k # RingSize
        <5>1. k \in 1..(RingSize - 1) /\ k + 1 \in 1..RingSize
          BY <1>1, <4>2
        <5>2. s[k] = log[Len(log) - RingSize + (k + 1)]
          BY <3>5, <3>6, <5>1
        <5>3. /\ Len(log) - RingSize + (k + 1) \in 1..Len(log)
              /\ Len(log) - RingSize + (k + 1) = Len(new) - RingSize + k
          BY <1>1, <1>2, <3>7, <5>1
        <5> QED BY <1>2, <5>2, <5>3
      <4> QED BY <4>1, <4>2
    <3>9. RingIsEnd(s, new)
      <4>1. RingSize <= Len(new) /\ RingSize <= RingSize
        BY <1>2, <1>2c, <3>7
      <4>2. \A k \in 1..Len(s) : s[k] = new[Len(new) - Len(s) + k]
        BY <3>5, <3>8
      <4>3. Len(s) = RingSize
        BY <3>5
      <4> QED BY <4>1, <4>2, <4>3 DEF RingIsEnd
    <3> QED BY <3>1, <3>2, <3>4, <3>9
  <2> QED BY <2>1, <2>2
<1>4. FarApart(new)
  <2>1. ASSUME NEW i \in 1..(Len(log) + 1), NEW j \in 1..(Len(log) + 1),
               i < j, j - i <= RingSize
        PROVE  new[i] # new[j]
    <3>1. i \in 1..Len(log)
      BY <1>1, <2>1
    <3>2. CASE j = Len(log) + 1
      <4>1. i > Len(log) - RingSize
        BY <1>1, <2>1, <3>1, <3>2
      <4>2. Remembers(ring, log[i])
        BY <1>1, <3>1, <4>1, RecentIsRemembered
      <4> QED BY <1>2, <3>1, <3>2, <4>2
    <3>3. CASE j # Len(log) + 1
      <4>1. j \in 1..Len(log)
        BY <1>1, <3>3
      <4> QED BY <1>1, <1>2, <2>1, <3>1, <4>1 DEF FarApart
    <3> QED BY <3>2, <3>3
  <2> QED BY <1>2, <2>1 DEF FarApart
<1> QED BY <1>3, <1>4 DEF new

\* Only the reception of a segment changes the ring.
LEMMA RingEffect ==
  ASSUME NetInv, [Next]_vars
  PROVE  \/ UNCHANGED <<lastIds, handedUp>>
         \/ \E n \in Nodes, p \in net :
              /\ ~Remembers(lastIds[n], p.pdu.ID)
              /\ lastIds' = [lastIds EXCEPT ![n] = Remember(@, p.pdu.ID)]
              /\ handedUp' = [handedUp EXCEPT ![n] = Append(@, p.pdu.ID)]
<1>1. CASE UNCHANGED vars \/ Lose
  BY <1>1 DEF vars, histVars, upVars, Lose
<1>2. ASSUME NEW n \in Nodes,
             \/ \E rx \in Hops, port \in Ports, ack \in BOOLEAN, ID \in IDs :
                  Transport_send(n, rx, port, ack, ID)
             \/ \E rx \in Hops : Transport_sendFails(n, rx)
             \/ FrameSent(n) \/ FrameSettled(n) \/ WanSettled(n) \/ TimeoutExpires(n)
             \/ _checkTxQueueMetadata(n) \/ _delete_completed_tasks(n) \/ ReceiveAck(n)
             \/ RelayAck(n) \/ RelayFails(n)
      PROVE  UNCHANGED <<lastIds, handedUp>>
  BY <1>2 DEF Transport_send, Transport_sendFails, FrameSent, FrameSettled, WanSettled,
              TimeoutExpires, _checkTxQueueMetadata, _delete_completed_tasks, ReceiveAck,
              RelayAck, RelayFails, histVars, upVars
<1>3. ASSUME NEW n \in Nodes, ReceiveSegment(n) \/ RelaySegment(n)
      PROVE  \E p \in net : KeepNewSegment(n, p)
  BY <1>3 DEF ReceiveSegment, RelaySegment
<1> QED BY <1>1, <1>2, <1>3 DEF Next, Hops, KeepNewSegment, upVars

LEMMA RingStep ==
  ASSUME NetInv, RingInv, [Next]_vars
  PROVE  RingInv'
<1>1. CASE UNCHANGED <<lastIds, handedUp>>
  BY <1>1 DEF RingInv
<1>2. ASSUME NEW n \in Nodes, NEW p \in net,
             ~Remembers(lastIds[n], p.pdu.ID),
             lastIds' = [lastIds EXCEPT ![n] = Remember(@, p.pdu.ID)],
             handedUp' = [handedUp EXCEPT ![n] = Append(@, p.pdu.ID)]
      PROVE  RingInv'
  <2> DEFINE ring == lastIds[n]
             log == handedUp[n]
  <2>0. PICK id : id = p.pdu.ID
    OBVIOUS
  <2>1. id \in IDs /\ ~Remembers(ring, id)
    BY <1>2, <2>0 DEF NetInv, GenuinePackets, Packet, PDU
  <2>2. /\ lastIds \in [Nodes -> Seq(IDs)] /\ handedUp \in [Nodes -> Seq(IDs)]
        /\ ring \in Seq(IDs) /\ log \in Seq(IDs) /\ RingIsEnd(ring, log) /\ FarApart(log)
    BY DEF NetInv, RememberedIsDelivered, RingInv
  <2>3. /\ lastIds' = [lastIds EXCEPT ![n] = Remember(ring, id)]
        /\ handedUp' = [handedUp EXCEPT ![n] = Append(log, id)]
    BY <1>2, <2>0
  <2>4. \A m \in Nodes :
          /\ lastIds'[m] = IF m = n THEN Remember(ring, id) ELSE lastIds[m]
          /\ handedUp'[m] = IF m = n THEN Append(log, id) ELSE handedUp[m]
    BY <2>2, <2>3
  <2> HIDE DEF ring, log
  <2>5. RingIsEnd(Remember(ring, id), Append(log, id)) /\ FarApart(Append(log, id))
    BY <2>1, <2>2, RememberNew
  <2>6. Append(log, id) \in Seq(IDs)
    BY <2>1, <2>2, AppendProperties
  <2>7. handedUp' \in [Nodes -> Seq(IDs)]
    BY <2>2, <2>3, <2>6
  <2>8. ASSUME NEW m \in Nodes
        PROVE  RingIsEnd(lastIds'[m], handedUp'[m]) /\ FarApart(handedUp'[m])
    BY <2>4, <2>5 DEF RingInv
  <2> QED BY <2>7, <2>8 DEF RingInv, RingIsEnd, FarApart
<1> QED BY <1>1, <1>2, RingEffect

\* transport.cpp:209-216: a segment retransmitted, or received again from the
\* network, is not handed to an application again before RingSize others, for
\* every size of the ring.
THEOREM NoneRepeatedEarly == Spec => []NoEarlyRepeat
<1>1. Init => RingInv
  BY EmptySeq DEF Init, RingInv, RingIsEnd, FarApart
<1>2. NetInv /\ RingInv /\ [Next]_vars => RingInv'
  BY RingStep
<1>3. RingInv => NoEarlyRepeat
  BY DEF RingInv, FarApart, NoEarlyRepeat
<1> QED BY <1>1, <1>2, <1>3, NetInvariant, PTL DEF Spec

---------------------------------------------------------------------------
(* What one node does leaves the others alone. *)

NodeStep(n) ==
  \/ \E rx \in Hops, port \in Ports, ack \in BOOLEAN, ID \in IDs :
       Transport_send(n, rx, port, ack, ID)
  \/ \E rx \in Hops : Transport_sendFails(n, rx)
  \/ FrameSent(n)
  \/ FrameSettled(n)
  \/ WanSettled(n)
  \/ TimeoutExpires(n)
  \/ _checkTxQueueMetadata(n)
  \/ _delete_completed_tasks(n)
  \/ ReceiveSegment(n)
  \/ ReceiveAck(n)
  \/ RelaySegment(n)
  \/ RelayAck(n)
  \/ RelayFails(n)

Event == [ID : IDs \union {NoID}, ok : BOOLEAN]

NodeTypes ==
  /\ txQueue \in [Nodes -> Seq(Metadata)]
  /\ pending \in [Nodes -> Seq(Frame)]
  /\ wanEvents \in [Nodes -> Seq(Event)]
  /\ tasks \in [Nodes -> SUBSET (TaskKey \X BOOLEAN)]

Untouched(n) ==
  /\ txQueue'[n] = txQueue[n] /\ pending'[n] = pending[n]
  /\ wanEvents'[n] = wanEvents[n] /\ tasks'[n] = tasks[n]

LEMMA HandlerLocal ==
  ASSUME NodeTypes, NEW k \in Nodes, NEW n \in Nodes \ {k}, NEW id,
         _onRoutingSent(k, id) \/ _onRoutingTxError(k, id)
  PROVE  txQueue'[n] = txQueue[n] /\ tasks'[n] = tasks[n]
<1> DEFINE i == First(Indices(k, LAMBDA m : m.id = id))
<1>1. \/ UNCHANGED <<txQueue, tasks>>
      \/ \E ok \in BOOLEAN : EraseAndNotify(k, i, ok)
      \/ StartTimeout(k, i)
  BY DEF _onRoutingSent, _onRoutingTxError
<1> HIDE DEF i
<1> QED BY <1>1 DEF NodeTypes, EraseAndNotify, StartTimeout

LEMMA SendingLocal ==
  ASSUME NodeTypes, NEW k \in Nodes, NEW n \in Nodes \ {k}, NEW rx, NEW pdu, NEW id, NEW ID,
         Routing_send(k, rx, pdu, id) \/ Routing_sendFails(k, rx, ID)
  PROVE  pending'[n] = pending[n] /\ wanEvents'[n] = wanEvents[n]
BY DEF NodeTypes, Routing_send, Routing_sendFails, _sendThroughLoRaWAN, lowerVars

LEMMA StepLocal ==
  ASSUME NodeTypes, NEW k \in Nodes, NodeStep(k), NEW n \in Nodes \ {k}
  PROVE  Untouched(n)
<1>1. ASSUME NEW rx \in Hops, NEW port \in Ports, NEW ack \in BOOLEAN, NEW ID \in IDs,
             Transport_send(k, rx, port, ack, ID)
      PROVE  Untouched(n)
  <2>1. PICK id \in 0..MaxFrames : Routing_send(k, rx, Segment(ID, port, ack), id)
    BY <1>1 DEF Transport_send
  <2>2. txQueue'[n] = txQueue[n] /\ tasks' = tasks
    BY <1>1 DEF Transport_send, NodeTypes
  <2> QED BY <2>1, <2>2, SendingLocal DEF Untouched
<1>2. ASSUME NEW rx \in Hops, Transport_sendFails(k, rx)
      PROVE  Untouched(n)
  BY <1>2, SendingLocal DEF Transport_sendFails, Untouched
<1>3. CASE FrameSent(k)
  BY <1>3 DEF FrameSent, NodeTypes, Untouched
<1>4. CASE FrameSettled(k) \/ WanSettled(k)
  <2>1. txQueue'[n] = txQueue[n] /\ tasks'[n] = tasks[n]
    BY <1>4, HandlerLocal DEF FrameSettled, WanSettled
  <2>2. pending'[n] = pending[n] /\ wanEvents'[n] = wanEvents[n]
    BY <1>4 DEF FrameSettled, WanSettled, NodeTypes
  <2> QED BY <2>1, <2>2 DEF Untouched
<1>5. CASE TimeoutExpires(k) \/ _delete_completed_tasks(k)
  BY <1>5 DEF TimeoutExpires, _delete_completed_tasks, NodeTypes, lowerVars, Untouched
<1>6. CASE _checkTxQueueMetadata(k)
  <2> DEFINE i == First(Indices(k, LAMBDA m : m.ackTimeout = Expired))
  <2>1. PICK t \in tasks[k] :
          /\ Disable(k, t[1])
          /\ \/ UNCHANGED <<txQueue, lowerVars>>
             \/ txQueue' = [txQueue EXCEPT ![k] = Without(@, i)] /\ UNCHANGED lowerVars
             \/ _resendSegment(k, i)
    BY <1>6 DEF _checkTxQueueMetadata
  <2> HIDE DEF i
  <2>2. tasks'[n] = tasks[n]
    BY <2>1 DEF Disable, NodeTypes
  <2>3. CASE UNCHANGED lowerVars
    BY <2>1, <2>2, <2>3 DEF NodeTypes, lowerVars, Untouched, _resendSegment
  <2>4. CASE _resendSegment(k, i)
    <3>1. txQueue'[n] = txQueue[n]
      BY <2>4 DEF _resendSegment, NodeTypes
    <3> QED BY <2>2, <2>4, <3>1, SendingLocal DEF _resendSegment, Untouched
  <2> QED BY <2>1, <2>3, <2>4
<1>7. CASE ReceiveSegment(k) \/ RelaySegment(k)
  <2>1. PICK p, results, packets :
          AnswerSegment(k, p, results, packets) /\ UNCHANGED <<txQueue, tasks>>
    BY <1>7 DEF ReceiveSegment, RelaySegment
  <2> QED BY <2>1 DEF AnswerSegment, Leaves, _sendThroughLoRaWAN, NodeTypes, Untouched
<1>8. CASE ReceiveAck(k) \/ RelayAck(k)
  <2>1. PICK pdu : _ackReceived(k, pdu)
    BY <1>8 DEF ReceiveAck, RelayAck
  <2>0. pending'[n] = pending[n] /\ wanEvents'[n] = wanEvents[n]
    BY <1>8 DEF ReceiveAck, RelayAck, Leaves, _sendThroughLoRaWAN, lowerVars, NodeTypes
  <2> DEFINE i == First(Indices(k, LAMBDA m : m.pdu.ID = pdu.ID))
  <2>2. \/ UNCHANGED <<txQueue, tasks>>
        \/ /\ txQueue' = [txQueue EXCEPT ![k] = Without(@, i)]
           /\ UNCHANGED tasks \/ \E key : Disable(k, key)
    BY <2>1 DEF _ackReceived, scheduler_stop
  <2> HIDE DEF i
  <2> QED BY <2>0, <2>2 DEF Disable, NodeTypes, Untouched
<1>9. CASE RelayFails(k)
  BY <1>9 DEF RelayFails, Leaves, _sendThroughLoRaWAN, NodeTypes, Untouched
<1> QED BY <1>1, <1>2, <1>3, <1>4, <1>5, <1>6, <1>7, <1>8, <1>9 DEF NodeStep

WanOK == wanEvents \in [Nodes -> Seq(Event)]

LEMMA WanAppend ==
  ASSUME WanOK, NEW n \in Nodes, NEW results \in Seq(Event), _sendThroughLoRaWAN(n, results)
  PROVE  /\ WanOK'
         /\ results # <<>> \/ wanEvents[n] # <<>> => wanEvents'[n] # <<>>
<1>1. wanEvents[n] \in Seq(Event) /\ wanEvents \in [Nodes -> Seq(Event)]
  BY DEF WanOK
<1> DEFINE w == wanEvents[n] \o results
<1>2. wanEvents' = [wanEvents EXCEPT ![n] = w]
  BY DEF _sendThroughLoRaWAN
<1>3. w \in Seq(Event) /\ Len(w) = Len(wanEvents[n]) + Len(results)
  BY <1>1, ConcatProperties
<1> HIDE DEF w
<1>4. results # <<>> \/ wanEvents[n] # <<>> => w # <<>>
  BY <1>1, <1>3, EmptySeq, LenProperties
<1> QED BY <1>1, <1>2, <1>3, <1>4 DEF WanOK

LEMMA ResultType ==
  ASSUME NEW ID \in IDs \union {NoID}, NEW ok \in BOOLEAN
  PROVE  <<Result(ID, ok)>> \in Seq(Event) /\ <<Result(ID, ok)>> # <<>>
<1>1. Result(ID, ok) \in Event
  BY DEF Result, Event
<1> HIDE DEF Result
<1> QED BY <1>1

\* What an answer leaves to be notified, after what the reception leaves.
LEMMA AnswerAppends ==
  ASSUME WanOK, NEW n \in Nodes, NEW p, NEW results \in Seq(Event), NEW packets,
         AnswerSegment(n, p, results, packets)
  PROVE  /\ WanOK'
         /\ wanEvents[n] # <<>> => wanEvents'[n] # <<>>
<1>1. ASSUME NEW ok \in BOOLEAN
      PROVE  Append(results, Result(NoID, ok)) \in Seq(Event)
  <2>1. Result(NoID, ok) \in Event
    BY DEF Result, Event
  <2> QED BY <2>1, AppendProperties
<1>2. PICK some \in Seq(Event) : _sendThroughLoRaWAN(n, some)
  BY <1>1 DEF AnswerSegment, Leaves
<1> QED BY <1>2, WanAppend

LEMMA WanKept ==
  ASSUME WanOK, ResultInv, [Next]_vars
  PROVE  WanOK'
<1>1. CASE UNCHANGED wanEvents
  BY <1>1 DEF WanOK
<1>2. ASSUME NEW n \in Nodes, WanSettled(n)
      PROVE  WanOK'
  <2>1. wanEvents[n] \in Seq(Event) /\ wanEvents[n] # <<>>
        /\ wanEvents' = [wanEvents EXCEPT ![n] = Tail(@)]
    BY <1>2 DEF WanSettled, WanOK
  <2>2. Tail(wanEvents[n]) \in Seq(Event)
    BY <2>1, HeadTailProperties
  <2> QED BY <2>1, <2>2 DEF WanOK
<1>3. ASSUME NEW n \in Nodes, NEW rx \in Hops, NEW port \in Ports, NEW ack \in BOOLEAN,
             NEW ID \in IDs, Transport_send(n, rx, port, ack, ID)
      PROVE  WanOK'
  <2>1. Segment(ID, port, ack).ID = ID
    BY DEF Segment
  <2>2. UNCHANGED wanEvents \/ _sendThroughLoRaWAN(n, <<Result(ID, TRUE)>>)
    BY <1>3, <2>1 DEF Transport_send, Routing_send
  <2> QED BY <1>1, <2>2, ResultType, WanAppend
<1>4. ASSUME NEW n \in Nodes, _checkTxQueueMetadata(n)
      PROVE  WanOK'
  <2> DEFINE I == {i \in DOMAIN txQueue[n] : txQueue[n][i].ackTimeout = Expired}
             i == First(I)
  <2>1. I = Indices(n, LAMBDA m : m.ackTimeout = Expired)
    BY DEF Indices
  <2>2. UNCHANGED wanEvents \/ (I # {} /\ _resendSegment(n, i))
    BY <1>4, <2>1 DEF _checkTxQueueMetadata, lowerVars
  <2>3. CASE I # {} /\ _resendSegment(n, i)
    <3>1. i \in DOMAIN txQueue[n]
      BY <2>3, FoundIndex DEF ResultInv
    <3> HIDE DEF I, i
    <3>2. txQueue[n][i].pdu.ID \in IDs
      BY <3>1, EntryType DEF ResultInv, Metadata, PDU
    <3>3. \/ UNCHANGED wanEvents
          \/ \E ok \in BOOLEAN : _sendThroughLoRaWAN(n, <<Result(txQueue[n][i].pdu.ID, ok)>>)
      BY <2>3 DEF _resendSegment, Routing_send, Routing_sendFails, lowerVars
    <3> QED BY <1>1, <3>2, <3>3, ResultType, WanAppend
  <2> QED BY <1>1, <2>2, <2>3
<1>5. ASSUME NEW n \in Nodes, NEW rx, Transport_sendFails(n, rx)
      PROVE  WanOK'
  BY <1>1, <1>5, ResultType, WanAppend DEF Transport_sendFails, Routing_sendFails, lowerVars
<1>6. ASSUME NEW n \in Nodes, ReceiveSegment(n) \/ RelaySegment(n)
      PROVE  WanOK'
  <2>1. PICK results \in Seq(Event) : \E p, packets : AnswerSegment(n, p, results, packets)
    BY <1>6, ResultType, EmptySeq DEF ReceiveSegment, RelaySegment
  <2> QED BY <2>1, AnswerAppends
<1>8. ASSUME NEW n \in Nodes, RelayAck(n) \/ RelayFails(n)
       PROVE  WanOK'
  BY <1>8, ResultType, WanAppend DEF RelayAck, RelayFails, Leaves
<1>7. ASSUME NEW n \in Nodes, \/ FrameSent(n) \/ FrameSettled(n) \/ TimeoutExpires(n)
                               \/ _delete_completed_tasks(n) \/ ReceiveAck(n)
      PROVE  WanOK'
  BY <1>1, <1>7 DEF FrameSent, FrameSettled, TimeoutExpires, _delete_completed_tasks,
                    ReceiveAck, lowerVars
<1> QED BY <1>1, <1>2, <1>3, <1>4, <1>5, <1>6, <1>8, <1>7 DEF Next, Lose, vars, lowerVars, Hops

\* What is known of every node.
LayerInv == ResultInv /\ NetInv /\ TasksOK /\ WanOK

LEMMA LayerTypes == LayerInv => NodeTypes
BY DEF LayerInv, ResultInv, QueueTypes, NetInv, FramesGenuine, TasksOK, WanOK, NodeTypes

THEOREM LayerInvariant == Spec => []LayerInv
<1>1. Init => LayerInv
  <2>1. Init => ResultInv
    BY InitResults
  <2> QED BY <2>1, InitNet, EmptySeq DEF Init, LayerInv, TasksOK, WanOK
<1>2. LayerInv /\ [Next]_vars => LayerInv'
  BY ResultsInductive, NetInductive, TasksKept, WanKept DEF LayerInv
<1> QED BY <1>1, <1>2, PTL DEF Spec

---------------------------------------------------------------------------
(* The retransmissions of a device that is not a gateway. The result of a  *)
(* frame is taken for the segment with the frame's identifier, so the      *)
(* number of results a segment can get is that of the frames that carry    *)
(* its identifier: one at a time, and only while no timeout is running.    *)

Tries(m) ==
  /\ m.retries <= MaxRetries + 1
  /\ m.ackTimeout = Off => m.retries <= MaxRetries

\* A queue of segments q and the frames f that are not settled.
Sound(q, f) ==
  /\ \A i, j \in DOMAIN f : f[i].id = f[j].id => i = j
  /\ \A i \in DOMAIN q : \A j \in DOMAIN f : q[i].id = f[j].id => q[i].ackTimeout = Off
  /\ \A i \in DOMAIN q : Tries(q[i])

NodeSound(n) == wanEvents[n] = <<>> /\ Sound(txQueue[n], pending[n])

LEMMA FewerEntries ==
  ASSUME NEW q, NEW f, Sound(q, f), NEW w,
         \A k \in DOMAIN w : \E j \in DOMAIN q : w[k] = q[j]
  PROVE  Sound(w, f)
BY DEF Sound

LEMMA ChangedEntry ==
  ASSUME NEW q \in Seq(Metadata), NEW f, Sound(q, f), NEW i \in DOMAIN q, NEW m, Tries(m),
         \A j \in DOMAIN f : m.id = f[j].id => m.ackTimeout = Off
  PROVE  Sound([q EXCEPT ![i] = m], f)
<1>1. /\ DOMAIN [q EXCEPT ![i] = m] = DOMAIN q
      /\ \A k \in DOMAIN q : [q EXCEPT ![i] = m][k] = IF k = i THEN m ELSE q[k]
  OBVIOUS
<1> QED BY <1>1 DEF Sound

LEMMA NewEntry ==
  ASSUME NEW q \in Seq(Metadata), NEW f, Sound(q, f), NEW m \in Metadata, Tries(m),
         \A j \in DOMAIN f : m.id = f[j].id => m.ackTimeout = Off
  PROVE  Sound(Append(q, m), f)
BY AppendEntry DEF Sound

LEMMA FreshFrame ==
  ASSUME NEW q, NEW f \in Seq(Frame), Sound(q, f), NEW g \in Frame,
         \A i \in DOMAIN q : q[i].id # g.id, \A j \in DOMAIN f : f[j].id # g.id
  PROVE  Sound(q, Append(f, g))
BY AppendEntry DEF Sound

LEMMA FirstFrameGone ==
  ASSUME NEW q, NEW f \in Seq(Frame), Sound(q, f), f # <<>>
  PROVE  /\ Sound(q, Tail(f))
         /\ \A j \in DOMAIN Tail(f) : Tail(f)[j].id # Head(f).id
         /\ \A i \in DOMAIN q : q[i].id = Head(f).id => q[i].ackTimeout = Off
<1>1. Len(f) \in Nat \ {0} /\ DOMAIN f = 1..Len(f) /\ Head(f) = f[1]
  BY EmptySeq, LenProperties, HeadTailProperties
<1>2. /\ Tail(f) \in Seq(Frame) /\ Len(Tail(f)) = Len(f) - 1
      /\ \A k \in 1..Len(Tail(f)) : Tail(f)[k] = f[k + 1]
  BY HeadTailProperties
<1>3. DOMAIN Tail(f) = 1..(Len(f) - 1)
  BY <1>2, LenProperties
<1>4. \A k \in DOMAIN Tail(f) : k + 1 \in DOMAIN f /\ k + 1 # 1 /\ Tail(f)[k] = f[k + 1]
  BY <1>1, <1>2, <1>3
<1>5. 1 \in DOMAIN f
  BY <1>1
<1>6. \A k, m \in DOMAIN Tail(f) : k + 1 = m + 1 => k = m
  BY <1>3
<1> QED BY <1>1, <1>4, <1>5, <1>6 DEF Sound

LEMMA FirstFrameSent ==
  ASSUME NEW q, NEW f \in Seq(Frame), Sound(q, f), f # <<>>
  PROVE  Sound(q, [f EXCEPT ![1].sent = TRUE])
<1>1. Len(f) \in Nat \ {0} /\ DOMAIN f = 1..Len(f)
  BY EmptySeq, LenProperties
<1>2. 1 \in DOMAIN f
  BY <1>1
<1>3. f[1] \in Frame
  BY <1>1, <1>2, ElementOfSeq
<1>4. [f[1] EXCEPT !.sent = TRUE].id = f[1].id
  BY <1>3 DEF Frame
<1>5. \A j \in DOMAIN f : [f EXCEPT ![1].sent = TRUE][j].id = f[j].id
  BY <1>2, <1>4
<1>6. DOMAIN [f EXCEPT ![1].sent = TRUE] = DOMAIN f
  OBVIOUS
<1> HIDE DEF Tries
<1> QED BY <1>5, <1>6 DEF Sound

\* Of the part of the node that its own steps change.
LEMMA NodeAfter ==
  ASSUME NodeTypes, NEW n \in Nodes, NEW q, NEW f,
         \/ UNCHANGED txQueue /\ q = txQueue[n]
         \/ txQueue' = [txQueue EXCEPT ![n] = q],
         \/ UNCHANGED pending /\ f = pending[n]
         \/ pending' = [pending EXCEPT ![n] = f],
         UNCHANGED wanEvents, NodeSound(n), Sound(q, f)
  PROVE  NodeSound(n)'
<1>1. txQueue'[n] = q /\ pending'[n] = f
  BY DEF NodeTypes
<1> HIDE DEF Sound
<1> QED BY <1>1 DEF NodeSound

\* A frame that is sent, with the entry of its segment before or after it.
LEMMA FreshId ==
  ASSUME NEW n \in Nodes, FreeFrameIds(n) # {}
  PROVE  /\ \A i \in DOMAIN txQueue[n] : txQueue[n][i].id # First(FreeFrameIds(n))
         /\ \A j \in DOMAIN pending[n] : pending[n][j].id # First(FreeFrameIds(n))
<1>1. First(FreeFrameIds(n)) \in FreeFrameIds(n)
  BY FreeId
<1> DEFINE id == First(FreeFrameIds(n))
<1> HIDE DEF id
<1>2. id \in FreeFrameIds(n)
  BY <1>1 DEF id
<1>3. /\ \A i \in DOMAIN txQueue[n] : txQueue[n][i].id # id
      /\ \A j \in DOMAIN pending[n] : pending[n][j].id # id
  BY <1>2 DEF FreeFrameIds
<1> QED BY <1>3 DEF id

\* A device that is not a gateway uplinks nothing.
LEMMA NoUplinks ==
  ASSUME NEW n \in Nodes \ WanNodes, NEW rx
  PROVE  ~Uplink(n, rx)
BY DEF Uplink

LEMMA SendSound ==
  ASSUME LayerInv, NEW n \in Nodes \ WanNodes, NodeSound(n),
         NEW rx \in Hops, NEW pdu \in PDU, NEW id, Routing_send(n, rx, pdu, id)
  PROVE  /\ id \in 1..MaxFrames
         /\ pending' = [pending EXCEPT ![n] = Append(pending[n], MacFrame(id, rx, pdu))]
         /\ UNCHANGED wanEvents
         /\ Sound(txQueue[n], Append(pending[n], MacFrame(id, rx, pdu)))
         /\ \A i \in DOMAIN txQueue[n] : txQueue[n][i].id # id
<1>1. /\ FreeFrameIds(n) # {} /\ id = First(FreeFrameIds(n))
      /\ pending' = [pending EXCEPT ![n] = Append(pending[n], MacFrame(id, rx, pdu))]
      /\ UNCHANGED wanEvents
  BY NoUplinks DEF Routing_send
<1>2. /\ id \in 1..MaxFrames
      /\ \A i \in DOMAIN txQueue[n] : txQueue[n][i].id # id
      /\ \A j \in DOMAIN pending[n] : pending[n][j].id # id
  BY <1>1, FreeId, FreshId
<1> DEFINE g == MacFrame(id, rx, pdu)
<1>3. g \in Frame /\ g.id = id
  BY <1>2 DEF MacFrame, Frame
<1> HIDE DEF g
<1>4. pending[n] \in Seq(Frame) /\ Sound(txQueue[n], pending[n])
  BY LayerTypes DEF NodeTypes, NodeSound
<1>5. Sound(txQueue[n], Append(pending[n], g))
  BY <1>2, <1>3, <1>4, FreshFrame
<1> QED BY <1>1, <1>2, <1>5 DEF g

LEMMA TransportSendSound ==
  ASSUME LayerInv, NEW n \in Nodes \ WanNodes, NodeSound(n),
         NEW rx \in Hops, NEW port \in Ports, NEW ack \in BOOLEAN, NEW ID \in IDs,
         Transport_send(n, rx, port, ack, ID)
  PROVE  NodeSound(n)'
<1> DEFINE pdu == Segment(ID, port, ack)
           m(id) == [pdu |-> pdu, id |-> id, rx |-> rx, ackTimeout |-> Off,
                     retries |-> 0, ackTask |-> NoTask]
<1>1. PICK id \in 0..MaxFrames :
        /\ Routing_send(n, rx, pdu, id)
        /\ txQueue' = [txQueue EXCEPT ![n] = Append(txQueue[n], m(id))]
  BY DEF Transport_send
<1>2. pdu \in PDU
  BY DEF Segment, PDU
<1>3. m(id) \in Metadata /\ m(id).ackTimeout = Off /\ Tries(m(id))
  BY <1>2 DEF Metadata, Hops, Tries
<1> HIDE DEF pdu, m
<1> DEFINE f == Append(pending[n], MacFrame(id, rx, pdu))
<1>4. pending' = [pending EXCEPT ![n] = f] /\ UNCHANGED wanEvents /\ Sound(txQueue[n], f)
  BY <1>1, <1>2, SendSound
<1>5. NodeTypes /\ txQueue[n] \in Seq(Metadata)
  BY LayerTypes DEF NodeTypes
<1> HIDE DEF f
<1>6. Sound(Append(txQueue[n], m(id)), f)
  BY <1>3, <1>4, <1>5, NewEntry
<1> QED BY <1>1, <1>4, <1>5, <1>6, NodeAfter

\* A result that a handler takes for the segment it belongs to.
LEMMA ResultSound ==
  ASSUME LayerInv, NEW n \in Nodes \ WanNodes, NodeSound(n),
         pending[n] # <<>>, FrameSettled(n)
  PROVE  NodeSound(n)'
<1> DEFINE q == txQueue[n]
           f == Tail(pending[n])
           id == Head(pending[n]).id
           I == {i \in DOMAIN txQueue[n] : txQueue[n][i].id = id}
           i == First(I)
<1>1. I = Indices(n, LAMBDA m : m.id = id)
  BY DEF Indices
<1>2. /\ pending' = [pending EXCEPT ![n] = f] /\ UNCHANGED wanEvents
      /\ \/ UNCHANGED txQueue
         \/ I # {} /\ \E ok \in BOOLEAN : EraseAndNotify(n, i, ok)
         \/ I # {} /\ StartTimeout(n, i)
  <2>1. /\ pending' = [pending EXCEPT ![n] = f] /\ UNCHANGED wanEvents
        /\ _onRoutingSent(n, id) \/ _onRoutingTxError(n, id)
    BY DEF FrameSettled
  <2> HIDE DEF f, id
  <2>2. \/ UNCHANGED txQueue
        \/ I # {} /\ EraseAndNotify(n, i, TRUE)
        \/ I # {} /\ EraseAndNotify(n, i, FALSE)
        \/ I # {} /\ StartTimeout(n, i)
    BY <1>1, <2>1 DEF _onRoutingSent, _onRoutingTxError
  <2> QED BY <2>1, <2>2
<1>3. NodeTypes /\ q \in Seq(Metadata) /\ pending[n] \in Seq(Frame) /\ Sound(q, pending[n])
  BY LayerTypes DEF NodeTypes, NodeSound
<1>4. /\ Sound(q, f) /\ \A j \in DOMAIN f : f[j].id # id
      /\ \A k \in DOMAIN q : q[k].id = id => q[k].ackTimeout = Off
  BY <1>3, FirstFrameGone
<1>5. I # {} => i \in I /\ i \in DOMAIN q
  BY FoundIndex DEF LayerInv, ResultInv
<1>6. \A k \in I : q[k].id = id
  OBVIOUS
<1> HIDE DEF q, f, id, I, i
<1>7. CASE UNCHANGED txQueue
  BY <1>2, <1>3, <1>4, <1>7, NodeAfter DEF q
<1>8. CASE I # {} /\ \E ok \in BOOLEAN : EraseAndNotify(n, i, ok)
  <2>1. txQueue' = [txQueue EXCEPT ![n] = Without(q, i)]
    BY <1>8 DEF EraseAndNotify, q
  <2>2. DistinctSegments(q)
    BY DEF LayerInv, ResultInv, QueuedAreAccepted, q
  <2>3. Sound(Without(q, i), f)
    BY <1>3, <1>4, <1>5, <1>8, <2>2, EraseEntry, FewerEntries
  <2> QED BY <1>2, <1>3, <2>1, <2>3, NodeAfter
<1>9. CASE I # {} /\ StartTimeout(n, i)
  <2> DEFINE key == [ID |-> q[i].pdu.ID, try |-> q[i].retries + 1]
             m == [q[i] EXCEPT !.ackTimeout = Running, !.retries = q[i].retries + 1,
                               !.ackTask = key]
  <2>1. txQueue' = [txQueue EXCEPT ![n] = [q EXCEPT ![i] = m]]
    BY <1>9 DEF StartTimeout, q
  <2>2. q[i] \in Metadata
    BY <1>3, <1>5, <1>9, LenProperties, ElementOfSeq
  <2>3. q[i].id = id /\ q[i].retries \in Nat /\ q[i].retries <= MaxRetries
    BY <1>3, <1>4, <1>5, <1>6, <1>9, <2>2 DEF Sound, Tries, Metadata
  <2>4. m.id = id /\ m.retries = q[i].retries + 1 /\ m.ackTimeout = Running
    BY <2>2, <2>3 DEF Metadata
  <2> HIDE DEF m
  <2>5. Tries(m)
    BY <2>3, <2>4 DEF Tries, Running, Off
  <2>6. Sound([q EXCEPT ![i] = m], f)
    BY <1>3, <1>4, <1>5, <1>9, <2>4, <2>5, ChangedEntry
  <2> QED BY <1>2, <1>3, <2>1, <2>6, NodeAfter
<1> QED BY <1>2, <1>7, <1>8, <1>9

LEMMA ExpirySound ==
  ASSUME LayerInv, NEW n \in Nodes \ WanNodes, NodeSound(n), TimeoutExpires(n)
  PROVE  NodeSound(n)'
<1> DEFINE q == txQueue[n]
<1>1. PICK i \in DOMAIN q :
        /\ q[i].ackTimeout = Running
        /\ txQueue' = [txQueue EXCEPT ![n][i].ackTimeout = Expired]
  BY DEF TimeoutExpires
<1>2. NodeTypes /\ q \in Seq(Metadata) /\ Sound(q, pending[n])
  BY LayerTypes DEF NodeTypes, NodeSound
<1> DEFINE m == [q[i] EXCEPT !.ackTimeout = Expired]
<1>3. q[i] \in Metadata
  BY <1>1, <1>2, LenProperties, ElementOfSeq
<1>4. m.id = q[i].id /\ m.retries = q[i].retries /\ m.ackTimeout = Expired
  BY <1>3 DEF Metadata
<1>5. txQueue' = [txQueue EXCEPT ![n] = [q EXCEPT ![i] = m]] /\ UNCHANGED <<pending, wanEvents>>
  BY <1>1 DEF TimeoutExpires, lowerVars
<1> HIDE DEF q, m
<1>6. Tries(q[i]) /\ \A j \in DOMAIN pending[n] : q[i].id # pending[n][j].id
  BY <1>1, <1>2 DEF Sound, Running, Off
<1>7. Tries(m)
  BY <1>4, <1>6 DEF Tries, Expired, Off
<1>8. Sound([q EXCEPT ![i] = m], pending[n])
  BY <1>1, <1>2, <1>4, <1>6, <1>7, ChangedEntry
<1> QED BY <1>2, <1>5, <1>8, NodeAfter

LEMMA CheckSound ==
  ASSUME LayerInv, NEW n \in Nodes \ WanNodes, NodeSound(n), _checkTxQueueMetadata(n)
  PROVE  NodeSound(n)'
<1> DEFINE q == txQueue[n]
           I == {i \in DOMAIN txQueue[n] : txQueue[n][i].ackTimeout = Expired}
           i == First(I)
<1>1. I = Indices(n, LAMBDA m : m.ackTimeout = Expired)
  BY DEF Indices
<1>2. \/ UNCHANGED <<txQueue, lowerVars>>
      \/ I # {} /\ txQueue' = [txQueue EXCEPT ![n] = Without(txQueue[n], i)]
                /\ UNCHANGED lowerVars
      \/ I # {} /\ ~Exhausted(txQueue[n][i]) /\ _resendSegment(n, i)
  BY <1>1 DEF _checkTxQueueMetadata
<1>3. NodeTypes /\ q \in Seq(Metadata) /\ Sound(q, pending[n]) /\ DistinctSegments(q)
  BY LayerTypes DEF NodeTypes, NodeSound, LayerInv, ResultInv, QueuedAreAccepted
<1>4. I # {} => i \in I /\ i \in DOMAIN q
  BY FoundIndex DEF LayerInv, ResultInv
<1> HIDE DEF I, i
<1>5. CASE UNCHANGED <<txQueue, lowerVars>>
  BY <1>3, <1>5, NodeAfter DEF lowerVars
<1>6. CASE /\ I # {} /\ txQueue' = [txQueue EXCEPT ![n] = Without(txQueue[n], i)]
           /\ UNCHANGED lowerVars
  <2>1. Sound(Without(q, i), pending[n])
    BY <1>3, <1>4, <1>6, EraseEntry, FewerEntries
  <2> QED BY <1>3, <1>6, <2>1, NodeAfter DEF lowerVars
<1>7. CASE I # {} /\ ~Exhausted(txQueue[n][i]) /\ _resendSegment(n, i)
  <2> HIDE DEF q
  <2>1. q[i] \in Metadata
    BY <1>3, <1>4, <1>7, LenProperties, ElementOfSeq
  <2>2. q[i].retries \in Nat /\ q[i].retries <= MaxRetries
        /\ q[i].pdu \in PDU /\ q[i].rx \in Hops
    BY <1>7, <2>1 DEF Exhausted, Metadata, Hops, q
  <2>3. ASSUME NEW id \in 0..MaxFrames, Routing_send(n, q[i].rx, q[i].pdu, id),
               txQueue' = [txQueue EXCEPT ![n][i].ackTimeout = Off, ![n][i].id = id]
        PROVE  NodeSound(n)'
    <3> DEFINE f == Append(pending[n], MacFrame(id, q[i].rx, q[i].pdu))
               m == [q[i] EXCEPT !.ackTimeout = Off, !.id = id]
    <3>1. pending' = [pending EXCEPT ![n] = f] /\ UNCHANGED wanEvents /\ Sound(q, f)
      BY <2>2, <2>3, SendSound DEF q
    <3>2. txQueue' = [txQueue EXCEPT ![n] = [q EXCEPT ![i] = m]]
      BY <2>3 DEF q
    <3>3. m.ackTimeout = Off /\ m.retries = q[i].retries
      BY <2>1 DEF Metadata
    <3> HIDE DEF f, m
    <3>4. Tries(m)
      BY <2>2, <3>3 DEF Tries
    <3>5. Sound([q EXCEPT ![i] = m], f)
      BY <1>3, <1>4, <1>7, <3>1, <3>3, <3>4, ChangedEntry
    <3> QED BY <1>3, <3>1, <3>2, <3>5, NodeAfter
  <2>4. ASSUME Routing_sendFails(n, q[i].rx, q[i].pdu.ID),
               txQueue' = [txQueue EXCEPT ![n][i].ackTimeout = Off]
        PROVE  NodeSound(n)'
    <3> DEFINE m == [q[i] EXCEPT !.ackTimeout = Off]
    <3>1. UNCHANGED <<pending, wanEvents>>
      BY <2>4, NoUplinks DEF Routing_sendFails, lowerVars
    <3>2. txQueue' = [txQueue EXCEPT ![n] = [q EXCEPT ![i] = m]]
      BY <2>4 DEF q
    <3>3. m.ackTimeout = Off /\ m.retries = q[i].retries
      BY <2>1 DEF Metadata
    <3> HIDE DEF m
    <3>4. Tries(m)
      BY <2>2, <3>3 DEF Tries
    <3>5. Sound([q EXCEPT ![i] = m], pending[n])
      BY <1>3, <1>4, <1>7, <3>3, <3>4, ChangedEntry
    <3> QED BY <1>3, <3>1, <3>2, <3>5, NodeAfter
  <2> QED BY <1>7, <2>3, <2>4 DEF _resendSegment, q
<1> QED BY <1>2, <1>5, <1>6, <1>7

LEMMA AckSound ==
  ASSUME LayerInv, NEW n \in Nodes \ WanNodes, NodeSound(n), ReceiveAck(n)
  PROVE  NodeSound(n)'
<1>1. PICK p \in net : _ackReceived(n, p.pdu)
  BY DEF ReceiveAck
<1> DEFINE I == {i \in DOMAIN txQueue[n] : txQueue[n][i].pdu.ID = p.pdu.ID}
           i == First(I)
<1>2. I = Indices(n, LAMBDA m : m.pdu.ID = p.pdu.ID)
  BY DEF Indices
<1>3. UNCHANGED <<pending, wanEvents>>
  BY DEF ReceiveAck, lowerVars
<1>4. UNCHANGED txQueue \/ (I # {} /\ txQueue' = [txQueue EXCEPT ![n] = Without(txQueue[n], i)])
  BY <1>1, <1>2 DEF _ackReceived
<1>5. I # {} => i \in DOMAIN txQueue[n]
  BY FoundIndex DEF LayerInv, ResultInv
<1>6. /\ NodeTypes /\ txQueue[n] \in Seq(Metadata) /\ Sound(txQueue[n], pending[n])
      /\ DistinctSegments(txQueue[n])
  BY LayerTypes DEF NodeTypes, NodeSound, LayerInv, ResultInv, QueuedAreAccepted
<1> HIDE DEF I, i
<1>7. I # {} => Sound(Without(txQueue[n], i), pending[n])
  BY <1>5, <1>6, EraseEntry, FewerEntries
<1> QED BY <1>3, <1>4, <1>6, <1>7, NodeAfter

LEMMA AnswerSound ==
  ASSUME LayerInv, NEW n \in Nodes \ WanNodes, NodeSound(n), ReceiveSegment(n)
  PROVE  NodeSound(n)'
<1>1. PICK p \in net : AnswerSegment(n, p, <<>>, net \ {p})
  BY DEF ReceiveSegment
<1>3. /\ NodeTypes /\ pending[n] \in Seq(Frame) /\ Sound(txQueue[n], pending[n])
      /\ wanEvents \in [Nodes -> Seq(Event)] /\ wanEvents[n] = <<>>
  BY LayerTypes DEF NodeTypes, NodeSound
<1>2. UNCHANGED <<txQueue, wanEvents>>
  <2>1. _sendThroughLoRaWAN(n, <<>>)
    BY <1>1, NoUplinks DEF AnswerSegment, Leaves
  <2>2. wanEvents[n] \o <<>> = wanEvents[n]
    BY <1>3
  <2> QED BY <1>3, <2>1, <2>2 DEF ReceiveSegment, _sendThroughLoRaWAN
<1>4. CASE UNCHANGED pending
  BY <1>2, <1>3, <1>4, NodeAfter
<1>5. CASE FreeFrameIds(n) # {} /\
           pending' = [pending EXCEPT ![n] = Append(pending[n],
             MacFrame(First(FreeFrameIds(n)), p.tx, _buildAck(p.pdu)))]
  <2> DEFINE g == MacFrame(First(FreeFrameIds(n)), p.tx, _buildAck(p.pdu))
  <2>1. g \in Frame /\ g.id = First(FreeFrameIds(n))
    <3>1. p.tx \in Hops /\ p.pdu \in PDU
      BY DEF LayerInv, NetInv, GenuinePackets, Packet, Hops
    <3>2. _buildAck(p.pdu) \in PDU
      BY <3>1 DEF _buildAck, PDU
    <3> QED BY <1>5, <3>1, <3>2, FreeId DEF MacFrame, Frame
  <2>2. pending' = [pending EXCEPT ![n] = Append(pending[n], g)]
    BY <1>5
  <2> HIDE DEF g
  <2>3. Sound(txQueue[n], Append(pending[n], g))
    BY <1>3, <1>5, <2>1, FreshId, FreshFrame
  <2> QED BY <1>2, <1>3, <2>2, <2>3, NodeAfter
<1> QED BY <1>1, <1>4, <1>5 DEF AnswerSegment

LEMMA SoundKept ==
  ASSUME LayerInv, NEW n \in Nodes \ WanNodes, NodeSound(n), [Next]_vars
  PROVE  NodeSound(n)'
<1>1. NodeTypes /\ pending[n] \in Seq(Frame) /\ wanEvents[n] = <<>>
      /\ Sound(txQueue[n], pending[n])
  BY LayerTypes DEF NodeTypes, NodeSound
<1>2. CASE UNCHANGED <<txQueue, pending, wanEvents>>
  BY <1>2 DEF NodeSound
<1>3. ASSUME NEW k \in Nodes \ {n}, NodeStep(k)
      PROVE  NodeSound(n)'
  <2>1. Untouched(n)
    BY <1>1, <1>3, StepLocal
  <2> QED BY <2>1 DEF Untouched, NodeSound
<1>4. CASE FrameSent(n)
  <2>1. /\ pending[n] # <<>> /\ UNCHANGED <<txQueue, wanEvents>>
        /\ pending' = [pending EXCEPT ![n] = [pending[n] EXCEPT ![1].sent = TRUE]]
    BY <1>4 DEF FrameSent
  <2>2. Sound(txQueue[n], [pending[n] EXCEPT ![1].sent = TRUE])
    BY <1>1, <2>1, FirstFrameSent
  <2> DEFINE f == [pending[n] EXCEPT ![1].sent = TRUE]
  <2> HIDE DEF f
  <2>3. pending' = [pending EXCEPT ![n] = f] /\ Sound(txQueue[n], f)
    BY <2>1, <2>2 DEF f
  <2> QED BY <1>1, <2>1, <2>3, NodeAfter
<1>5. ASSUME NEW rx \in Hops, Transport_sendFails(n, rx)
      PROVE  NodeSound(n)'
  BY <1>2, <1>5, NoUplinks DEF Transport_sendFails, Routing_sendFails, lowerVars
<1>6. CASE _delete_completed_tasks(n)
  BY <1>2, <1>6 DEF _delete_completed_tasks, lowerVars
<1>7. CASE WanSettled(n) \/ RelaySegment(n) \/ RelayAck(n) \/ RelayFails(n)
  BY <1>1, <1>7, NoUplinks DEF WanSettled, RelaySegment, RelayAck, RelayFails, Relayed
<1>8. FrameSettled(n) => pending[n] # <<>>
  BY DEF FrameSettled
<1>9. ASSUME NodeStep(n)
      PROVE  NodeSound(n)'
  BY <1>4, <1>5, <1>6, <1>7, <1>8, <1>9, TransportSendSound, ResultSound, ExpirySound,
     CheckSound, AckSound, AnswerSound DEF NodeStep
<1>10. UNCHANGED vars \/ Lose => UNCHANGED <<txQueue, pending, wanEvents>>
  BY DEF vars, lowerVars, Lose
<1> QED BY <1>2, <1>3, <1>9, <1>10 DEF Next, NodeStep, Hops

RetryBoundAt(n) == \A i \in DOMAIN txQueue[n] : Tries(txQueue[n][i])

\* transport.cpp:271-276, 317-320: a segment of a device that is not a gateway is
\* transmitted the first time and MaxRetries times again at most, in any network
\* and beside any gateways.
THEOREM RetriesBounded == Spec => [](\A n \in Nodes \ WanNodes : RetryBoundAt(n))
<1> DEFINE AllSound == \A n \in Nodes \ WanNodes : NodeSound(n)
<1>1. Init => AllSound
  BY DEF Init, NodeSound, Sound
<1>2. AllSound /\ LayerInv /\ [Next]_vars => AllSound'
  <2>1. ASSUME AllSound, LayerInv, [Next]_vars, NEW n \in Nodes \ WanNodes
        PROVE  NodeSound(n)'
    BY <2>1, SoundKept
  <2> QED BY <2>1
<1>3. AllSound => \A n \in Nodes \ WanNodes : RetryBoundAt(n)
  BY DEF NodeSound, Sound, RetryBoundAt
<1> HIDE DEF AllSound
<1> QED BY <1>1, <1>2, <1>3, LayerInvariant, PTL DEF Spec

\* transport.cpp:271-276, 317-320: where LoRaWAN is not used, that is every
\* segment. (The results of a gateway's uplinks all carry the identifier 0.)
THEOREM RetryBoundHolds ==
  ASSUME WanNodes = {}
  PROVE  Spec => []RetryBound
<1>1. (\A n \in Nodes \ WanNodes : RetryBoundAt(n)) => RetryBound
  BY DEF RetryBoundAt, Tries, RetryBound
<1> QED BY <1>1, RetriesBounded, PTL

---------------------------------------------------------------------------
(* A segment of a node that has only one, in a network where every node    *)
(* has a route, always has something left that wakes it.                   *)

\* A timeout task that the scheduler will run.
Armed(T, key) == <<key, TRUE>> \in T

Started(T, key) == T \union {<<key, TRUE>>}

LEMMA ArmedBy ==
  ASSUME NEW T, NEW key
  PROVE  Armed(Started(T, key), key)
BY Zenon DEF Armed, Started

Disabled(T, key) == {<<t[1], t[2] /\ t[1] # key>> : t \in T}

LEMMA ArmedBesides ==
  ASSUME NEW T, NEW key, NEW k, Armed(T, k), k # key
  PROVE  Armed(Disabled(T, key), k)
<1> DEFINE t == <<k, TRUE>>
<1>1. t \in T
  BY DEF Armed
<1>2. t[1] = k /\ t[2] = TRUE
  OBVIOUS
<1>3. (t[2] /\ t[1] # key) = TRUE
  BY <1>2, Zenon
<1>4. <<t[1], t[2] /\ t[1] # key>> = <<k, TRUE>>
  BY <1>2, <1>3, Zenon
<1>5. <<t[1], t[2] /\ t[1] # key>> \in Disabled(T, key)
  BY <1>1, Zenon DEF Disabled
<1> QED BY <1>4, <1>5, Zenon DEF Armed

LEMMA ArmedAfterDeletion ==
  ASSUME NEW T, NEW k, Armed(T, k)
  PROVE  Armed({t \in T : t[2]}, k)
<1>1. <<k, TRUE>>[2]
  OBVIOUS
<1> QED BY <1>1, Zenon DEF Armed

\* What the segment m of node n needs of the frames f, the uplink results w and
\* the tasks T of the node.
Served(n, m, f, w, T) ==
  /\ m.id = 0 <=> Uplink(n, m.rx)
  /\ m.ackTimeout = Off /\ m.id # 0 => \E j \in DOMAIN f : f[j].id = m.id
  /\ m.ackTimeout = Off /\ m.id = 0 => w # <<>>
  /\ m.ackTimeout # Off => Armed(T, m.ackTask)

NodeServed(n) ==
  /\ Len(txQueue[n]) <= 1
  /\ \A i \in DOMAIN txQueue[n] :
       Served(n, txQueue[n][i], pending[n], wanEvents[n], tasks[n])

AllServed == \A n \in Nodes : NodeServed(n)

LEMMA OneEntry ==
  ASSUME NEW q \in Seq(Metadata), Len(q) <= 1, NEW i \in DOMAIN q
  PROVE  /\ i = 1 /\ Len(q) = 1 /\ DOMAIN q = {1} /\ q[i] \in Metadata
         /\ Without(q, i) = <<>>
<1>1. Len(q) \in Nat /\ DOMAIN q = 1..Len(q)
  BY LenProperties
<1>2. i = 1 /\ Len(q) = 1 /\ DOMAIN q = {1}
  BY <1>1
<1>3. Without(q, i) \in Seq(Metadata) /\ Len(Without(q, i)) = 0
  BY <1>2, WithoutOne
<1> QED BY <1>1, <1>2, <1>3, EmptySeq, ElementOfSeq

\* The entry stays, and so does what serves it.
LEMMA StillServed ==
  ASSUME NEW n \in Nodes, NodeServed(n), txQueue'[n] = txQueue[n],
         \A i \in DOMAIN txQueue[n] : \A j \in DOMAIN pending[n] :
           pending[n][j].id = txQueue[n][i].id =>
             \E k \in DOMAIN pending'[n] : pending'[n][k].id = txQueue[n][i].id,
         \A i \in DOMAIN txQueue[n] :
           txQueue[n][i].id = 0 /\ wanEvents[n] # <<>> => wanEvents'[n] # <<>>,
         \A i \in DOMAIN txQueue[n] :
           txQueue[n][i].ackTimeout # Off /\ Armed(tasks[n], txQueue[n][i].ackTask) =>
             Armed(tasks'[n], txQueue[n][i].ackTask)
  PROVE  NodeServed(n)'
BY DEF NodeServed, Served

LEMMA NoneLeft ==
  ASSUME NEW n \in Nodes, txQueue'[n] = <<>>
  PROVE  NodeServed(n)'
BY DEF NodeServed

\* The entry is another one.
LEMMA OtherServed ==
  ASSUME NEW n \in Nodes, NEW m, Len(txQueue'[n]) = 1, DOMAIN txQueue'[n] = {1},
         txQueue'[n][1] = m, Served(n, m, pending'[n], wanEvents'[n], tasks'[n])
  PROVE  NodeServed(n)'
BY DEF NodeServed

LEMMA RestampedServed ==
  ASSUME NodeTypes, NEW n \in Nodes, NodeServed(n), NEW i \in DOMAIN txQueue[n], NEW m,
         txQueue' = [txQueue EXCEPT ![n] = [txQueue[n] EXCEPT ![i] = m]],
         Served(n, m, pending'[n], wanEvents'[n], tasks'[n])
  PROVE  NodeServed(n)'
<1>1. txQueue[n] \in Seq(Metadata) /\ Len(txQueue[n]) <= 1
  BY DEF NodeTypes, NodeServed
<1>2. i = 1 /\ Len(txQueue[n]) = 1 /\ DOMAIN txQueue[n] = {1}
  BY <1>1, OneEntry
<1>3. txQueue'[n] = [txQueue[n] EXCEPT ![1] = m]
  BY <1>2 DEF NodeTypes
<1>4. DOMAIN txQueue'[n] = {1} /\ txQueue'[n][1] = m
  BY <1>2, <1>3
<1>5. Len(txQueue'[n]) = Len(txQueue[n])
  BY <1>1, <1>2, <1>3, ExceptSeq
<1> QED BY <1>2, <1>4, <1>5, OtherServed

LEMMA TailKeeps ==
  ASSUME NEW f \in Seq(Frame), f # <<>>, NEW j \in DOMAIN f, f[j].id # Head(f).id
  PROVE  \E k \in DOMAIN Tail(f) : Tail(f)[k] = f[j]
<1>1. Len(f) \in Nat \ {0} /\ DOMAIN f = 1..Len(f) /\ Head(f) = f[1]
  BY EmptySeq, LenProperties, HeadTailProperties
<1>2. /\ Tail(f) \in Seq(Frame) /\ Len(Tail(f)) = Len(f) - 1
      /\ \A k \in 1..Len(Tail(f)) : Tail(f)[k] = f[k + 1]
  BY HeadTailProperties
<1>3. DOMAIN Tail(f) = 1..(Len(f) - 1)
  BY <1>2, LenProperties
<1>4. j # 1 /\ j \in 1..Len(f)
  BY <1>1
<1>5. j - 1 \in DOMAIN Tail(f) /\ j - 1 + 1 = j
  BY <1>1, <1>3, <1>4
<1>6. Tail(f)[j - 1] = f[j]
  BY <1>2, <1>3, <1>5
<1> QED BY <1>5, <1>6

\* What a frame or an uplink that is sent leaves behind.
LEMMA RoutingServes ==
  ASSUME LayerInv, NEW n \in Nodes, NEW rx \in Hops, NEW pdu \in PDU, NEW id,
         Routing_send(n, rx, pdu, id)
  PROVE  /\ id = 0 <=> Uplink(n, rx)
         /\ id # 0 => \E j \in DOMAIN pending'[n] : pending'[n][j].id = id
         /\ id = 0 => wanEvents'[n] # <<>>
<1>1. NodeTypes /\ pending[n] \in Seq(Frame)
  BY LayerTypes DEF NodeTypes
<1>2. CASE /\ ~Uplink(n, rx)
           /\ FreeFrameIds(n) # {} /\ id = First(FreeFrameIds(n))
           /\ pending' = [pending EXCEPT ![n] = Append(@, MacFrame(id, rx, pdu))]
  <2> DEFINE g == MacFrame(id, rx, pdu)
  <2>1. id \in 1..MaxFrames
    BY <1>2, FreeId
  <2>2. g \in Frame /\ g.id = id
    BY <2>1 DEF MacFrame, Frame
  <2> HIDE DEF g
  <2>3. pending'[n] = Append(pending[n], g)
    BY <1>1, <1>2 DEF NodeTypes, g
  <2>4. /\ Len(pending[n]) + 1 \in DOMAIN Append(pending[n], g)
        /\ Append(pending[n], g)[Len(pending[n]) + 1] = g
    BY <1>1, <2>2, AppendEntry
  <2> QED BY <1>2, <2>1, <2>2, <2>3, <2>4
<1>3. CASE Uplink(n, rx) /\ id = 0 /\ _sendThroughLoRaWAN(n, <<Result(pdu.ID, TRUE)>>)
  <2>1. pdu.ID \in IDs
    BY DEF PDU
  <2> QED BY <1>3, <2>1, ResultType, WanAppend DEF LayerInv
<1> QED BY <1>2, <1>3 DEF Routing_send

\* An uplink that fails has a result that is notified as well.
LEMMA FailedUplinkServes ==
  ASSUME LayerInv, RoutesMayMiss = FALSE, NEW n \in Nodes, NEW rx,
         NEW ID \in IDs \union {NoID}, Routing_sendFails(n, rx, ID)
  PROVE  Uplink(n, rx) /\ wanEvents'[n] # <<>> /\ UNCHANGED pending
BY ResultType, WanAppend DEF LayerInv, Routing_sendFails

LEMMA TransportSendServed ==
  ASSUME LayerInv, MaxOutstanding <= 1, NEW n \in Nodes,
         NEW rx \in Hops, NEW port \in Ports, NEW ack \in BOOLEAN, NEW ID \in IDs,
         Transport_send(n, rx, port, ack, ID)
  PROVE  NodeServed(n)'
<1> DEFINE pdu == Segment(ID, port, ack)
           m(id) == [pdu |-> pdu, id |-> id, rx |-> rx, ackTimeout |-> Off,
                     retries |-> 0, ackTask |-> NoTask]
<1>1. PICK id \in 0..MaxFrames :
        /\ Routing_send(n, rx, pdu, id)
        /\ txQueue' = [txQueue EXCEPT ![n] = Append(txQueue[n], m(id))]
  BY DEF Transport_send
<1>2. pdu \in PDU
  BY DEF Segment, PDU
<1>3. m(id) \in Metadata /\ m(id).ackTimeout = Off /\ m(id).id = id /\ m(id).rx = rx
  BY <1>2 DEF Metadata, Hops
<1>4. NodeTypes /\ txQueue[n] \in Seq(Metadata) /\ Len(txQueue[n]) < MaxOutstanding
  BY LayerTypes DEF NodeTypes, Transport_send
<1> HIDE DEF pdu, m
<1>5. Len(txQueue[n]) = 0
  BY <1>4, LenProperties
<1>6. txQueue'[n] = Append(txQueue[n], m(id))
  BY <1>1, <1>4 DEF NodeTypes
<1>7. Len(txQueue'[n]) = 1 /\ txQueue'[n][1] = m(id) /\ DOMAIN txQueue'[n] = {1}
  <2>1. /\ Append(txQueue[n], m(id)) \in Seq(Metadata)
        /\ Len(Append(txQueue[n], m(id))) = Len(txQueue[n]) + 1
        /\ Append(txQueue[n], m(id))[Len(txQueue[n]) + 1] = m(id)
    BY <1>3, <1>4, AppendProperties
  <2>2. DOMAIN Append(txQueue[n], m(id)) = 1..(Len(txQueue[n]) + 1)
    BY <2>1, LenProperties
  <2> QED BY <1>5, <1>6, <2>1, <2>2
<1>8. Served(n, m(id), pending'[n], wanEvents'[n], tasks'[n])
  BY <1>1, <1>2, <1>3, RoutingServes DEF Served
<1> QED BY <1>7, <1>8, OtherServed

\* The timeout that a result starts.
LEMMA TimeoutServes ==
  ASSUME LayerInv, NEW n \in Nodes, NodeServed(n), NEW i \in DOMAIN txQueue[n],
         StartTimeout(n, i)
  PROVE  NodeServed(n)'
<1> DEFINE meta == txQueue[n][i]
           key == [ID |-> meta.pdu.ID, try |-> meta.retries + 1]
           m == [meta EXCEPT !.ackTimeout = Running, !.retries = @ + 1, !.ackTask = key]
<1>1. meta \in Metadata
  BY EntryType DEF LayerInv, ResultInv
<1>2. m.id = meta.id /\ m.rx = meta.rx /\ m.ackTimeout = Running /\ m.ackTask = key
  BY <1>1 DEF Metadata
<1>3. /\ txQueue' = [txQueue EXCEPT ![n] = [txQueue[n] EXCEPT ![i] = m]]
      /\ tasks' = [tasks EXCEPT ![n] = tasks[n] \union {<<key, TRUE>>}]
  BY DEF StartTimeout
<1>4. Served(n, meta, pending[n], wanEvents[n], tasks[n])
  BY DEF NodeServed
<1> HIDE DEF meta, key, m
<1>5. NodeTypes
  BY LayerTypes
<1>6. Armed(tasks'[n], key)
  <2>1. tasks'[n] = Started(tasks[n], key)
    BY <1>3, <1>5 DEF NodeTypes, Started
  <2> QED BY <2>1, ArmedBy
<1>7. Served(n, m, pending'[n], wanEvents'[n], tasks'[n])
  BY <1>2, <1>4, <1>6 DEF Served, Running, Off
<1> QED BY <1>3, <1>5, <1>7, RestampedServed

\* Of a result that is taken for the segment with identifier id, if there is one.
LEMMA ResultServes ==
  ASSUME LayerInv, NEW n \in Nodes, NodeServed(n), NEW id,
         _onRoutingSent(n, id) \/ _onRoutingTxError(n, id)
  PROVE  \/ NodeServed(n)'
         \/ /\ UNCHANGED <<txQueue, tasks>>
            /\ \A i \in DOMAIN txQueue[n] : txQueue[n][i].id # id
<1> DEFINE I == {i \in DOMAIN txQueue[n] : txQueue[n][i].id = id}
           i == First(I)
<1>1. I = Indices(n, LAMBDA m : m.id = id)
  BY DEF Indices
<1>2. \/ I = {} /\ UNCHANGED <<txQueue, tasks>>
      \/ I # {} /\ txQueue' = [txQueue EXCEPT ![n] = Without(@, i)]
      \/ I # {} /\ StartTimeout(n, i)
  BY <1>1 DEF _onRoutingSent, _onRoutingTxError, EraseAndNotify
<1>3. I # {} => i \in DOMAIN txQueue[n]
  BY FoundIndex DEF LayerInv, ResultInv
<1>4. I = {} => \A k \in DOMAIN txQueue[n] : txQueue[n][k].id # id
  OBVIOUS
<1> HIDE DEF I, i
<1>5. CASE I # {} /\ txQueue' = [txQueue EXCEPT ![n] = Without(@, i)]
  <2>1. NodeTypes /\ txQueue[n] \in Seq(Metadata) /\ Len(txQueue[n]) <= 1
    BY LayerTypes DEF NodeTypes, NodeServed
  <2>2. Without(txQueue[n], i) = <<>>
    BY <1>3, <1>5, <2>1, OneEntry
  <2>3. txQueue'[n] = <<>>
    BY <1>5, <2>1, <2>2 DEF NodeTypes
  <2> QED BY <2>3, NoneLeft
<1> QED BY <1>2, <1>3, <1>4, <1>5, TimeoutServes

LEMMA SettledServed ==
  ASSUME LayerInv, NEW n \in Nodes, NodeServed(n), FrameSettled(n) \/ WanSettled(n)
  PROVE  NodeServed(n)'
<1>1. NodeTypes /\ pending[n] \in Seq(Frame)
  BY LayerTypes DEF NodeTypes
<1>2. CASE FrameSettled(n)
  <2> DEFINE id == Head(pending[n]).id
  <2>1. /\ pending[n] # <<>> /\ pending' = [pending EXCEPT ![n] = Tail(@)]
        /\ UNCHANGED wanEvents
        /\ _onRoutingSent(n, id) \/ _onRoutingTxError(n, id)
    BY <1>2 DEF FrameSettled
  <2>2. pending'[n] = Tail(pending[n])
    BY <1>1, <2>1 DEF NodeTypes
  <2>3. \A j \in DOMAIN pending[n] : pending[n][j].id # id =>
          \E k \in DOMAIN pending'[n] : pending'[n][k].id = pending[n][j].id
    BY <1>1, <2>1, <2>2, TailKeeps
  <2> HIDE DEF id
  <2>4. CASE /\ UNCHANGED <<txQueue, tasks>>
             /\ \A i \in DOMAIN txQueue[n] : txQueue[n][i].id # id
    <3>1. \A i \in DOMAIN txQueue[n] : \A j \in DOMAIN pending[n] :
            pending[n][j].id = txQueue[n][i].id =>
              \E k \in DOMAIN pending'[n] : pending'[n][k].id = txQueue[n][i].id
      BY <2>3, <2>4
    <3> QED BY <2>1, <2>4, <3>1, StillServed
  <2> QED BY <2>1, <2>4, ResultServes
<1>3. CASE WanSettled(n)
  <2>1. UNCHANGED pending /\ (_onRoutingSent(n, 0) \/ _onRoutingTxError(n, 0))
    BY <1>3 DEF WanSettled
  <2>2. CASE /\ UNCHANGED <<txQueue, tasks>>
             /\ \A i \in DOMAIN txQueue[n] : txQueue[n][i].id # 0
    BY <2>1, <2>2, StillServed
  <2> QED BY <2>1, <2>2, ResultServes
<1> QED BY <1>2, <1>3

LEMMA ExpiryServed ==
  ASSUME LayerInv, NEW n \in Nodes, NodeServed(n), TimeoutExpires(n)
  PROVE  NodeServed(n)'
<1>1. PICK i \in DOMAIN txQueue[n] :
        /\ txQueue[n][i].ackTimeout = Running
        /\ txQueue' = [txQueue EXCEPT ![n][i].ackTimeout = Expired]
  BY DEF TimeoutExpires
<1> DEFINE m == [txQueue[n][i] EXCEPT !.ackTimeout = Expired]
<1>2. txQueue[n][i] \in Metadata
  BY EntryType DEF LayerInv, ResultInv
<1>3. /\ m.id = txQueue[n][i].id /\ m.rx = txQueue[n][i].rx
      /\ m.ackTimeout = Expired /\ m.ackTask = txQueue[n][i].ackTask
  BY <1>2 DEF Metadata
<1>4. txQueue' = [txQueue EXCEPT ![n] = [txQueue[n] EXCEPT ![i] = m]]
  BY <1>1
<1>5. Served(n, txQueue[n][i], pending[n], wanEvents[n], tasks[n])
  BY DEF NodeServed
<1>6. UNCHANGED <<pending, wanEvents, tasks>>
  BY DEF TimeoutExpires, lowerVars
<1> HIDE DEF m
<1>7. Served(n, m, pending'[n], wanEvents'[n], tasks'[n])
  BY <1>1, <1>3, <1>5, <1>6 DEF Served, Running, Expired, Off
<1> QED BY <1>4, <1>7, LayerTypes, RestampedServed

LEMMA ResendServed ==
  ASSUME LayerInv, RoutesMayMiss = FALSE, NEW n \in Nodes, NodeServed(n),
         NEW i \in DOMAIN txQueue[n], _resendSegment(n, i)
  PROVE  NodeServed(n)'
<1> DEFINE meta == txQueue[n][i]
<1>1. meta \in Metadata /\ meta.pdu \in PDU /\ meta.rx \in Hops /\ meta.pdu.ID \in IDs
  <2>1. meta \in Metadata
    BY EntryType DEF LayerInv, ResultInv
  <2> QED BY <2>1 DEF Metadata, PDU, Hops
<1>2. Served(n, meta, pending[n], wanEvents[n], tasks[n])
  BY DEF NodeServed
<1>3. ASSUME NEW id \in 0..MaxFrames, Routing_send(n, meta.rx, meta.pdu, id),
             txQueue' = [txQueue EXCEPT ![n][i].ackTimeout = Off, ![n][i].id = id]
      PROVE  NodeServed(n)'
  <2> DEFINE m == [meta EXCEPT !.ackTimeout = Off, !.id = id]
  <2>1. m.id = id /\ m.rx = meta.rx /\ m.ackTimeout = Off
    BY <1>1 DEF Metadata
  <2>2. txQueue' = [txQueue EXCEPT ![n] = [txQueue[n] EXCEPT ![i] = m]]
    BY <1>3
  <2> HIDE DEF m, meta
  <2>3. Served(n, m, pending'[n], wanEvents'[n], tasks'[n])
    BY <1>1, <1>3, <2>1, RoutingServes DEF Served
  <2> QED BY <2>2, <2>3, LayerTypes, RestampedServed
<1>4. ASSUME Routing_sendFails(n, meta.rx, meta.pdu.ID),
             txQueue' = [txQueue EXCEPT ![n][i].ackTimeout = Off]
      PROVE  NodeServed(n)'
  <2> DEFINE m == [meta EXCEPT !.ackTimeout = Off]
  <2>1. m.id = meta.id /\ m.rx = meta.rx /\ m.ackTimeout = Off
    BY <1>1 DEF Metadata
  <2>2. txQueue' = [txQueue EXCEPT ![n] = [txQueue[n] EXCEPT ![i] = m]]
    BY <1>4
  <2> HIDE DEF m, meta
  <2>3. Uplink(n, meta.rx) /\ wanEvents'[n] # <<>>
    BY <1>1, <1>4, FailedUplinkServes
  <2>4. Served(n, m, pending'[n], wanEvents'[n], tasks'[n])
    BY <1>2, <2>1, <2>3 DEF Served
  <2> QED BY <2>2, <2>4, LayerTypes, RestampedServed
<1> QED BY <1>3, <1>4 DEF _resendSegment

LEMMA CheckServed ==
  ASSUME LayerInv, RoutesMayMiss = FALSE, NEW n \in Nodes, NodeServed(n),
         _checkTxQueueMetadata(n)
  PROVE  NodeServed(n)'
<1> DEFINE I == {i \in DOMAIN txQueue[n] : txQueue[n][i].ackTimeout = Expired}
           i == First(I)
<1>1. I = Indices(n, LAMBDA m : m.ackTimeout = Expired)
  BY DEF Indices
<1>2. PICK t \in tasks[n] :
        /\ Due(n, t) /\ Disable(n, t[1])
        /\ \/ I = {} /\ UNCHANGED <<txQueue, lowerVars>>
           \/ I # {} /\ txQueue' = [txQueue EXCEPT ![n] = Without(@, i)]
           \/ I # {} /\ _resendSegment(n, i)
  BY <1>1 DEF _checkTxQueueMetadata
<1>3. I # {} => i \in DOMAIN txQueue[n]
  BY FoundIndex DEF LayerInv, ResultInv
<1>4. NodeTypes /\ txQueue[n] \in Seq(Metadata) /\ Len(txQueue[n]) <= 1
  BY LayerTypes DEF NodeTypes, NodeServed
<1>5. CASE I = {} /\ UNCHANGED <<txQueue, lowerVars>>
  <2>1. ASSUME NEW k \in DOMAIN txQueue[n], txQueue[n][k].ackTimeout # Off,
               Armed(tasks[n], txQueue[n][k].ackTask)
        PROVE  Armed(tasks'[n], txQueue[n][k].ackTask)
    <3>1. txQueue[n][k].ackTimeout = Running
      <4>1. txQueue[n][k] \in Metadata
        BY EntryType DEF LayerInv, ResultInv
      <4> QED BY <1>5, <2>1, <4>1 DEF Metadata
    <3>2. txQueue[n][k].ackTask # t[1]
      BY <1>2, <3>1 DEF Due
    <3>3. tasks'[n] = Disabled(tasks[n], t[1])
      BY <1>2, <1>4 DEF Disable, NodeTypes, Disabled
    <3> QED BY <2>1, <3>2, <3>3, ArmedBesides
  <2> QED BY <1>5, <2>1, StillServed DEF lowerVars
<1> HIDE DEF I, i
<1>6. CASE I # {} /\ txQueue' = [txQueue EXCEPT ![n] = Without(@, i)]
  <2>1. Without(txQueue[n], i) = <<>>
    BY <1>3, <1>4, <1>6, OneEntry
  <2>2. txQueue'[n] = <<>>
    BY <1>4, <1>6, <2>1 DEF NodeTypes
  <2> QED BY <2>2, NoneLeft
<1>7. CASE I # {} /\ _resendSegment(n, i)
  BY <1>3, <1>7, ResendServed
<1> QED BY <1>2, <1>5, <1>6, <1>7

LEMMA AckServed ==
  ASSUME LayerInv, NEW n \in Nodes, NodeServed(n), ReceiveAck(n) \/ RelayAck(n)
  PROVE  NodeServed(n)'
<1>1. PICK p \in net : _ackReceived(n, p.pdu)
  BY DEF ReceiveAck, RelayAck
<1> DEFINE I == {i \in DOMAIN txQueue[n] : txQueue[n][i].pdu.ID = p.pdu.ID}
           i == First(I)
<1>2. I = Indices(n, LAMBDA m : m.pdu.ID = p.pdu.ID)
  BY DEF Indices
<1>3. \/ UNCHANGED <<txQueue, tasks>>
      \/ I # {} /\ txQueue' = [txQueue EXCEPT ![n] = Without(@, i)]
  BY <1>1, <1>2 DEF _ackReceived
<1>4. I # {} => i \in DOMAIN txQueue[n]
  BY FoundIndex DEF LayerInv, ResultInv
<1>5. NodeTypes /\ txQueue[n] \in Seq(Metadata) /\ Len(txQueue[n]) <= 1
  BY LayerTypes DEF NodeTypes, NodeServed
<1> HIDE DEF I, i
<1>6. CASE UNCHANGED <<txQueue, tasks>>
  <2>1. wanEvents'[n] = wanEvents[n] \/ wanEvents'[n] # <<>>
    BY ResultType, WanAppend DEF LayerInv, ReceiveAck, RelayAck, Leaves, lowerVars
  <2>2. UNCHANGED pending
    BY DEF ReceiveAck, RelayAck, lowerVars
  <2> QED BY <1>6, <2>1, <2>2, StillServed
<1>7. CASE I # {} /\ txQueue' = [txQueue EXCEPT ![n] = Without(@, i)]
  <2>1. Without(txQueue[n], i) = <<>>
    BY <1>4, <1>5, <1>7, OneEntry
  <2>2. txQueue'[n] = <<>>
    BY <1>5, <1>7, <2>1 DEF NodeTypes
  <2> QED BY <2>2, NoneLeft
<1> QED BY <1>3, <1>6, <1>7

\* A reception pushes at most one frame, and uplink results after what is there.
LEMMA ReceptionServed ==
  ASSUME LayerInv, NEW n \in Nodes, NodeServed(n),
         ReceiveSegment(n) \/ RelaySegment(n) \/ RelayFails(n)
  PROVE  NodeServed(n)'
<1>1. PICK p \in net :
        \/ \E results \in Seq(Event) : \E packets : AnswerSegment(n, p, results, packets)
        \/ UNCHANGED pending /\ _sendThroughLoRaWAN(n, <<Result(NoID, FALSE)>>)
  BY ResultType, EmptySeq DEF ReceiveSegment, RelaySegment, RelayFails, Leaves
<1>2. UNCHANGED <<txQueue, tasks>> /\ (wanEvents[n] # <<>> => wanEvents'[n] # <<>>)
  <2>1. UNCHANGED <<txQueue, tasks>>
    BY DEF ReceiveSegment, RelaySegment, RelayFails
  <2>2. wanEvents[n] # <<>> => wanEvents'[n] # <<>>
    BY <1>1, ResultType, WanAppend, AnswerAppends DEF LayerInv
  <2> QED BY <2>1, <2>2
<1>3. NodeTypes /\ pending[n] \in Seq(Frame)
  BY LayerTypes DEF NodeTypes
<1>4. \A j \in DOMAIN pending[n] :
        \E k \in DOMAIN pending'[n] : pending'[n][k] = pending[n][j]
  <2>1. CASE UNCHANGED pending
    BY <2>1
  <2>2. CASE FreeFrameIds(n) # {} /\
             pending' = [pending EXCEPT ![n] = Append(@,
               MacFrame(First(FreeFrameIds(n)), p.tx, _buildAck(p.pdu)))]
    <3> DEFINE g == MacFrame(First(FreeFrameIds(n)), p.tx, _buildAck(p.pdu))
    <3>1. p.tx \in Hops /\ _buildAck(p.pdu) \in PDU
      BY DEF LayerInv, NetInv, GenuinePackets, Packet, Hops, _buildAck, PDU
    <3>2. g \in Frame
      BY <2>2, <3>1, FreeId DEF MacFrame, Frame
    <3>3. pending'[n] = Append(pending[n], g)
      BY <1>3, <2>2 DEF NodeTypes
    <3> HIDE DEF g
    <3> QED BY <1>3, <3>2, <3>3, AppendEntry
  <2> QED BY <1>1, <2>1, <2>2 DEF AnswerSegment
<1> QED BY <1>2, <1>4, StillServed

LEMMA ServedKept ==
  ASSUME LayerInv, RoutesMayMiss = FALSE, MaxOutstanding <= 1,
         NEW n \in Nodes, NodeServed(n), [Next]_vars
  PROVE  NodeServed(n)'
<1>1. NodeTypes /\ pending[n] \in Seq(Frame)
  BY LayerTypes DEF NodeTypes
<1>2. CASE UNCHANGED <<txQueue, pending, wanEvents, tasks>>
  BY <1>2, StillServed
<1>3. ASSUME NEW k \in Nodes \ {n}, NodeStep(k)
      PROVE  NodeServed(n)'
  <2>1. Untouched(n)
    BY <1>1, <1>3, StepLocal
  <2> QED BY <2>1, StillServed DEF Untouched
<1>4. CASE FrameSent(n)
  <2>1. /\ pending[n] # <<>> /\ UNCHANGED <<txQueue, wanEvents, tasks>>
        /\ pending' = [pending EXCEPT ![n] = [pending[n] EXCEPT ![1].sent = TRUE]]
    BY <1>4 DEF FrameSent
  <2>2. pending'[n] = [pending[n] EXCEPT ![1].sent = TRUE]
    BY <1>1, <2>1 DEF NodeTypes
  <2>3. ASSUME NEW j \in DOMAIN pending[n]
        PROVE  j \in DOMAIN pending'[n] /\ pending'[n][j].id = pending[n][j].id
    <3>1. pending[n][j] \in Frame
      BY <1>1, LenProperties, ElementOfSeq
    <3> QED BY <2>2, <3>1 DEF Frame
  <2> QED BY <2>1, <2>3, StillServed
<1>5. ASSUME NEW rx \in Hops, Transport_sendFails(n, rx)
      PROVE  NodeServed(n)'
  <2>1. UNCHANGED <<txQueue, tasks>> /\ Routing_sendFails(n, rx, NoID)
    BY <1>5 DEF Transport_sendFails
  <2>2. wanEvents'[n] # <<>> /\ UNCHANGED pending
    BY <2>1, FailedUplinkServes
  <2> QED BY <2>1, <2>2, StillServed
<1>6. CASE _delete_completed_tasks(n)
  <2>1. /\ UNCHANGED <<txQueue, pending, wanEvents>>
        /\ tasks'[n] = {t \in tasks[n] : t[2]}
    BY <1>1, <1>6 DEF _delete_completed_tasks, lowerVars, NodeTypes
  <2> QED BY <2>1, ArmedAfterDeletion, StillServed
<1>7. ASSUME NodeStep(n)
      PROVE  NodeServed(n)'
  BY <1>4, <1>5, <1>6, <1>7, TransportSendServed, SettledServed, ExpiryServed,
     CheckServed, AckServed, ReceptionServed DEF NodeStep
<1>8. UNCHANGED vars \/ Lose => UNCHANGED <<txQueue, pending, wanEvents, tasks>>
  BY DEF vars, lowerVars, Lose
<1> QED BY <1>2, <1>3, <1>7, <1>8 DEF Next, NodeStep, Hops

\* transport.cpp:239-301, 311-345: if every node has a route to every other and
\* its applications wait for the result of a segment before they send the next,
\* a segment without result always has something left that wakes it.
THEOREM NoneStuck ==
  ASSUME RoutesMayMiss = FALSE, MaxOutstanding <= 1
  PROVE  Spec => []NoStuckSegment
<1>1. Init => AllServed
  <2>1. ASSUME Init, NEW n \in Nodes
        PROVE  NodeServed(n)
    BY <2>1, EmptySeq DEF Init, NodeServed
  <2> QED BY <2>1 DEF AllServed
<1>2. AllServed /\ LayerInv /\ [Next]_vars => AllServed'
  <2>1. ASSUME AllServed, LayerInv, [Next]_vars, NEW n \in Nodes
        PROVE  NodeServed(n)'
    BY <2>1, ServedKept DEF AllServed
  <2> QED BY <2>1 DEF AllServed
<1>3. AllServed => NoStuckSegment
  BY DEF AllServed, NodeServed, Served, Armed, NoStuckSegment
<1> QED BY <1>1, <1>2, <1>3, LayerInvariant, PTL DEF Spec

=============================================================================
