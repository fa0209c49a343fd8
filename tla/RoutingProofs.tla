--------------------------- MODULE RoutingProofs ---------------------------
(***************************************************************************)
(* For every network, routes, identifiers and bounds: the frames listed    *)
(* for the upper layer are its own frames below, no frame carries a time   *)
(* to live that could wrap, the nodes together pass no packet on more      *)
(* often than the time to live it was made with allows, whatever that of a *)
(* packet of the server is, and they implement module Network.             *)
(* The identifiers of a queue are all different, so a frame that is        *)
(* settled strikes no other from the list; and a packet is in one place at *)
(* most, so that a step is about one packet, or two with a downlink.       *)
(***************************************************************************)
EXTENDS Routing, SequenceTheorems, TLAPS

USE RoutingAssumption

\* A packet that may travel in a frame.
Alive(p) == p \in PDU /\ p.ttl \in 1..(TtlWrap - 1)

\* The frames the time to live of a packet leaves it, once it is decremented.
Left(p) == (p.ttl - 1) % TtlWrap

DistinctIds(q) == \A j, k \in DOMAIN q : q[j].id = q[k].id => j = k

\* A queue of the layer below, with the identifiers listed for it.
ValidQueue(q, listed) ==
  /\ q \in Seq(Frame)
  /\ DistinctIds(q)
  /\ \A k \in DOMAIN q : Alive(q[k].pdu)
  /\ listed = OwnIds(q) /\ listed \in SUBSET Ids

ValidInbox(s) == s \in Seq(PDU) /\ \A k \in DOMAIN s : Alive(s[k])

QueuesOK ==
  /\ DOMAIN queue = Nodes /\ DOMAIN higherLayerPackets = Nodes
  /\ queue = [n \in Nodes |-> queue[n]]
  /\ higherLayerPackets = [n \in Nodes |-> higherLayerPackets[n]]
  /\ \A n \in Nodes : ValidQueue(queue[n], higherLayerPackets[n])

InboxesOK ==
  /\ inbox \in [Nodes -> Seq(PDU)]
  /\ \A n \in Nodes : ValidInbox(inbox[n])

TaskNames == {"Sent", "Failed", "Downlink"}

ValidWan(tasks, dl) ==
  /\ tasks \in [Nodes -> Seq(TaskNames)]
  /\ dl \in [Nodes -> PDU \union {NoDownlink}]

HistoryOK ==
  /\ dst \in [Packets -> Hops]
  /\ handed \in [Packets -> SUBSET Nodes]
  /\ uplinked \subseteq Packets
  /\ allowed \in [Packets -> 0..(TtlWrap - 1)]
  /\ sends \in [Packets -> 0..TtlWrap]

BoundsOK ==
  /\ routes \in [Nodes -> [Dsts -> Hops]]
  /\ changes \in 0..MaxChanges /\ reinits \in 0..MaxReinits

IInv == QueuesOK /\ InboxesOK /\ ValidWan(wanTasks, downlink) /\ HistoryOK /\ BoundsOK

---------------------------------------------------------------------------
(* Queues. *)

\* A frame with an identifier that no other has.
LEMMA AppendFrame ==
  ASSUME NEW q, NEW listed, ValidQueue(q, listed), NEW f \in Frame, Alive(f.pdu),
         \A k \in DOMAIN q : q[k].id # f.id
  PROVE  ValidQueue(Append(q, f), IF f.own THEN listed \union {f.id} ELSE listed)
<1> DEFINE r == Append(q, f)
<1>1. q \in Seq(Frame) /\ DOMAIN q = 1..Len(q) /\ Len(q) \in Nat
  BY DEF ValidQueue
<1>2. /\ r \in Seq(Frame) /\ DOMAIN r = 1..(Len(q) + 1)
      /\ \A k \in DOMAIN q : r[k] = q[k]
      /\ r[Len(q) + 1] = f
  BY <1>1
<1> HIDE DEF r
<1>3. \A k \in DOMAIN r : k \in DOMAIN q \/ k = Len(q) + 1
  BY <1>1, <1>2
<1>4. DOMAIN q \subseteq DOMAIN r /\ Len(q) + 1 \in DOMAIN r
  BY <1>1, <1>2
<1>5. DistinctIds(r)
  BY <1>2, <1>3 DEF DistinctIds, ValidQueue
<1>6. \A k \in DOMAIN r : Alive(r[k].pdu)
  BY <1>2, <1>3 DEF ValidQueue
<1>7. OwnIds(r) = IF f.own THEN listed \union {f.id} ELSE listed
  <2>1. OwnIds(r) \subseteq (IF f.own THEN listed \union {f.id} ELSE listed)
    BY <1>2, <1>3 DEF OwnIds, ValidQueue
  <2>2. listed \subseteq OwnIds(r)
    BY <1>2, <1>4 DEF OwnIds, ValidQueue
  <2>3. f.own => f.id \in OwnIds(r)
    BY <1>2, <1>4 DEF OwnIds
  <2> QED BY <2>1, <2>2, <2>3
<1>8. f.id \in Ids
  BY DEF Frame
<1> QED BY <1>2, <1>5, <1>6, <1>7, <1>8 DEF ValidQueue, r

\* The frame that is settled leaves with its identifier.
LEMMA TailFrame ==
  ASSUME NEW q, NEW listed, ValidQueue(q, listed), q # <<>>
  PROVE  ValidQueue(Tail(q), listed \ {Head(q).id})
<1> DEFINE r == Tail(q)
<1>1. q \in Seq(Frame) /\ DOMAIN q = 1..Len(q) /\ Len(q) \in Nat \ {0}
  BY EmptySeq DEF ValidQueue
<1>2. /\ r \in Seq(Frame) /\ DOMAIN r = 1..(Len(q) - 1)
      /\ \A k \in DOMAIN r : r[k] = q[k + 1] /\ k + 1 \in DOMAIN q
      /\ Head(q) = q[1] /\ 1 \in DOMAIN q
  BY <1>1
<1>3. \A j \in DOMAIN q : j = 1 \/ \E k \in DOMAIN r : j = k + 1
  <2> SUFFICES ASSUME NEW j \in DOMAIN q, j # 1 PROVE j - 1 \in DOMAIN r /\ j = (j - 1) + 1
    OBVIOUS
  <2> QED BY <1>1, <1>2
<1> HIDE DEF r
<1>4. DistinctIds(r)
  <2> SUFFICES ASSUME NEW j \in DOMAIN r, NEW k \in DOMAIN r, r[j].id = r[k].id
               PROVE  j = k
    BY DEF DistinctIds
  <2>1. j + 1 = k + 1
    BY <1>2 DEF DistinctIds, ValidQueue
  <2> QED BY <1>1, <1>2, <2>1
<1>5. \A k \in DOMAIN r : Alive(r[k].pdu)
  BY <1>2 DEF ValidQueue
<1>6. \A k \in DOMAIN r : r[k].id # q[1].id
  <2> SUFFICES ASSUME NEW k \in DOMAIN r, r[k].id = q[1].id PROVE FALSE
    OBVIOUS
  <2>1. k + 1 = 1
    BY <1>2 DEF DistinctIds, ValidQueue
  <2> QED BY <1>1, <1>2, <2>1
<1>7. OwnIds(r) = listed \ {Head(q).id}
  <2>1. OwnIds(r) \subseteq listed \ {Head(q).id}
    BY <1>2, <1>6 DEF OwnIds, ValidQueue
  <2>2. ASSUME NEW i \in listed \ {Head(q).id}
        PROVE  i \in OwnIds(r)
    <3>1. PICK j \in DOMAIN q : q[j].own /\ q[j].id = i
      BY DEF OwnIds, ValidQueue
    <3>2. j # 1
      BY <1>2, <3>1
    <3> QED BY <1>2, <1>3, <3>1, <3>2 DEF OwnIds
  <2> QED BY <2>1, <2>2
<1> QED BY <1>2, <1>4, <1>5, <1>7 DEF ValidQueue, r

\* The first frame arrives, or the frames lose their owner.
LEMMA SameFrames ==
  ASSUME NEW q, NEW listed, ValidQueue(q, listed), NEW r \in Seq(Frame), DOMAIN r = DOMAIN q,
         \A k \in DOMAIN q : r[k].id = q[k].id /\ r[k].pdu = q[k].pdu
  PROVE  /\ (\A k \in DOMAIN q : r[k].own = q[k].own) => ValidQueue(r, listed)
         /\ (\A k \in DOMAIN q : ~r[k].own) => ValidQueue(r, {})
<1>1. DistinctIds(r) /\ \A k \in DOMAIN r : Alive(r[k].pdu)
  BY DEF DistinctIds, ValidQueue
<1>2. (\A k \in DOMAIN q : r[k].own = q[k].own) => OwnIds(r) = OwnIds(q)
  BY DEF OwnIds
<1>3. (\A k \in DOMAIN q : ~r[k].own) => OwnIds(r) = {}
  BY DEF OwnIds
<1> QED BY <1>1, <1>2, <1>3 DEF ValidQueue

---------------------------------------------------------------------------
(* Packets. *)

\* What a packet has left, also when it came with nothing.
LEMMA LeftIs ==
  ASSUME NEW p \in PDU
  PROVE  /\ Left(p) \in 0..(TtlWrap - 1)
         /\ p.ttl # 0 => Left(p) = p.ttl - 1
         /\ ~Expired(p) => Left(p) # 0
<1>1. p.ttl \in 0..(TtlWrap - 1) /\ TtlWrap \in Nat /\ TtlWrap >= 2
  BY DEF PDU
<1>2. (0 - 1) % TtlWrap = TtlWrap - 1
  BY <1>1
<1>3. CASE p.ttl = 0
  BY <1>1, <1>2, <1>3 DEF Left, Expired
<1>4. CASE p.ttl # 0
  <2>1. (p.ttl - 1) % TtlWrap = p.ttl - 1
    BY <1>1, <1>4
  <2> QED BY <1>1, <1>4, <2>1 DEF Left, Expired
<1> QED BY <1>3, <1>4

\* A hop takes one of what is left, and 0 is no longer there.
LEMMA HopAlive ==
  ASSUME NEW p \in PDU, ~Expired(p)
  PROVE  /\ Alive(OneHopLess(p))
         /\ OneHopLess(p).name = p.name /\ OneHopLess(p).dst = p.dst
         /\ OneHopLess(p).ttl = Left(p)
<1>1. OneHopLess(p) = [p EXCEPT !.ttl = Left(p)]
  BY DEF OneHopLess, Left
<1>2. Left(p) \in 1..(TtlWrap - 1) /\ Left(p) \in 0..(TtlWrap - 1)
  BY LeftIs
<1> QED BY <1>1, <1>2 DEF Alive, PDU

LEMMA NewAlive ==
  ASSUME NEW p \in Packets, NEW d \in Dsts
  PROVE  Alive(NewPDU(p, d)) /\ NewPDU(p, d).name = p
BY DEF Alive, NewPDU, PDU

LEMMA AnswerAlive ==
  ASSUME NEW d, NEW a \in ServerPDU(d)
  PROVE  a \in PDU /\ a.dst \in Hops /\ AnswerFrames(a) = Left(a) /\ Left(a) \in 0..(TtlWrap - 1)
<1>1. /\ a = [name |-> a.name, dst |-> a.dst, ttl |-> a.ttl]
      /\ a.name \in Packets /\ a.dst \in Nodes /\ a.ttl \in AnswerTTLs
  BY DEF ServerPDU
<1>2. a.ttl \in 0..(TtlWrap - 1)
  BY <1>1
<1>3. a \in PDU /\ a.dst \in Hops
  BY <1>1, <1>2 DEF PDU, Dsts, Hops
<1> QED BY <1>3, LeftIs DEF AnswerFrames, Left

---------------------------------------------------------------------------
(* The calls of the layers below. *)

LEMMA MacSendStep ==
  ASSUME QueuesOK, HistoryOK, NEW n \in Nodes, NEW hop \in Dsts, NEW p, Alive(p),
         NEW own \in BOOLEAN, MAC_send(n, hop, p, own),
         higherLayerPackets' = [m \in Nodes |->
           IF m = n /\ own THEN higherLayerPackets[m] \union {FreshId(n)}
           ELSE higherLayerPackets[m]]
  PROVE  QueuesOK' /\ sends' \in [Packets -> 0..TtlWrap]
<1> DEFINE f == [id |-> FreshId(n), rx |-> hop, pdu |-> p, arrived |-> FALSE, own |-> own]
<1>1. FreshId(n) \in FreshIds(n)
  BY DEF MAC_send, FreshId
<1>2. f \in Frame /\ Alive(f.pdu) /\ f.own = own /\ f.id = FreshId(n)
  BY <1>1 DEF Frame, FreshIds, Alive
<1>3. \A k \in DOMAIN queue[n] : queue[n][k].id # f.id
  BY <1>1, <1>2 DEF FreshIds
<1>4. queue' = [queue EXCEPT ![n] = Append(queue[n], f)]
  BY DEF MAC_send
<1> HIDE DEF f
<1>5. ValidQueue(queue[n], higherLayerPackets[n])
  BY DEF QueuesOK
<1>6. ValidQueue(Append(queue[n], f),
        IF f.own THEN higherLayerPackets[n] \union {f.id} ELSE higherLayerPackets[n])
  BY <1>2, <1>3, <1>5, AppendFrame
<1>7. ASSUME NEW m \in Nodes
      PROVE  ValidQueue(queue'[m], higherLayerPackets'[m])
  <2>1. CASE m = n
    BY <1>2, <1>4, <1>6, <2>1 DEF QueuesOK
  <2>2. CASE m # n
    BY <1>4, <2>2 DEF QueuesOK
  <2> QED BY <2>1, <2>2
<1>8. QueuesOK'
  BY <1>4, <1>7 DEF QueuesOK
<1>9. sends' \in [Packets -> 0..TtlWrap]
  <2>1. sends' = [sends EXCEPT ![p.name] =
                    IF sends[p.name] = TtlWrap THEN TtlWrap ELSE sends[p.name] + 1]
    BY DEF MAC_send
  <2>2. p.name \in Packets /\ sends[p.name] \in 0..TtlWrap /\ TtlWrap \in Nat
    BY DEF Alive, PDU, HistoryOK
  <2> QED BY <2>1, <2>2 DEF HistoryOK
<1> QED BY <1>8, <1>9

\* What an uplink leaves behind, with or without a downlink.
LEMMA UplinkStep ==
  ASSUME HistoryOK, NEW n \in Nodes, NEW p \in PDU, NEW tasks, NEW dl, ValidWan(tasks, dl)
  PROVE  /\ Failed(n, p, tasks, dl) \/ Sent(n, p, tasks, dl) =>
              ValidWan(wanTasks', downlink') /\ uplinked' \subseteq Packets
         /\ \A a \in PDU : SentWithDownlink(n, p, a, tasks, dl) =>
              ValidWan(wanTasks', downlink') /\ uplinked' \subseteq Packets
<1>1. p.name \in Packets
  BY DEF PDU
<1>2. tasks[n] \in Seq(TaskNames)
  BY DEF ValidWan
<1>3. /\ Append(tasks[n], "Failed") \in Seq(TaskNames)
      /\ Append(tasks[n], "Sent") \in Seq(TaskNames)
      /\ tasks[n] \o <<"Downlink", "Sent">> \in Seq(TaskNames)
  BY <1>2 DEF TaskNames
<1>4. ASSUME Failed(n, p, tasks, dl)
      PROVE  ValidWan(wanTasks', downlink') /\ uplinked' \subseteq Packets
  BY <1>1, <1>3, <1>4 DEF Failed, ValidWan, HistoryOK
<1>5. ASSUME Sent(n, p, tasks, dl)
      PROVE  ValidWan(wanTasks', downlink') /\ uplinked' \subseteq Packets
  BY <1>1, <1>3, <1>5 DEF Sent, ValidWan, HistoryOK
<1>6. ASSUME NEW a \in PDU, SentWithDownlink(n, p, a, tasks, dl)
      PROVE  ValidWan(wanTasks', downlink') /\ uplinked' \subseteq Packets
  BY <1>1, <1>3, <1>6 DEF SentWithDownlink, ValidWan, HistoryOK
<1> QED BY <1>4, <1>5, <1>6

---------------------------------------------------------------------------
(* A packet that was handed over, with the list of the upper layer as it was. *)
LEMMA ProcessStep ==
  ASSUME IInv, NEW n \in Nodes, NEW p \in PDU, NEW tasks, NEW dl, ValidWan(tasks, dl),
         _processReceivedPacket(n, p, tasks, dl), UNCHANGED higherLayerPackets
  PROVE  QueuesOK' /\ ValidWan(wanTasks', downlink') /\ HistoryOK'
<1>1. p.name \in Packets /\ p.dst \in Dsts
  BY DEF PDU
<1>2. QueuesOK /\ HistoryOK /\ BoundsOK
  BY DEF IInv
<1>3. HandUp(n, p) => handed' \in [Packets -> SUBSET Nodes]
  BY <1>1, <1>2 DEF HandUp, HistoryOK
<1>4. UNCHANGED queue => QueuesOK'
  BY <1>2 DEF QueuesOK
<1>5. CASE ForUs(n, p, tasks, dl)
  BY <1>2, <1>3, <1>4, <1>5 DEF ForUs, HistoryOK
<1>6. CASE Drop(n, p, tasks, dl)
  BY <1>2, <1>4, <1>6 DEF Drop, HistoryOK, historyVars
<1>7. CASE ToServer(n, p, tasks, dl)
  <2>1. OneHopLess(p) \in PDU
    BY <1>7, HopAlive DEF ToServer, Alive
  <2>2. QueuesOK' /\ UNCHANGED sends
    BY <1>4, <1>7 DEF ToServer
  <2>3. CASE Failed(n, OneHopLess(p), tasks, dl) /\ UNCHANGED <<dst, allowed, handed>>
    <3>1. ValidWan(wanTasks', downlink') /\ uplinked' \subseteq Packets
      BY <1>2, <2>1, <2>3, UplinkStep
    <3> QED BY <1>2, <2>2, <2>3, <3>1 DEF HistoryOK
  <2>4. CASE Sent(n, OneHopLess(p), tasks, dl) /\ HandUp(n, p) /\ UNCHANGED <<dst, allowed>>
    <3>1. ValidWan(wanTasks', downlink') /\ uplinked' \subseteq Packets
      BY <1>2, <2>1, <2>4, UplinkStep
    <3> QED BY <1>2, <1>3, <2>2, <2>4, <3>1 DEF HistoryOK
  <2>5. ASSUME NEW a \in ServerPDU(p.name),
               SentWithDownlink(n, OneHopLess(p), a, tasks, dl), HandUp(n, p),
               dst' = [dst EXCEPT ![a.name] = a.dst],
               allowed' = [allowed EXCEPT ![a.name] = AnswerFrames(a)]
        PROVE  ValidWan(wanTasks', downlink') /\ HistoryOK'
    <3>1. a \in PDU /\ a.dst \in Hops /\ AnswerFrames(a) \in 0..(TtlWrap - 1)
      BY AnswerAlive
    <3>2. ValidWan(wanTasks', downlink') /\ uplinked' \subseteq Packets
      BY <1>2, <2>1, <2>5, <3>1, UplinkStep
    <3>3. dst' \in [Packets -> Hops] /\ allowed' \in [Packets -> 0..(TtlWrap - 1)]
      BY <1>2, <2>5, <3>1 DEF HistoryOK
    <3> QED BY <1>2, <1>3, <2>2, <2>5, <3>2, <3>3 DEF HistoryOK
  <2> QED BY <1>7, <2>2, <2>3, <2>4, <2>5 DEF ToServer
<1>8. CASE Forward(n, p, tasks, dl)
  <2> DEFINE hop == RoutingTable_getRoute(n, p.dst)
  <2>1. hop \in Dsts
    BY <1>1, <1>2, <1>8 DEF Forward, RoutingTable_getRoute, BoundsOK, Hops
  <2>2. Alive(OneHopLess(p)) /\ MAC_send(n, hop, OneHopLess(p), FALSE)
    BY <1>8, HopAlive DEF Forward
  <2>3. higherLayerPackets' = [m \in Nodes |->
          IF m = n /\ FALSE THEN higherLayerPackets[m] \union {FreshId(n)}
          ELSE higherLayerPackets[m]]
    BY <1>2 DEF QueuesOK
  <2> HIDE DEF hop
  <2>4. QueuesOK' /\ sends' \in [Packets -> 0..TtlWrap]
    BY <1>2, <2>1, <2>2, <2>3, MacSendStep
  <2> QED BY <1>2, <1>8, <2>4 DEF Forward, HistoryOK
<1> QED BY <1>5, <1>6, <1>7, <1>8 DEF _processReceivedPacket

---------------------------------------------------------------------------
(* The actions. *)

LEMMA SendMacStep ==
  ASSUME IInv, NEW n \in Nodes, NEW p \in Packets, NEW d \in Dsts, SendMac(n, p, d)
  PROVE  IInv'
<1> DEFINE hop == RoutingTable_getRoute(n, d)
<1>1. hop \in Dsts
  BY DEF SendMac, RoutingTable_getRoute, IInv, BoundsOK, Hops
<1>2. Alive(NewPDU(p, d)) /\ MAC_send(n, hop, NewPDU(p, d), TRUE)
  BY NewAlive DEF SendMac
<1>3. higherLayerPackets' = [m \in Nodes |->
        IF m = n /\ TRUE THEN higherLayerPackets[m] \union {FreshId(n)}
        ELSE higherLayerPackets[m]]
  BY DEF SendMac, IInv, QueuesOK
<1> HIDE DEF hop
<1>4. QueuesOK' /\ sends' \in [Packets -> 0..TtlWrap]
  BY <1>1, <1>2, <1>3, MacSendStep DEF IInv
<1>5. dst' \in [Packets -> Hops] /\ allowed' \in [Packets -> 0..(TtlWrap - 1)]
  BY DEF SendMac, IInv, HistoryOK, Hops
<1> QED BY <1>4, <1>5 DEF SendMac, IInv, HistoryOK, InboxesOK, BoundsOK

LEMMA SendWanStep ==
  ASSUME IInv, NEW n \in Nodes, NEW p \in Packets, NEW d \in Dsts, SendWan(n, p, d)
  PROVE  IInv'
<1>1. NewPDU(p, d) \in PDU /\ HistoryOK /\ ValidWan(wanTasks, downlink)
  BY NewAlive DEF IInv, Alive
<1>2. QueuesOK' /\ InboxesOK' /\ BoundsOK'
  BY DEF SendWan, IInv, QueuesOK, InboxesOK, BoundsOK
<1>3. d \in Hops /\ MaxTTL \in 0..(TtlWrap - 1)
  BY DEF Hops
<1>4. CASE /\ Failed(n, NewPDU(p, d), wanTasks, downlink) \/ Sent(n, NewPDU(p, d), wanTasks, downlink)
           /\ dst' = [dst EXCEPT ![p] = d] /\ allowed' = [allowed EXCEPT ![p] = MaxTTL]
  <2>1. ValidWan(wanTasks', downlink') /\ uplinked' \subseteq Packets
    BY <1>1, <1>4, UplinkStep
  <2>2. dst' \in [Packets -> Hops] /\ allowed' \in [Packets -> 0..(TtlWrap - 1)]
    BY <1>1, <1>3, <1>4 DEF HistoryOK
  <2> QED BY <1>2, <2>1, <2>2 DEF SendWan, IInv, HistoryOK
<1>5. ASSUME NEW a \in ServerPDU(p), SentWithDownlink(n, NewPDU(p, d), a, wanTasks, downlink),
             dst' = [dst EXCEPT ![p] = d, ![a.name] = a.dst],
             allowed' = [allowed EXCEPT ![p] = MaxTTL, ![a.name] = AnswerFrames(a)]
      PROVE  IInv'
  <2>1. a \in PDU /\ a.dst \in Hops /\ AnswerFrames(a) \in 0..(TtlWrap - 1)
    BY AnswerAlive
  <2>2. ValidWan(wanTasks', downlink') /\ uplinked' \subseteq Packets
    BY <1>1, <1>5, <2>1, UplinkStep
  <2>3. dst' \in [Packets -> Hops] /\ allowed' \in [Packets -> 0..(TtlWrap - 1)]
    BY <1>1, <1>3, <1>5, <2>1 DEF HistoryOK
  <2> QED BY <1>2, <2>2, <2>3 DEF SendWan, IInv, HistoryOK
<1> QED BY <1>4, <1>5 DEF SendWan

LEMMA ArriveStep ==
  ASSUME IInv, NEW n \in Nodes, Arrive(n)
  PROVE  IInv'
<1> DEFINE q == queue[n]
           f == Head(q)
           r == [q EXCEPT ![1].arrived = TRUE]
<1>1. ValidQueue(q, higherLayerPackets[n])
  BY DEF IInv, QueuesOK
<1>2. q \in Seq(Frame) /\ q # <<>> /\ 1 \in DOMAIN q /\ f = q[1] /\ f \in Frame
  BY <1>1 DEF ValidQueue, Arrive
<1>3. Alive(f.pdu) /\ f.rx \in Nodes
  BY <1>1, <1>2 DEF ValidQueue, Arrive
<1>4. r \in Seq(Frame) /\ DOMAIN r = DOMAIN q
  <2>1. [q[1] EXCEPT !.arrived = TRUE] \in Frame
    BY <1>2 DEF Frame
  <2> QED BY <1>2, <2>1
<1>5. \A k \in DOMAIN q : r[k].id = q[k].id /\ r[k].pdu = q[k].pdu /\ r[k].own = q[k].own
  BY <1>2 DEF Frame
<1>6. queue' = [queue EXCEPT ![n] = r]
  BY DEF Arrive
<1>7. ValidQueue(r, higherLayerPackets[n])
  <2> HIDE DEF q, f, r
  <2> QED BY <1>1, <1>4, <1>5, SameFrames
<1>8. QueuesOK'
  <2> HIDE DEF q, f, r
  <2>1. \A m \in Nodes : queue'[m] = IF m = n THEN r ELSE queue[m]
    BY <1>6 DEF IInv, QueuesOK
  <2>2. UNCHANGED higherLayerPackets
    BY DEF Arrive
  <2> QED BY <1>6, <1>7, <2>1, <2>2 DEF IInv, QueuesOK
<1>9. InboxesOK'
  <2> HIDE DEF q
  <2>1. inbox' = [inbox EXCEPT ![f.rx] = Append(inbox[f.rx], f.pdu)]
    BY DEF Arrive, q
  <2>2. ValidInbox(inbox[f.rx]) /\ f.pdu \in PDU
    BY <1>3 DEF IInv, InboxesOK, Alive
  <2> HIDE DEF f
  <2>3. ValidInbox(Append(inbox[f.rx], f.pdu))
    BY <1>3, <2>2 DEF ValidInbox
  <2> QED BY <1>3, <2>1, <2>3 DEF IInv, InboxesOK, ValidInbox
<1> QED BY <1>8, <1>9 DEF Arrive, IInv, HistoryOK, BoundsOK, historyVars

LEMMA SettleStep ==
  ASSUME IInv, NEW n \in Nodes, Settle(n)
  PROVE  IInv'
<1>1. ValidQueue(Tail(queue[n]), higherLayerPackets[n] \ {Head(queue[n]).id})
  BY TailFrame DEF IInv, QueuesOK, Settle
<1>2. \A m \in Nodes :
        /\ queue'[m] = IF m = n THEN Tail(queue[n]) ELSE queue[m]
        /\ higherLayerPackets'[m] = IF m = n THEN higherLayerPackets[n] \ {Head(queue[n]).id}
                                    ELSE higherLayerPackets[m]
  BY DEF IInv, QueuesOK, Settle
<1>3. QueuesOK'
  BY <1>1, <1>2 DEF IInv, QueuesOK, Settle
<1> QED BY <1>3 DEF Settle, IInv, HistoryOK, InboxesOK, BoundsOK, historyVars

LEMMA MacReceivedStep ==
  ASSUME IInv, NEW n \in Nodes, _onMacReceived(n)
  PROVE  IInv'
<1>1. ValidInbox(inbox[n]) /\ inbox[n] # <<>>
  BY DEF IInv, InboxesOK, _onMacReceived
<1>2. Alive(Head(inbox[n])) /\ ValidInbox(Tail(inbox[n]))
  BY <1>1 DEF ValidInbox
<1>3. QueuesOK' /\ ValidWan(wanTasks', downlink') /\ HistoryOK'
  <2>1. ValidWan(wanTasks, downlink) /\ Head(inbox[n]) \in PDU
    BY <1>2 DEF IInv, Alive
  <2> QED BY <2>1, ProcessStep DEF _onMacReceived
<1>4. InboxesOK'
  BY <1>2 DEF IInv, InboxesOK, ValidInbox, _onMacReceived
<1> QED BY <1>3, <1>4 DEF _onMacReceived, IInv, BoundsOK

LEMMA WanTaskStep ==
  ASSUME IInv, NEW n \in Nodes, RunWanTask(n)
  PROVE  IInv'
<1> DEFINE rest == [wanTasks EXCEPT ![n] = Tail(@)]
<1>1. ValidWan(wanTasks, downlink) /\ wanTasks[n] # <<>>
  BY DEF IInv, RunWanTask
<1>2. rest \in [Nodes -> Seq(TaskNames)]
  <2>1. wanTasks[n] \in Seq(TaskNames)
    BY <1>1 DEF ValidWan
  <2>2. Tail(wanTasks[n]) \in Seq(TaskNames)
    BY <1>1, <2>1
  <2> QED BY <1>1, <2>2 DEF ValidWan
<1>3. UNCHANGED <<routes, inbox, higherLayerPackets, changes, reinits>>
  BY DEF RunWanTask
<1>4. CASE wanTasks' = rest /\ UNCHANGED <<queue, downlink, historyVars>>
  <2>1. ValidWan(wanTasks', downlink')
    BY <1>1, <1>2, <1>4 DEF ValidWan
  <2> QED BY <1>3, <1>4, <2>1 DEF IInv, QueuesOK, InboxesOK, HistoryOK, BoundsOK, historyVars
<1>5. CASE /\ downlink[n] # NoDownlink
           /\ _processReceivedPacket(n, downlink[n], rest, LW_receive(n))
  <2>1. downlink[n] \in PDU
    BY <1>1, <1>5 DEF ValidWan
  <2>2. ValidWan(rest, LW_receive(n))
    BY <1>1, <1>2 DEF ValidWan, LW_receive
  <2>3. QueuesOK' /\ ValidWan(wanTasks', downlink') /\ HistoryOK'
    <3> HIDE DEF rest
    <3> QED BY <1>3, <1>5, <2>1, <2>2, ProcessStep
  <2> QED BY <1>3, <2>3 DEF IInv, InboxesOK, BoundsOK
<1> QED BY <1>4, <1>5 DEF RunWanTask

LEMMA ReinitStep ==
  ASSUME IInv, NEW n \in Nodes, Reinit(n)
  PROVE  IInv'
<1> DEFINE q == queue[n]
           r == [k \in DOMAIN q |-> [q[k] EXCEPT !.own = FALSE]]
<1>1. ValidQueue(q, higherLayerPackets[n])
  BY DEF IInv, QueuesOK
<1>2. q \in Seq(Frame)
  BY <1>1 DEF ValidQueue
<1>3. \A k \in DOMAIN q : q[k] \in Frame
  BY <1>2
<1>4. \A k \in DOMAIN q :
        /\ r[k] \in Frame /\ ~r[k].own
        /\ r[k].id = q[k].id /\ r[k].pdu = q[k].pdu
  <2> SUFFICES ASSUME NEW k \in DOMAIN q
               PROVE  /\ r[k] \in Frame /\ ~r[k].own
                      /\ r[k].id = q[k].id /\ r[k].pdu = q[k].pdu
    BY Zenon
  <2>1. r[k] = [q[k] EXCEPT !.own = FALSE]
    OBVIOUS
  <2>2. q[k] \in Frame
    BY <1>3
  <2> HIDE DEF r, q
  <2> QED BY <2>1, <2>2 DEF Frame
<1>5. r \in Seq(Frame) /\ DOMAIN r = DOMAIN q
  <2>1. q \in [1..Len(q) -> Frame] /\ Len(q) \in Nat /\ DOMAIN q = 1..Len(q)
    BY <1>2
  <2>2. r = [k \in DOMAIN q |-> r[k]]
    OBVIOUS
  <2> HIDE DEF r, q
  <2>3. r \in [1..Len(q) -> Frame]
    BY <1>4, <2>1, <2>2
  <2> QED BY <2>1, <2>3, SeqDef
<1>6. queue' = [queue EXCEPT ![n] = r]
  BY SMT DEF Reinit
<1> HIDE DEF q, r
<1>7. ValidQueue(r, {})
  BY <1>1, <1>4, <1>5, SameFrames
<1>8. \A m \in Nodes :
        /\ queue'[m] = IF m = n THEN r ELSE queue[m]
        /\ higherLayerPackets'[m] = IF m = n THEN {} ELSE higherLayerPackets[m]
  BY <1>6 DEF IInv, QueuesOK, Reinit
<1>9. QueuesOK'
  BY <1>6, <1>7, <1>8 DEF IInv, QueuesOK, Reinit
<1> QED BY <1>9 DEF Reinit, IInv, HistoryOK, InboxesOK, BoundsOK, historyVars

LEMMA ChangeRouteStep ==
  ASSUME IInv, NEW n \in Nodes, NEW d \in Dsts, NEW h \in Hops, ChangeRoute(n, d, h)
  PROVE  IInv'
<1>1. routes' \in [Nodes -> [Dsts -> Hops]]
  <2>1. routes' = [routes EXCEPT ![n] = [routes[n] EXCEPT ![d] = h]]
    BY DEF ChangeRoute
  <2>2. [routes[n] EXCEPT ![d] = h] \in [Dsts -> Hops]
    BY DEF IInv, BoundsOK
  <2> QED BY <2>1, <2>2 DEF IInv, BoundsOK
<1>2. changes' \in 0..MaxChanges
  <2>1. MaxChanges \in Nat /\ changes \in 0..MaxChanges
    BY DEF IInv, BoundsOK
  <2>2. changes < MaxChanges /\ changes' = changes + 1
    BY DEF ChangeRoute
  <2> QED BY <2>1, <2>2
<1> QED BY <1>1, <1>2 DEF ChangeRoute, IInv, QueuesOK, InboxesOK, HistoryOK, BoundsOK,
                          netVars, historyVars

LEMMA Inductive ==
  ASSUME IInv, [Next]_vars
  PROVE  IInv'
<1>1. CASE UNCHANGED vars
  BY <1>1 DEF vars, netVars, historyVars, IInv, QueuesOK, InboxesOK, HistoryOK, BoundsOK
<1>2. ASSUME NEW n \in Nodes, NodeStep(n)
      PROVE  IInv'
  <2>1. CASE Send(n)
    BY <2>1, SendMacStep, SendWanStep DEF Send
  <2>2. CASE \E d \in Dsts, h \in Hops : ChangeRoute(n, d, h)
    BY <2>2, ChangeRouteStep
  <2> QED BY <1>2, <2>1, <2>2, ArriveStep, SettleStep, MacReceivedStep, WanTaskStep,
             ReinitStep DEF NodeStep
<1> QED BY <1>1, <1>2 DEF Next

---------------------------------------------------------------------------
\* The inductive invariant.
THEOREM RoutingInvariant == Spec => []IInv
<1>1. ASSUME Init
      PROVE  IInv
  <2>1. \A n \in Nodes : ValidQueue(<<>>, {})
    BY DEF ValidQueue, DistinctIds, OwnIds
  <2>2. QueuesOK
    BY <1>1, <2>1 DEF Init, QueuesOK
  <2>3. InboxesOK
    BY <1>1 DEF Init, InboxesOK, ValidInbox
  <2>4. ValidWan(wanTasks, downlink)
    BY <1>1 DEF Init, ValidWan
  <2>5. HistoryOK
    BY <1>1 DEF Init, HistoryOK, Hops
  <2>6. BoundsOK
    BY <1>1 DEF Init, BoundsOK
  <2> QED BY <2>2, <2>3, <2>4, <2>5, <2>6 DEF IInv
<1>2. IInv /\ [Next]_vars => IInv'
  BY Inductive
<1> QED BY <1>1, <1>2, PTL DEF Spec

\* routing.cpp:9-18, lorawan.cpp:34-38: the list, the buffer and what is below.
THEOREM TypeCorrect == Spec => []TypeOK
<1>1. ASSUME IInv
      PROVE  TypeOK
  <2>1. queue \in [Nodes -> Seq(Frame)] /\ higherLayerPackets \in [Nodes -> SUBSET Ids]
    BY <1>1 DEF IInv, QueuesOK, ValidQueue
  <2>2. /\ wanTasks \in [Nodes -> Seq({"Sent", "Failed", "Downlink"})]
        /\ downlink \in [Nodes -> PDU \union {NoDownlink}]
    BY <1>1 DEF IInv, ValidWan, TaskNames
  <2> QED BY <1>1, <2>1, <2>2 DEF IInv, InboxesOK, HistoryOK, BoundsOK, TypeOK
<1> QED BY <1>1, RoutingInvariant, PTL

\* tfe.tex:774: the upper layer is told of the frames it passed down and of no
\* frame that is forwarded, also when the packet is its own and came back.
THEOREM OwnFramesOnly == Spec => []OwnFramesListed
<1>1. IInv => OwnFramesListed
  BY DEF IInv, QueuesOK, ValidQueue, OwnFramesListed
<1> QED BY <1>1, RoutingInvariant, PTL

---------------------------------------------------------------------------
(* Every packet is in one place of the network at most, so what it has left *)
(* of its time to live and the frames it has taken add up.                 *)

Kinds == {"frame", "inbox", "buffer"}

Waiting(q)  == {q[k].pdu : k \in {j \in DOMAIN q : ~q[j].arrived}}
Got(s)      == {s[k] : k \in DOMAIN s}
Buffered(d) == IF d = NoDownlink THEN {} ELSE {d}

\* The packets in a place: not arrived, not handed over, or not read.
Held(c, n) ==
  IF c = "frame" THEN Waiting(queue[n])
  ELSE IF c = "inbox" THEN Got(inbox[n]) ELSE Buffered(downlink[n])

DistinctWaiting(q) ==
  \A j, k \in DOMAIN q :
    ~q[j].arrived /\ ~q[k].arrived /\ q[j].pdu.name = q[k].pdu.name => j = k

DistinctGot(s) == \A j, k \in DOMAIN s : s[j].name = s[k].name => j = k

DistinctEverywhere == \A n \in Nodes : DistinctWaiting(queue[n]) /\ DistinctGot(inbox[n])

OnePlace ==
  \A c, d \in Kinds : \A n, m \in Nodes : \A x \in Held(c, n) : \A y \in Held(d, m) :
    x.name = y.name => c = d /\ n = m /\ x = y

Fresh(p) == sends[p] = 0 /\ handed[p] = {} /\ p \notin uplinked

OnItsWay(x) ==
  /\ sends[x.name] + Left(x) = allowed[x.name]
  /\ dst[x.name] = x.dst
  /\ handed[x.name] = {} /\ x.name \notin uplinked

TravelInv ==
  /\ DistinctEverywhere
  /\ OnePlace
  /\ \A c \in Kinds, n \in Nodes : \A x \in Held(c, n) : OnItsWay(x)
  /\ \A p \in Packets : dst[p] = NoRoute => Fresh(p)
  /\ HopsBounded

LEMMA HeldAlive ==
  ASSUME IInv, NEW c \in Kinds, NEW n \in Nodes, NEW x \in Held(c, n)
  PROVE  x \in PDU /\ x.name \in Packets /\ x.dst \in Dsts /\ (c # "buffer" => Alive(x))
<1>1. CASE c # "buffer"
  <2>1. Alive(x)
    BY <1>1 DEF IInv, QueuesOK, InboxesOK, ValidQueue, ValidInbox, Held, Waiting, Got, Kinds
  <2> QED BY <2>1 DEF Alive, PDU
<1>2. CASE c = "buffer"
  BY <1>2 DEF IInv, ValidWan, Held, Buffered, PDU
<1> QED BY <1>1, <1>2

---------------------------------------------------------------------------
(* What a step does to the packets of R: those of G are in a place of node *)
(* k after it, the others are in none. It does nothing to other packets,   *)
(* but that some may be lost.                                              *)

Names(G) == {x.name : x \in G}

Holds(p) == \E c \in Kinds, n \in Nodes : \E x \in Held(c, n) : x.name = p

SameRecord(p) ==
  /\ dst'[p] = dst[p] /\ allowed'[p] = allowed[p] /\ handed'[p] = handed[p]
  /\ p \in uplinked' <=> p \in uplinked

Goes(p) == Holds(p) /\ SameRecord(p)

Starts(p, G) ==
  /\ dst[p] = NoRoute /\ dst'[p] \in Dsts /\ handed'[p] = {}
  /\ p \in Names(G) => (p \in uplinked' <=> p \in uplinked)

Ends(p) ==
  /\ Holds(p) /\ dst'[p] = dst[p]
  /\ \/ handed'[p] \in {{}, {dst[p]}} /\ (p \in uplinked' <=> p \in uplinked)
     \/ \E n \in WanNodes :
          handed'[p] \in {{}, {n}} /\ (handed'[p] = {n} => p \in uplinked')

Fate(p, G) == Starts(p, G) \/ (IF p \in Names(G) THEN Goes(p) ELSE Ends(p))

Moves(R, z, k, G) ==
  /\ DistinctEverywhere'
  /\ \A c \in Kinds, n \in Nodes : \A x \in Held(c, n)' :
       (x \in Held(c, n) /\ x.name \notin R) \/ (c = z /\ n = k /\ x \in G)
  /\ G \subseteq Held(z, k)'
  /\ \A x \in G : x.name \in R /\ OnItsWay(x)'
  /\ \A x, y \in G : x = y
  /\ \A p \in Packets \ R : SameRecord(p) /\ sends'[p] = sends[p]
  /\ \A p \in R : sends'[p] <= allowed'[p] /\ Fate(p, G)

PacketStep ==
  \E R \in SUBSET Packets, z \in Kinds, k \in Nodes, G \in SUBSET PDU : Moves(R, z, k, G)

LEMMA HeldRecord ==
  ASSUME IInv, TravelInv, NEW p, Holds(p)
  PROVE  /\ p \in Packets /\ dst[p] # NoRoute /\ dst[p] \in Dsts
         /\ handed[p] = {} /\ p \notin uplinked
<1>1. PICK c \in Kinds, n \in Nodes : \E x \in Held(c, n) : x.name = p
  BY DEF Holds
<1>2. PICK x \in Held(c, n) : x.name = p
  BY <1>1
<1>3. OnItsWay(x)
  BY DEF TravelInv
<1> QED BY <1>2, <1>3, HeldAlive DEF OnItsWay

LEMMA MovesKeep ==
  ASSUME IInv, TravelInv, PacketStep
  PROVE  TravelInv'
<1>1. PICK R \in SUBSET Packets, z \in Kinds, k \in Nodes, G \in SUBSET PDU :
        Moves(R, z, k, G)
  BY DEF PacketStep
<1>2. \A c \in Kinds, n \in Nodes : \A x \in Held(c, n)' :
        (x \in Held(c, n) /\ x.name \notin R) \/ (c = z /\ n = k /\ x \in G)
  BY <1>1 DEF Moves
<1>3. \A x \in G : x.name \in R /\ OnItsWay(x)'
  BY <1>1 DEF Moves
<1>4. \A x, y \in G : x = y
  BY <1>1 DEF Moves
<1>5. \A p \in Packets \ R : SameRecord(p) /\ sends'[p] = sends[p]
  BY <1>1 DEF Moves
<1>6. OnePlace'
  <2>1. SUFFICES ASSUME NEW c \in Kinds, NEW d \in Kinds, NEW n \in Nodes, NEW m \in Nodes,
                        NEW x \in Held(c, n)', NEW y \in Held(d, m)', x.name = y.name
                 PROVE  c = d /\ n = m /\ x = y
    BY DEF OnePlace
  <2>2. CASE x \in Held(c, n) /\ x.name \notin R
    <3>1. y \in Held(d, m)
      BY <1>2, <1>3, <2>1, <2>2
    <3> QED BY <2>1, <2>2, <3>1 DEF TravelInv, OnePlace
  <2>3. CASE c = z /\ n = k /\ x \in G
    <3>1. d = z /\ m = k /\ y \in G
      BY <1>2, <1>3, <2>1, <2>3
    <3> QED BY <1>4, <2>3, <3>1
  <2> QED BY <1>2, <2>2, <2>3
<1>7. \A c \in Kinds, n \in Nodes : \A x \in Held(c, n)' : OnItsWay(x)'
  <2>1. ASSUME NEW c \in Kinds, NEW n \in Nodes, NEW x \in Held(c, n), x.name \notin R
        PROVE  OnItsWay(x)'
    <3>1. x.name \in Packets \ R /\ OnItsWay(x)
      BY <2>1, HeldAlive DEF TravelInv
    <3> QED BY <1>5, <3>1 DEF OnItsWay, SameRecord
  <2> QED BY <1>2, <1>3, <2>1
<1>8. ASSUME NEW p \in Packets
      PROVE  (dst'[p] = NoRoute => Fresh(p)') /\ sends'[p] <= allowed'[p]
  <2>1. CASE p \in R
    <3>1. sends'[p] <= allowed'[p] /\ Fate(p, G)
      BY <1>1, <2>1 DEF Moves
    <3>2. dst'[p] # NoRoute
      BY <3>1, HeldRecord DEF Fate, Goes, Starts, Ends, SameRecord
    <3> QED BY <3>1, <3>2
  <2>2. CASE p \notin R
    <3>1. SameRecord(p) /\ sends'[p] = sends[p]
      BY <1>5, <2>2
    <3> QED BY <3>1 DEF TravelInv, HopsBounded, SameRecord, Fresh
  <2> QED BY <2>1, <2>2
<1>9. DistinctEverywhere'
  BY <1>1 DEF Moves
<1> QED BY <1>6, <1>7, <1>8, <1>9 DEF TravelInv, HopsBounded

---------------------------------------------------------------------------
(* What happens to the packets of one queue, and of one inbox. *)

LEMMA WaitingMore ==
  ASSUME NEW q \in Seq(Frame), NEW f \in Frame, ~f.arrived, DistinctWaiting(q),
         \A x \in Waiting(q) : x.name # f.pdu.name
  PROVE  /\ DistinctWaiting(Append(q, f))
         /\ Waiting(Append(q, f)) = Waiting(q) \union {f.pdu}
<1> DEFINE r == Append(q, f)
<1>1. DOMAIN q = 1..Len(q) /\ Len(q) \in Nat
  OBVIOUS
<1>2. /\ DOMAIN r = 1..(Len(q) + 1)
      /\ \A k \in DOMAIN q : r[k] = q[k]
      /\ r[Len(q) + 1] = f
  BY <1>1
<1> HIDE DEF r
<1>3. \A k \in DOMAIN r : k \in DOMAIN q \/ k = Len(q) + 1
  BY <1>1, <1>2
<1>4. DOMAIN q \subseteq DOMAIN r /\ Len(q) + 1 \in DOMAIN r
  BY <1>1, <1>2
<1>5. \A k \in DOMAIN q : ~q[k].arrived => q[k].pdu.name # f.pdu.name
  BY DEF Waiting
<1>6. DistinctWaiting(r)
  BY <1>2, <1>3, <1>5 DEF DistinctWaiting
<1>7. Waiting(r) \subseteq Waiting(q) \union {f.pdu}
  BY <1>2, <1>3 DEF Waiting
<1>8. Waiting(q) \subseteq Waiting(r) /\ f.pdu \in Waiting(r)
  BY <1>2, <1>4 DEF Waiting
<1> QED BY <1>6, <1>7, <1>8 DEF r

LEMMA WaitingLess ==
  ASSUME NEW q \in Seq(Frame), q # <<>>, DistinctWaiting(q)
  PROVE  DistinctWaiting(Tail(q)) /\ Waiting(Tail(q)) \subseteq Waiting(q)
<1> DEFINE r == Tail(q)
<1>1. DOMAIN q = 1..Len(q) /\ Len(q) \in Nat \ {0}
  BY EmptySeq
<1>2. /\ DOMAIN r = 1..(Len(q) - 1)
      /\ \A k \in DOMAIN r : r[k] = q[k + 1] /\ k + 1 \in DOMAIN q
  BY <1>1
<1> HIDE DEF r
<1>3. \A j, k \in DOMAIN r : j + 1 = k + 1 => j = k
  BY <1>1, <1>2
<1>4. DistinctWaiting(r) /\ Waiting(r) \subseteq Waiting(q)
  BY <1>2, <1>3 DEF DistinctWaiting, Waiting
<1> QED BY <1>4 DEF r

\* The frames stay and some of them, the first one or none, have arrived.
LEMMA WaitingSame ==
  ASSUME NEW q \in Seq(Frame), DistinctWaiting(q), NEW r, DOMAIN r = DOMAIN q,
         \A k \in DOMAIN q : r[k].pdu = q[k].pdu /\ (q[k].arrived => r[k].arrived)
  PROVE  DistinctWaiting(r) /\ Waiting(r) \subseteq Waiting(q)
BY DEF DistinctWaiting, Waiting

LEMMA FirstArrives ==
  ASSUME NEW q \in Seq(Frame), DistinctWaiting(q), q # <<>>, ~Head(q).arrived
  PROVE  LET r == [q EXCEPT ![1].arrived = TRUE] IN
         /\ DistinctWaiting(r) /\ Waiting(r) \subseteq Waiting(q)
         /\ Head(q).pdu \in Waiting(q)
         /\ \A x \in Waiting(r) : x.name # Head(q).pdu.name
<1> DEFINE r == [q EXCEPT ![1].arrived = TRUE]
<1>1. 1 \in DOMAIN q /\ Head(q) = q[1] /\ q[1] \in Frame
  BY EmptySeq
<1>2. DOMAIN r = DOMAIN q /\ r[1].arrived /\ r[1].pdu = q[1].pdu
  BY <1>1 DEF Frame
<1>3. \A k \in DOMAIN q : k # 1 => r[k] = q[k]
  OBVIOUS
<1> HIDE DEF r
<1>4. \A k \in DOMAIN q : r[k].pdu = q[k].pdu /\ (q[k].arrived => r[k].arrived)
  BY <1>2, <1>3
<1>5. DistinctWaiting(r) /\ Waiting(r) \subseteq Waiting(q)
  BY <1>2, <1>4, WaitingSame
<1>6. Head(q).pdu \in Waiting(q)
  BY <1>1 DEF Waiting
<1>7. ASSUME NEW x \in Waiting(r)
      PROVE  x.name # Head(q).pdu.name
  <2>1. PICK k \in DOMAIN q : ~r[k].arrived /\ x = r[k].pdu
    BY <1>2 DEF Waiting
  <2>2. k # 1 /\ r[k] = q[k]
    BY <1>2, <1>3, <2>1
  <2> QED BY <1>1, <2>1, <2>2 DEF DistinctWaiting
<1> QED BY <1>5, <1>6, <1>7 DEF r

LEMMA GotMore ==
  ASSUME NEW s \in Seq(PDU), NEW p \in PDU, DistinctGot(s), \A x \in Got(s) : x.name # p.name
  PROVE  DistinctGot(Append(s, p)) /\ Got(Append(s, p)) = Got(s) \union {p}
<1> DEFINE r == Append(s, p)
<1>1. DOMAIN s = 1..Len(s) /\ Len(s) \in Nat
  OBVIOUS
<1>2. /\ DOMAIN r = 1..(Len(s) + 1)
      /\ \A k \in DOMAIN s : r[k] = s[k]
      /\ r[Len(s) + 1] = p
  BY <1>1
<1> HIDE DEF r
<1>3. \A k \in DOMAIN r : k \in DOMAIN s \/ k = Len(s) + 1
  BY <1>1, <1>2
<1>4. DOMAIN s \subseteq DOMAIN r /\ Len(s) + 1 \in DOMAIN r
  BY <1>1, <1>2
<1>5. \A k \in DOMAIN s : s[k].name # p.name
  BY DEF Got
<1>6. DistinctGot(r)
  BY <1>2, <1>3, <1>5 DEF DistinctGot
<1>7. Got(r) \subseteq Got(s) \union {p} /\ Got(s) \subseteq Got(r) /\ p \in Got(r)
  BY <1>2, <1>3, <1>4 DEF Got
<1> QED BY <1>6, <1>7 DEF r

LEMMA GotLess ==
  ASSUME NEW s \in Seq(PDU), DistinctGot(s), s # <<>>
  PROVE  /\ DistinctGot(Tail(s)) /\ Head(s) \in Got(s)
         /\ \A x \in Got(Tail(s)) : x \in Got(s) /\ x.name # Head(s).name
<1> DEFINE r == Tail(s)
<1>1. DOMAIN s = 1..Len(s) /\ Len(s) \in Nat \ {0} /\ 1 \in DOMAIN s /\ Head(s) = s[1]
  BY EmptySeq
<1>2. /\ DOMAIN r = 1..(Len(s) - 1)
      /\ \A k \in DOMAIN r : r[k] = s[k + 1] /\ k + 1 \in DOMAIN s /\ k + 1 # 1
  BY <1>1
<1> HIDE DEF r
<1>3. \A j, k \in DOMAIN r : j + 1 = k + 1 => j = k
  BY <1>1, <1>2
<1>4. DistinctGot(r)
  BY <1>2, <1>3 DEF DistinctGot
<1>5. \A x \in Got(r) : x \in Got(s) /\ x.name # s[1].name
  BY <1>1, <1>2 DEF Got, DistinctGot
<1> QED BY <1>1, <1>4, <1>5 DEF r, Got

---------------------------------------------------------------------------
(* The steps. *)

\* Nothing happens to a packet, but that some may be lost.
LEMMA QuietStep ==
  ASSUME IInv, TravelInv, NEW k \in Nodes, UNCHANGED historyVars, DistinctEverywhere',
         \A c \in Kinds, n \in Nodes : Held(c, n)' \subseteq Held(c, n)
  PROVE  PacketStep
<1>1. Moves({}, "frame", k, {})
  BY DEF historyVars, Moves, SameRecord
<1> QED BY <1>1 DEF PacketStep, Kinds

LEMMA SettleMoves ==
  ASSUME IInv, TravelInv, NEW n \in Nodes, Settle(n)
  PROVE  PacketStep
<1>1. queue[n] \in Seq(Frame) /\ queue[n] # <<>> /\ DistinctWaiting(queue[n])
  BY DEF IInv, QueuesOK, ValidQueue, Settle, TravelInv, DistinctEverywhere
<1>2. DistinctWaiting(Tail(queue[n])) /\ Waiting(Tail(queue[n])) \subseteq Waiting(queue[n])
  BY <1>1, WaitingLess
<1>3. /\ \A m \in Nodes : queue'[m] = IF m = n THEN Tail(queue[n]) ELSE queue[m]
      /\ UNCHANGED <<inbox, downlink, historyVars>>
  BY DEF Settle, IInv, QueuesOK
<1>4. DistinctEverywhere'
  BY <1>2, <1>3 DEF DistinctEverywhere, TravelInv
<1>5. \A c \in Kinds, m \in Nodes : Held(c, m)' \subseteq Held(c, m)
  BY <1>2, <1>3 DEF Held
<1> QED BY <1>3, <1>4, <1>5, QuietStep

LEMMA ReinitMoves ==
  ASSUME IInv, TravelInv, NEW n \in Nodes, Reinit(n)
  PROVE  PacketStep
<1> DEFINE q == queue[n]
           r == [k \in DOMAIN q |-> [q[k] EXCEPT !.own = FALSE]]
<1>1. q \in Seq(Frame) /\ DistinctWaiting(q)
  BY DEF IInv, QueuesOK, ValidQueue, TravelInv, DistinctEverywhere
<1>2. ASSUME NEW k \in DOMAIN q
      PROVE  r[k].pdu = q[k].pdu /\ r[k].arrived = q[k].arrived
  <2>1. q[k] \in Frame /\ r[k] = [q[k] EXCEPT !.own = FALSE]
    BY <1>1
  <2> HIDE DEF r, q
  <2> QED BY <2>1 DEF Frame
<1>3. DOMAIN r = DOMAIN q
  OBVIOUS
<1>4. queue' = [queue EXCEPT ![n] = r]
  BY SMT DEF Reinit
<1> HIDE DEF r
<1>5. DistinctWaiting(r) /\ Waiting(r) \subseteq Waiting(q)
  BY <1>1, <1>2, <1>3, WaitingSame
<1>6. /\ \A m \in Nodes : queue'[m] = IF m = n THEN r ELSE queue[m]
      /\ UNCHANGED <<inbox, downlink, historyVars>>
  BY <1>4 DEF Reinit, IInv, QueuesOK
<1>7. DistinctEverywhere'
  BY <1>5, <1>6 DEF DistinctEverywhere, TravelInv
<1>8. \A c \in Kinds, m \in Nodes : Held(c, m)' \subseteq Held(c, m)
  BY <1>5, <1>6 DEF Held
<1> QED BY <1>6, <1>7, <1>8, QuietStep

LEMMA IdleMoves ==
  ASSUME IInv, TravelInv, NEW n \in Nodes, UNCHANGED <<queue, inbox, downlink, historyVars>>
  PROVE  PacketStep
<1>1. DistinctEverywhere'
  BY DEF DistinctEverywhere, TravelInv
<1>2. \A c \in Kinds, m \in Nodes : Held(c, m)' \subseteq Held(c, m)
  BY DEF Held
<1> QED BY <1>1, <1>2, QuietStep

\* A packet goes from the first frame of a node to the inbox of its next hop.
LEMMA ArriveMoves ==
  ASSUME IInv, TravelInv, NEW n \in Nodes, Arrive(n)
  PROVE  PacketStep
<1> DEFINE q == queue[n]
           r == [q EXCEPT ![1].arrived = TRUE]
<1>0. PICK p, to : p = Head(q).pdu /\ to = Head(q).rx
  OBVIOUS
<1>1. /\ q \in Seq(Frame) /\ q # <<>> /\ DistinctWaiting(q) /\ ~Head(q).arrived /\ to \in Nodes
      /\ UNCHANGED <<downlink, historyVars>>
  BY <1>0 DEF IInv, QueuesOK, ValidQueue, TravelInv, DistinctEverywhere, Arrive
<1>2. /\ DistinctWaiting(r) /\ Waiting(r) \subseteq Waiting(q) /\ p \in Waiting(q)
      /\ \A x \in Waiting(r) : x.name # p.name
  BY <1>0, <1>1, FirstArrives
<1>3. p \in Held("frame", n) /\ "frame" \in Kinds /\ "inbox" \in Kinds
  BY <1>2 DEF Held, Kinds
<1>4. p.name \in Packets /\ p \in PDU /\ OnItsWay(p)
  BY <1>3, HeldAlive DEF TravelInv
<1>5. queue' = [queue EXCEPT ![n] = r] /\ inbox' = [inbox EXCEPT ![to] = Append(inbox[to], p)]
  BY <1>0 DEF Arrive
<1> HIDE DEF q, r
<1>6. \A m \in Nodes : /\ queue'[m] = IF m = n THEN r ELSE queue[m]
                       /\ inbox'[m] = IF m = to THEN Append(inbox[to], p) ELSE inbox[m]
  BY <1>5 DEF IInv, QueuesOK, InboxesOK
<1>7. \A c \in Kinds, m \in Nodes : \A x \in Held(c, m) :
        x.name = p.name => c = "frame" /\ m = n
  BY <1>3 DEF TravelInv, OnePlace
<1>8. inbox[to] \in Seq(PDU) /\ DistinctGot(inbox[to]) /\ \A x \in Got(inbox[to]) : x.name # p.name
  <2>1. Got(inbox[to]) = Held("inbox", to)
    BY DEF Held
  <2> QED BY <1>1, <1>3, <1>7, <2>1 DEF IInv, InboxesOK, TravelInv, DistinctEverywhere
<1>9. DistinctGot(inbox'[to]) /\ Got(inbox'[to]) = Got(inbox[to]) \union {p}
  BY <1>1, <1>4, <1>6, <1>8, GotMore
<1>10. DistinctEverywhere'
  BY <1>2, <1>6, <1>9 DEF DistinctEverywhere, TravelInv
<1>11. ASSUME NEW c \in Kinds, NEW m \in Nodes, NEW x \in Held(c, m)'
       PROVE  (x \in Held(c, m) /\ x.name \notin {p.name}) \/ (c = "inbox" /\ m = to /\ x \in {p})
  <2>1. CASE c = "frame"
    <3>1. x \in Waiting(queue'[m])
      BY <2>1 DEF Held
    <3>2. x \in Held(c, m) /\ (m = n => x.name # p.name)
      BY <1>2, <1>6, <2>1, <3>1 DEF Held, q
    <3> QED BY <1>7, <3>2
  <2>2. CASE c = "inbox"
    <3>1. x \in Got(inbox'[m])
      BY <2>2 DEF Held
    <3>2. x \in Got(inbox[m]) \/ (m = to /\ x = p)
      BY <1>6, <1>9, <3>1
    <3> QED BY <1>3, <1>7, <2>2, <3>2 DEF Held
  <2>3. CASE c = "buffer"
    <3>1. x \in Held(c, m)
      BY <1>1, <2>3 DEF Held
    <3> QED BY <1>7, <2>3, <3>1
  <2> QED BY <2>1, <2>2, <2>3 DEF Kinds
<1>12. {p} \subseteq Held("inbox", to)'
  BY <1>9 DEF Held
<1>13. OnItsWay(p)'
  BY <1>1, <1>4 DEF OnItsWay, historyVars
<1>14. \A x \in {p.name} : sends'[x] <= allowed'[x] /\ Fate(x, {p})
  <2>1. Holds(p.name)
    BY <1>3 DEF Holds
  <2>2. Fate(p.name, {p})
    BY <1>1, <2>1 DEF Fate, Names, Goes, SameRecord, historyVars
  <2>3. sends'[p.name] <= allowed'[p.name]
    BY <1>1, <1>4 DEF TravelInv, HopsBounded, historyVars
  <2> QED BY <2>2, <2>3
<1>15. \A x \in Packets \ {p.name} : SameRecord(x) /\ sends'[x] = sends[x]
  BY <1>1 DEF historyVars, SameRecord
<1>16. Moves({p.name}, "inbox", to, {p})
  BY <1>10, <1>11, <1>12, <1>13, <1>14, <1>15 DEF Moves
<1> QED BY <1>1, <1>3, <1>4, <1>16 DEF PacketStep

\* What MAC_send adds.
LEMMA MacSendHeld ==
  ASSUME IInv, TravelInv, NEW n \in Nodes, NEW hop \in Dsts, NEW p, Alive(p),
         NEW own \in BOOLEAN, MAC_send(n, hop, p, own),
         \A x \in Held("frame", n) : x.name # p.name
  PROVE  /\ \A m \in Nodes : DistinctWaiting(queue'[m])
         /\ Held("frame", n)' = Held("frame", n) \union {p}
         /\ \A m \in Nodes \ {n} : Held("frame", m)' = Held("frame", m)
         /\ \A x \in Packets \ {p.name} : sends'[x] = sends[x]
         /\ sends[p.name] < TtlWrap => sends'[p.name] = sends[p.name] + 1
<1> DEFINE f == [id |-> FreshId(n), rx |-> hop, pdu |-> p, arrived |-> FALSE, own |-> own]
<1>1. FreshId(n) \in Ids
  BY DEF MAC_send, FreshId, FreshIds
<1>2. f \in Frame /\ f.pdu = p /\ ~f.arrived
  BY <1>1 DEF Frame, Alive
<1>3. queue' = [queue EXCEPT ![n] = Append(queue[n], f)]
  BY DEF MAC_send
<1> HIDE DEF f
<1>4. queue[n] \in Seq(Frame) /\ DistinctWaiting(queue[n])
  BY DEF IInv, QueuesOK, ValidQueue, TravelInv, DistinctEverywhere
<1>5. \A x \in Waiting(queue[n]) : x.name # f.pdu.name
  BY <1>2 DEF Held
<1>6. /\ DistinctWaiting(Append(queue[n], f))
      /\ Waiting(Append(queue[n], f)) = Waiting(queue[n]) \union {p}
  BY <1>2, <1>4, <1>5, WaitingMore
<1>7. \A m \in Nodes : queue'[m] = IF m = n THEN Append(queue[n], f) ELSE queue[m]
  BY <1>3 DEF IInv, QueuesOK
<1>8. \A m \in Nodes : DistinctWaiting(queue'[m])
  BY <1>6, <1>7 DEF TravelInv, DistinctEverywhere
<1>9. /\ Held("frame", n)' = Held("frame", n) \union {p}
      /\ \A m \in Nodes \ {n} : Held("frame", m)' = Held("frame", m)
  BY <1>6, <1>7 DEF Held
<1>10. sends' = [sends EXCEPT ![p.name] =
                   IF sends[p.name] = TtlWrap THEN sends[p.name] ELSE sends[p.name] + 1]
  BY DEF MAC_send
<1>11. p.name \in Packets /\ sends[p.name] \in 0..TtlWrap /\ DOMAIN sends = Packets
  BY DEF Alive, PDU, IInv, HistoryOK
<1> QED BY <1>8, <1>9, <1>10, <1>11

LEMMA SendMacMoves ==
  ASSUME IInv, TravelInv, NEW n \in Nodes, NEW p \in Packets, NEW d \in Dsts, SendMac(n, p, d)
  PROVE  PacketStep
<1> DEFINE hop == RoutingTable_getRoute(n, d)
           x == NewPDU(p, d)
<1>1. hop \in Dsts
  BY DEF SendMac, RoutingTable_getRoute, IInv, BoundsOK, Hops
<1>2. Alive(x) /\ x.name = p /\ x.dst = d /\ x.ttl = MaxTTL /\ x \in PDU
  BY NewAlive DEF NewPDU, Alive
<1>3. dst[p] = NoRoute /\ Fresh(p)
  BY DEF SendMac, TravelInv
<1>4. \A c \in Kinds, m \in Nodes : \A y \in Held(c, m) : y.name # p
  BY <1>3, HeldRecord DEF Holds
<1>5. MAC_send(n, hop, x, TRUE)
  BY DEF SendMac
<1> HIDE DEF hop, x
<1>6. /\ \A m \in Nodes : DistinctWaiting(queue'[m])
      /\ Held("frame", n)' = Held("frame", n) \union {x}
      /\ \A m \in Nodes \ {n} : Held("frame", m)' = Held("frame", m)
      /\ \A y \in Packets \ {p} : sends'[y] = sends[y]
      /\ sends[p] < TtlWrap => sends'[p] = sends[p] + 1
  <2>1. \A y \in Held("frame", n) : y.name # x.name
    BY <1>2, <1>4 DEF Kinds
  <2>2. /\ \A m \in Nodes : DistinctWaiting(queue'[m])
        /\ Held("frame", n)' = Held("frame", n) \union {x}
        /\ \A m \in Nodes \ {n} : Held("frame", m)' = Held("frame", m)
        /\ \A y \in Packets \ {x.name} : sends'[y] = sends[y]
        /\ sends[x.name] < TtlWrap => sends'[x.name] = sends[x.name] + 1
    BY <1>1, <1>2, <1>5, <2>1, MacSendHeld
  <2> QED BY <1>2, <2>2
<1>7. sends'[p] = 1 /\ MaxTTL \in Nat /\ MaxTTL >= 1
  BY <1>3, <1>6 DEF Fresh
<1>8. /\ dst' = [dst EXCEPT ![p] = d] /\ dst \in [Packets -> Hops]
      /\ allowed' = [allowed EXCEPT ![p] = MaxTTL] /\ DOMAIN allowed = Packets
      /\ UNCHANGED <<inbox, downlink, handed, uplinked>>
  BY DEF SendMac, IInv, HistoryOK
<1>9. DistinctEverywhere'
  BY <1>6, <1>8 DEF DistinctEverywhere, TravelInv
<1>10. ASSUME NEW c \in Kinds, NEW m \in Nodes, NEW y \in Held(c, m)'
       PROVE  (y \in Held(c, m) /\ y.name \notin {p}) \/ (c = "frame" /\ m = n /\ y \in {x})
  <2>1. CASE c = "frame"
    BY <1>4, <1>6, <2>1
  <2>2. CASE c # "frame"
    <3>1. y \in Held(c, m)
      BY <1>8, <2>2 DEF Held
    <3> QED BY <1>4, <3>1
  <2> QED BY <2>1, <2>2
<1>11. OnItsWay(x)'
  <2>1. Left(x) = MaxTTL - 1
    BY <1>2, <1>7, LeftIs
  <2>2. sends'[x.name] + Left(x) = allowed'[x.name]
    BY <1>2, <1>7, <1>8, <2>1
  <2> QED BY <1>2, <1>3, <1>8, <2>2 DEF OnItsWay, Fresh, Left
<1>12. Fate(p, {x})
  BY <1>3, <1>8 DEF Fate, Starts, Fresh
<1>13. \A y \in Packets \ {p} : SameRecord(y) /\ sends'[y] = sends[y]
  BY <1>6, <1>8 DEF SameRecord
<1>14. \A y \in {p} : sends'[y] <= allowed'[y] /\ Fate(y, {x})
  BY <1>7, <1>8, <1>12
<1>15. {x} \subseteq Held("frame", n)'
  BY <1>6
<1>16. Moves({p}, "frame", n, {x})
  BY <1>2, <1>9, <1>10, <1>11, <1>13, <1>14, <1>15 DEF Moves
<1> QED BY <1>2, <1>16 DEF PacketStep, Kinds

\* A packet of the server takes the buffer in the place of what was there.
LEMMA AnswerName ==
  ASSUME IInv, TravelInv, NEW p, NEW a \in ServerPDU(p)
  PROVE  /\ a \in PDU /\ a.name \in Packets /\ a.name # p /\ a.dst \in Dsts
         /\ dst[a.name] = NoRoute /\ Fresh(a.name)
         /\ AnswerFrames(a) = Left(a) /\ Left(a) \in Nat
         /\ \A c \in Kinds, m \in Nodes : \A y \in Held(c, m) : y.name # a.name
<1>1. /\ a.name \in Answers \ {p} /\ dst[a.name] = NoRoute /\ a.dst \in Nodes
  BY DEF ServerPDU
<1>2. /\ a \in PDU /\ a.name \in Packets
      /\ AnswerFrames(a) = Left(a) /\ Left(a) \in Nat
  BY AnswerAlive DEF PDU
<1>3. \A c \in Kinds, m \in Nodes : \A y \in Held(c, m) : y.name # a.name
  BY <1>1, HeldRecord DEF Holds
<1> QED BY <1>1, <1>2, <1>3 DEF TravelInv, Dsts

LEMMA SendWanMoves ==
  ASSUME IInv, TravelInv, NEW n \in Nodes, NEW p \in Packets, NEW d \in Dsts, SendWan(n, p, d)
  PROVE  PacketStep
<1>1. dst[p] = NoRoute /\ Fresh(p)
  BY DEF SendWan, TravelInv
<1>2. \A c \in Kinds, m \in Nodes : \A y \in Held(c, m) : y.name # p
  BY <1>1, HeldRecord DEF Holds
<1>3. NewPDU(p, d).name = p
  BY DEF NewPDU
<1>4. UNCHANGED <<queue, inbox, handed, sends>> /\ sends[p] = 0 /\ MaxTTL \in Nat
  BY <1>1 DEF SendWan, Fresh
<1>5. DistinctEverywhere'
  BY <1>4 DEF DistinctEverywhere, TravelInv
<1>6. /\ dst \in [Packets -> Hops] /\ allowed \in [Packets -> 0..(TtlWrap - 1)]
      /\ downlink \in [Nodes -> PDU \union {NoDownlink}]
  BY DEF IInv, HistoryOK, ValidWan
<1>7. CASE /\ Failed(n, NewPDU(p, d), wanTasks, downlink) \/ Sent(n, NewPDU(p, d), wanTasks, downlink)
           /\ dst' = [dst EXCEPT ![p] = d] /\ allowed' = [allowed EXCEPT ![p] = MaxTTL]
  <2>1. downlink' = downlink /\ uplinked' \in {uplinked, uplinked \union {p}}
    BY <1>3, <1>7 DEF Failed, Sent
  <2>2. \A c \in Kinds, m \in Nodes : \A y \in Held(c, m)' : y \in Held(c, m) /\ y.name \notin {p}
    BY <1>2, <1>4, <2>1 DEF Held
  <2>3. \A y \in Packets \ {p} : SameRecord(y) /\ sends'[y] = sends[y]
    BY <1>4, <1>6, <1>7, <2>1 DEF SameRecord
  <2>4. Fate(p, {})
    BY <1>1, <1>4, <1>6, <1>7 DEF Fate, Starts, Names, Fresh
  <2>5. \A y \in {p} : sends'[y] <= allowed'[y] /\ Fate(y, {})
    BY <1>4, <1>6, <1>7, <2>4
  <2>6. Moves({p}, "buffer", n, {})
    BY <1>5, <2>2, <2>3, <2>5 DEF Moves
  <2> QED BY <2>6 DEF PacketStep, Kinds
<1>8. ASSUME NEW a \in ServerPDU(p),
             SentWithDownlink(n, NewPDU(p, d), a, wanTasks, downlink),
             dst' = [dst EXCEPT ![p] = d, ![a.name] = a.dst],
             allowed' = [allowed EXCEPT ![p] = MaxTTL, ![a.name] = AnswerFrames(a)]
      PROVE  PacketStep
  <2> DEFINE G == Buffered(a)
             R == {p, a.name}
  <2>1. /\ a \in PDU /\ a.name \in Packets /\ a.name # p /\ a.dst \in Dsts
        /\ dst[a.name] = NoRoute /\ Fresh(a.name)
        /\ AnswerFrames(a) = Left(a) /\ Left(a) \in Nat
        /\ \A c \in Kinds, m \in Nodes : \A y \in Held(c, m) : y.name # a.name
    BY AnswerName
  <2>2. downlink' = [downlink EXCEPT ![n] = a] /\ uplinked' = uplinked \union {p}
    BY <1>3, <1>8 DEF SentWithDownlink
  <2>3. \A m \in Nodes : downlink'[m] = IF m = n THEN a ELSE downlink[m]
    BY <1>6, <2>2
  <2>4. G \subseteq {a} /\ Held("buffer", n)' = G
    BY <2>3 DEF Held, Buffered
  <2> HIDE DEF G
  <2>5. ASSUME NEW c \in Kinds, NEW m \in Nodes, NEW y \in Held(c, m)'
        PROVE  (y \in Held(c, m) /\ y.name \notin R) \/ (c = "buffer" /\ m = n /\ y \in G)
    <3>1. CASE c = "buffer" /\ m = n
      BY <2>4, <3>1
    <3>2. CASE ~(c = "buffer" /\ m = n)
      <4>1. y \in Held(c, m)
        BY <1>4, <2>3, <3>2 DEF Held, Kinds
      <4> QED BY <1>2, <2>1, <4>1
    <3> QED BY <3>1, <3>2
  <2>6. \A y \in Packets \ R : SameRecord(y) /\ sends'[y] = sends[y]
    BY <1>4, <1>6, <1>8, <2>2 DEF SameRecord
  <2>7. /\ dst'[p] = d /\ dst'[a.name] = a.dst
        /\ allowed'[p] = MaxTTL /\ allowed'[a.name] = Left(a)
    BY <1>6, <1>8, <2>1
  <2>8. p \notin Names(G)
    BY <2>1, <2>4 DEF Names
  <2>9. Fate(p, G)
    BY <1>1, <1>4, <2>7, <2>8 DEF Fate, Starts, Fresh
  <2>10. Fate(a.name, G)
    BY <1>4, <2>1, <2>2, <2>7 DEF Fate, Starts, Fresh
  <2>11. sends'[p] <= allowed'[p] /\ sends'[a.name] <= allowed'[a.name]
    BY <1>4, <2>1, <2>7 DEF Fresh
  <2>12. OnItsWay(a)'
    <3>1. sends'[a.name] + Left(a) = allowed'[a.name]
      BY <1>4, <2>1, <2>7 DEF Fresh
    <3> QED BY <1>4, <2>1, <2>2, <2>7, <3>1 DEF OnItsWay, Fresh, Left
  <2>13. G \in SUBSET PDU /\ R \in SUBSET Packets
    BY <2>1, <2>4
  <2>14. Moves(R, "buffer", n, G)
    <3>1. \A x \in G : x.name \in R /\ OnItsWay(x)'
      BY <2>4, <2>12
    <3>2. \A x, y \in G : x = y
      BY <2>4
    <3>3. \A x \in R : sends'[x] <= allowed'[x] /\ Fate(x, G)
      BY <2>9, <2>10, <2>11
    <3> HIDE DEF R
    <3> QED BY <1>5, <2>4, <2>5, <2>6, <3>1, <3>2, <3>3 DEF Moves
  <2> HIDE DEF R
  <2> QED BY <2>13, <2>14 DEF PacketStep, Kinds
<1> QED BY <1>7, <1>8 DEF SendWan

\* A packet that the layers below have just handed over is in no place any
\* more, whether it was the oldest of the inbox or in the buffer.
LEMMA ProcessMoves ==
  ASSUME IInv, TravelInv, NEW n \in Nodes, NEW c0 \in {"inbox", "buffer"},
         NEW p \in Held(c0, n), NEW tasks, NEW dl, ValidWan(tasks, dl),
         _processReceivedPacket(n, p, tasks, dl),
         \A m \in Nodes : DistinctGot(inbox'[m]),
         \A m \in Nodes : \A x \in Got(inbox'[m]) : x \in Got(inbox[m]) /\ x.name # p.name,
         \A m \in Nodes : \A x \in Buffered(dl[m]) :
           x \in Buffered(downlink[m]) /\ x.name # p.name
  PROVE  PacketStep
<1>1. /\ p \in PDU /\ p.name \in Packets /\ OnItsWay(p) /\ Holds(p.name)
      /\ handed[p.name] = {} /\ p.name \notin uplinked /\ dst[p.name] = p.dst
      /\ sends[p.name] <= allowed[p.name]
  <2>1. c0 \in Kinds
    BY DEF Kinds
  <2>2. p \in PDU /\ p.name \in Packets
    BY <2>1, HeldAlive
  <2>3. OnItsWay(p) /\ Holds(p.name)
    BY <2>1 DEF TravelInv, Holds
  <2> QED BY <2>2, <2>3 DEF OnItsWay, TravelInv, HopsBounded
<1>2. \A m \in Nodes : \A x \in Held("frame", m) : x.name # p.name
  <2>1. c0 \in Kinds /\ "frame" \in Kinds /\ c0 # "frame"
    BY DEF Kinds
  <2> QED BY <2>1 DEF TravelInv, OnePlace
<1>3. /\ dst \in [Packets -> Hops] /\ handed \in [Packets -> SUBSET Nodes]
      /\ allowed \in [Packets -> 0..(TtlWrap - 1)]
      /\ dl \in [Nodes -> PDU \union {NoDownlink}]
  BY DEF IInv, HistoryOK, ValidWan
<1>4. UNCHANGED queue => DistinctEverywhere'
  BY DEF DistinctEverywhere, TravelInv
\* It ends here.
<1>5. ASSUME UNCHANGED <<queue, allowed, sends>>, downlink' = dl, Ends(p.name),
             \A x \in Packets \ {p.name} : SameRecord(x)
      PROVE  PacketStep
  <2> DEFINE R == {p.name}
  <2>1. ASSUME NEW c \in Kinds, NEW m \in Nodes, NEW x \in Held(c, m)'
        PROVE  x \in Held(c, m) /\ x.name \notin R
    <3>1. CASE c = "frame"
      BY <1>2, <1>5, <3>1 DEF Held
    <3>2. CASE c = "inbox"
      BY <3>2 DEF Held
    <3>3. CASE c = "buffer"
      BY <1>5, <3>3 DEF Held
    <3> QED BY <3>1, <3>2, <3>3 DEF Kinds
  <2>2. Fate(p.name, {})
    BY <1>5 DEF Fate, Names
  <2>3. \A x \in R : sends'[x] <= allowed'[x] /\ Fate(x, {})
    BY <1>1, <1>5, <2>2
  <2>4. \A x \in Packets \ R : SameRecord(x) /\ sends'[x] = sends[x]
    BY <1>5
  <2> HIDE DEF R
  <2>5. Moves(R, "buffer", n, {})
    BY <1>4, <1>5, <2>1, <2>3, <2>4 DEF Moves
  <2>6. R \in SUBSET Packets
    BY <1>1 DEF R
  <2> QED BY <2>5, <2>6 DEF PacketStep, Kinds
<1>6. CASE ForUs(n, p, tasks, dl)
  <2>1. handed' = [handed EXCEPT ![p.name] = handed[p.name] \union {n}] /\ p.dst = n
        /\ downlink' = dl /\ UNCHANGED <<queue, dst, uplinked, allowed, sends>>
    BY <1>6 DEF ForUs, HandUp
  <2>2. handed'[p.name] = {dst[p.name]}
    BY <1>1, <1>3, <2>1
  <2>3. Ends(p.name)
    BY <1>1, <2>1, <2>2 DEF Ends
  <2>4. \A x \in Packets \ {p.name} : SameRecord(x)
    BY <1>3, <2>1 DEF SameRecord
  <2> QED BY <1>5, <2>1, <2>3, <2>4
<1>7. CASE Drop(n, p, tasks, dl)
  <2>1. downlink' = dl /\ UNCHANGED <<queue, dst, handed, uplinked, allowed, sends>>
    BY <1>7 DEF Drop, historyVars
  <2>2. Ends(p.name)
    BY <1>1, <2>1 DEF Ends
  <2> QED BY <1>5, <2>1, <2>2 DEF SameRecord
<1>8. CASE ToServer(n, p, tasks, dl)
  <2>1. OneHopLess(p).name = p.name /\ n \in WanNodes /\ UNCHANGED <<queue, sends>>
    BY <1>1, <1>8, HopAlive DEF ToServer
  <2>2. CASE Failed(n, OneHopLess(p), tasks, dl) /\ UNCHANGED <<dst, allowed, handed>>
    <3>1. downlink' = dl /\ uplinked' \in {uplinked, uplinked \union {p.name}}
      BY <2>1, <2>2 DEF Failed
    <3>2. Ends(p.name) /\ \A x \in Packets \ {p.name} : SameRecord(x)
      BY <1>1, <2>1, <2>2, <3>1 DEF Ends, SameRecord
    <3> QED BY <1>5, <2>1, <2>2, <3>1, <3>2
  <2>3. HandUp(n, p) => /\ handed'[p.name] = {n}
                        /\ \A x \in Packets \ {p.name} : handed'[x] = handed[x]
    <3>1. HandUp(n, p) => handed' = [handed EXCEPT ![p.name] = handed[p.name] \union {n}]
      BY DEF HandUp
    <3> QED BY <1>1, <1>3, <3>1
  <2>4. CASE Sent(n, OneHopLess(p), tasks, dl) /\ HandUp(n, p) /\ UNCHANGED <<dst, allowed>>
    <3>1. downlink' = dl /\ uplinked' = uplinked \union {p.name}
      BY <2>1, <2>4 DEF Sent
    <3>2. Ends(p.name) /\ \A x \in Packets \ {p.name} : SameRecord(x)
      BY <1>1, <2>1, <2>3, <2>4, <3>1 DEF Ends, SameRecord
    <3> QED BY <1>5, <2>1, <2>4, <3>1, <3>2
  <2>5. ASSUME NEW a \in ServerPDU(p.name),
               SentWithDownlink(n, OneHopLess(p), a, tasks, dl), HandUp(n, p),
               dst' = [dst EXCEPT ![a.name] = a.dst],
               allowed' = [allowed EXCEPT ![a.name] = AnswerFrames(a)]
        PROVE  PacketStep
    <3> DEFINE G == Buffered(a)
               R == {p.name, a.name}
    <3>1. /\ a \in PDU /\ a.name \in Packets /\ a.name # p.name /\ a.dst \in Dsts
          /\ dst[a.name] = NoRoute /\ Fresh(a.name)
          /\ AnswerFrames(a) = Left(a) /\ Left(a) \in Nat
          /\ \A c \in Kinds, m \in Nodes : \A y \in Held(c, m) : y.name # a.name
      BY AnswerName
    <3>2. downlink' = [dl EXCEPT ![n] = a] /\ uplinked' = uplinked \union {p.name}
      BY <2>1, <2>5 DEF SentWithDownlink
    <3>3. \A m \in Nodes : downlink'[m] = IF m = n THEN a ELSE dl[m]
      BY <1>3, <3>2
    <3>4. G \subseteq {a} /\ Held("buffer", n)' = G
      BY <3>3 DEF Held, Buffered
    <3> HIDE DEF G
    <3>5. ASSUME NEW c \in Kinds, NEW m \in Nodes, NEW y \in Held(c, m)'
          PROVE  (y \in Held(c, m) /\ y.name \notin R) \/ (c = "buffer" /\ m = n /\ y \in G)
      <4>1. CASE c = "frame"
        BY <1>2, <2>1, <3>1, <4>1 DEF Held
      <4>2. CASE c = "inbox"
        <5>1. y \in Held(c, m) /\ y.name # p.name
          BY <4>2 DEF Held
        <5> QED BY <3>1, <5>1
      <4>3. CASE c = "buffer" /\ m # n
        <5>1. y \in Buffered(dl[m])
          BY <3>3, <4>3 DEF Held
        <5>2. y \in Held(c, m) /\ y.name # p.name
          BY <4>3, <5>1 DEF Held
        <5> QED BY <3>1, <5>2
      <4>4. CASE c = "buffer" /\ m = n
        BY <3>4, <4>4
      <4> QED BY <4>1, <4>2, <4>3, <4>4 DEF Kinds
    <3>6. \A y \in Packets \ R : SameRecord(y) /\ sends'[y] = sends[y]
      BY <1>3, <2>1, <2>3, <2>5, <3>2 DEF SameRecord
    <3>7. /\ dst'[p.name] = dst[p.name] /\ dst'[a.name] = a.dst
          /\ allowed'[p.name] = allowed[p.name] /\ allowed'[a.name] = Left(a)
      BY <1>3, <2>5, <3>1
    <3>8. p.name \notin Names(G)
      BY <3>1, <3>4 DEF Names
    <3>9. handed'[p.name] = {n} /\ handed'[a.name] = {}
      BY <2>3, <2>5, <3>1 DEF Fresh
    <3>10. Fate(p.name, G)
      BY <1>1, <2>1, <3>2, <3>7, <3>8, <3>9 DEF Fate, Ends
    <3>11. Fate(a.name, G)
      BY <3>1, <3>2, <3>7, <3>9 DEF Fate, Starts
    <3>12. sends'[p.name] <= allowed'[p.name] /\ sends'[a.name] <= allowed'[a.name]
      BY <1>1, <2>1, <3>1, <3>7 DEF Fresh
    <3>13. OnItsWay(a)'
      <4>1. sends'[a.name] + Left(a) = allowed'[a.name]
        BY <2>1, <3>1, <3>7 DEF Fresh
      <4> QED BY <2>1, <3>1, <3>2, <3>7, <3>9, <4>1 DEF OnItsWay, Fresh, Left
    <3>14. G \in SUBSET PDU /\ R \in SUBSET Packets
      BY <1>1, <3>1, <3>4
    <3>15. Moves(R, "buffer", n, G)
      <4>1. \A x \in G : x.name \in R /\ OnItsWay(x)'
        BY <3>4, <3>13
      <4>2. \A x, y \in G : x = y
        BY <3>4
      <4>3. \A x \in R : sends'[x] <= allowed'[x] /\ Fate(x, G)
        BY <3>10, <3>11, <3>12
      <4> HIDE DEF R
      <4> QED BY <1>4, <2>1, <3>4, <3>5, <3>6, <4>1, <4>2, <4>3 DEF Moves
    <3> HIDE DEF R
    <3> QED BY <3>14, <3>15 DEF PacketStep, Kinds
  <2> QED BY <1>8, <2>2, <2>4, <2>5 DEF ToServer
\* It goes on, with one hop less left and one frame more behind.
<1>9. CASE Forward(n, p, tasks, dl)
  <2> DEFINE hop == RoutingTable_getRoute(n, p.dst)
             x == OneHopLess(p)
             R == {p.name}
  <2>1. hop \in Dsts
    BY <1>1, <1>9 DEF Forward, RoutingTable_getRoute, IInv, BoundsOK, Hops, PDU
  <2>2. /\ Alive(x) /\ x \in PDU /\ x.name = p.name /\ x.dst = p.dst
        /\ Left(p) \in 1..(TtlWrap - 1) /\ Left(x) = Left(p) - 1
    <3>1. ~Expired(p) /\ p \in PDU
      BY <1>1, <1>9 DEF Forward
    <3>2. Alive(x) /\ x.name = p.name /\ x.dst = p.dst /\ x.ttl = Left(p)
      BY <3>1, HopAlive
    <3>3. x \in PDU /\ x.ttl \in 1..(TtlWrap - 1)
      BY <3>2 DEF Alive
    <3> HIDE DEF x
    <3> QED BY <3>2, <3>3, LeftIs
  <2>3. /\ MAC_send(n, hop, x, FALSE) /\ downlink' = dl
        /\ UNCHANGED <<dst, handed, uplinked>>
    BY <1>9 DEF Forward
  <2>17. UNCHANGED allowed
    BY <1>9 DEF Forward
  <2> HIDE DEF hop, x
  <2>4. /\ \A m \in Nodes : DistinctWaiting(queue'[m])
        /\ Held("frame", n)' = Held("frame", n) \union {x}
        /\ \A m \in Nodes \ {n} : Held("frame", m)' = Held("frame", m)
        /\ \A y \in Packets \ {x.name} : sends'[y] = sends[y]
        /\ sends[x.name] < TtlWrap => sends'[x.name] = sends[x.name] + 1
    <3>1. \A y \in Held("frame", n) : y.name # x.name
      BY <1>2, <2>2
    <3>2. Alive(x) /\ MAC_send(n, hop, x, FALSE) /\ FALSE \in BOOLEAN
      BY <2>2, <2>3
    <3> QED BY <2>1, <3>1, <3>2, MacSendHeld, Zenon
  <2>5. /\ sends[p.name] + Left(p) = allowed[p.name]
        /\ sends[p.name] \in Nat /\ allowed[p.name] \in 0..(TtlWrap - 1)
    BY <1>1, <1>3 DEF OnItsWay, IInv, HistoryOK
  <2>6. sends'[p.name] <= allowed'[p.name] /\ sends'[p.name] + Left(x) = allowed'[p.name]
    <3>1. sends[p.name] < TtlWrap
      BY <2>2, <2>5
    <3>2. sends'[p.name] = sends[p.name] + 1
      BY <2>2, <2>4, <3>1
    <3> QED BY <2>2, <2>5, <2>17, <3>2
  <2>7. OnItsWay(x)'
    BY <1>1, <2>2, <2>3, <2>6 DEF OnItsWay, Left
  <2>8. ASSUME NEW c \in Kinds, NEW m \in Nodes, NEW y \in Held(c, m)'
        PROVE  (y \in Held(c, m) /\ y.name \notin R) \/ (c = "frame" /\ m = n /\ y \in {x})
    <3>1. CASE c = "frame"
      BY <1>2, <2>4, <3>1
    <3>2. CASE c = "inbox"
      BY <3>2 DEF Held
    <3>3. CASE c = "buffer"
      BY <2>3, <3>3 DEF Held
    <3> QED BY <3>1, <3>2, <3>3 DEF Kinds
  <2>9. Fate(p.name, {x})
    <3>1. Goes(p.name) /\ p.name \in Names({x})
      BY <1>1, <2>2, <2>3, <2>17 DEF Goes, SameRecord, Names
    <3> QED BY <3>1 DEF Fate
  <2>10. \A y \in Packets \ R : SameRecord(y) /\ sends'[y] = sends[y]
    BY <2>2, <2>3, <2>4, <2>17 DEF SameRecord
  <2>11. \A y \in R : sends'[y] <= allowed'[y] /\ Fate(y, {x})
    BY <2>6, <2>9
  <2>12. DistinctEverywhere'
    BY <2>4 DEF DistinctEverywhere
  <2>13. \A y \in {x} : y.name \in R /\ OnItsWay(y)'
    BY <2>2, <2>7
  <2>14. {x} \subseteq Held("frame", n)'
    BY <2>4
  <2>15. R \in SUBSET Packets /\ {x} \in SUBSET PDU
    BY <1>1, <2>2
  <2> HIDE DEF R
  <2>16. Moves(R, "frame", n, {x})
    BY <2>8, <2>10, <2>11, <2>12, <2>13, <2>14 DEF Moves
  <2> QED BY <2>15, <2>16 DEF PacketStep, Kinds
<1> QED BY <1>6, <1>7, <1>8, <1>9 DEF _processReceivedPacket

LEMMA MacReceivedMoves ==
  ASSUME IInv, TravelInv, NEW n \in Nodes, _onMacReceived(n)
  PROVE  PacketStep
<1>0. PICK p : p = Head(inbox[n])
  OBVIOUS
<1>1. /\ inbox[n] # <<>> /\ inbox[n] \in Seq(PDU) /\ DistinctGot(inbox[n])
      /\ inbox' = [inbox EXCEPT ![n] = Tail(inbox[n])]
      /\ _processReceivedPacket(n, p, wanTasks, downlink)
  BY <1>0 DEF _onMacReceived, IInv, InboxesOK, TravelInv, DistinctEverywhere
<1>2. /\ DistinctGot(Tail(inbox[n])) /\ p \in Got(inbox[n])
      /\ \A x \in Got(Tail(inbox[n])) : x \in Got(inbox[n]) /\ x.name # p.name
  BY <1>0, <1>1, GotLess
<1>3. \A m \in Nodes : inbox'[m] = IF m = n THEN Tail(inbox[n]) ELSE inbox[m]
  BY <1>1 DEF IInv, InboxesOK
<1>4. p \in Held("inbox", n)
  BY <1>2 DEF Held
<1>5. \A c \in Kinds, m \in Nodes : \A x \in Held(c, m) : x.name = p.name => c = "inbox" /\ m = n
  BY <1>4 DEF TravelInv, OnePlace, Kinds
<1>6. \A m \in Nodes : DistinctGot(inbox'[m])
  BY <1>2, <1>3 DEF TravelInv, DistinctEverywhere
<1>7. ASSUME NEW m \in Nodes, NEW x \in Got(inbox'[m])
      PROVE  x \in Got(inbox[m]) /\ x.name # p.name
  <2>1. CASE m = n
    BY <1>2, <1>3, <1>7, <2>1
  <2>2. CASE m # n
    <3>1. x \in Got(inbox[m]) /\ x \in Held("inbox", m)
      BY <1>3, <1>7, <2>2 DEF Held
    <3> QED BY <1>5, <2>2, <3>1 DEF Kinds
  <2> QED BY <2>1, <2>2
<1>8. ASSUME NEW m \in Nodes, NEW x \in Buffered(downlink[m])
      PROVE  x.name # p.name
  <2>1. x \in Held("buffer", m)
    BY <1>8 DEF Held
  <2> QED BY <1>5, <2>1 DEF Kinds
<1>9. ValidWan(wanTasks, downlink)
  BY DEF IInv
<1> QED BY <1>1, <1>4, <1>6, <1>7, <1>8, <1>9, ProcessMoves

LEMMA WanTaskMoves ==
  ASSUME IInv, TravelInv, NEW n \in Nodes, RunWanTask(n)
  PROVE  PacketStep
<1>1. CASE UNCHANGED <<queue, downlink, historyVars>>
  BY <1>1, IdleMoves DEF RunWanTask
<1>2. PICK p, rest : p = downlink[n] /\ rest = [wanTasks EXCEPT ![n] = Tail(@)]
  OBVIOUS
<1>3. CASE p # NoDownlink /\ _processReceivedPacket(n, p, rest, LW_receive(n))
  <2>1. p \in Held("buffer", n)
    BY <1>2, <1>3 DEF Held, Buffered
  <2>2. \A c \in Kinds, m \in Nodes : \A x \in Held(c, m) :
          x.name = p.name => c = "buffer" /\ m = n
    BY <2>1 DEF TravelInv, OnePlace, Kinds
  <2>3. \A m \in Nodes : LW_receive(n)[m] = IF m = n THEN NoDownlink ELSE downlink[m]
    BY DEF LW_receive, IInv, ValidWan
  <2>4. UNCHANGED inbox
    BY DEF RunWanTask
  <2>5. \A m \in Nodes : DistinctGot(inbox'[m])
    BY <2>4 DEF TravelInv, DistinctEverywhere
  <2>6. ASSUME NEW m \in Nodes, NEW x \in Got(inbox'[m])
        PROVE  x \in Got(inbox[m]) /\ x.name # p.name
    BY <2>2, <2>4, <2>6 DEF Held, Kinds
  <2>7. ASSUME NEW m \in Nodes, NEW x \in Buffered(LW_receive(n)[m])
        PROVE  x \in Buffered(downlink[m]) /\ x.name # p.name
    <3>1. m # n /\ x \in Buffered(downlink[m])
      BY <2>3, <2>7 DEF Buffered
    <3>2. x \in Held("buffer", m)
      BY <3>1 DEF Held
    <3> QED BY <2>2, <3>1, <3>2 DEF Kinds
  <2>8. ValidWan(rest, LW_receive(n))
    <3>1. wanTasks[n] \in Seq(TaskNames) /\ wanTasks[n] # <<>>
      BY DEF IInv, ValidWan, RunWanTask
    <3>2. Tail(wanTasks[n]) \in Seq(TaskNames)
      BY <3>1
    <3> QED BY <1>2, <3>2 DEF IInv, ValidWan, LW_receive
  <2> QED BY <1>3, <2>1, <2>5, <2>6, <2>7, <2>8, ProcessMoves
<1> QED BY <1>1, <1>2, <1>3 DEF RunWanTask

LEMMA TravelStep ==
  ASSUME IInv, TravelInv, NEW n \in Nodes, NodeStep(n)
  PROVE  PacketStep
<1>1. CASE Send(n)
  BY <1>1, SendMacMoves, SendWanMoves DEF Send
<1>2. CASE \E d \in Dsts, h \in Hops : ChangeRoute(n, d, h)
  BY <1>2, IdleMoves DEF ChangeRoute, netVars
<1> QED BY <1>1, <1>2, ArriveMoves, SettleMoves, MacReceivedMoves, WanTaskMoves, ReinitMoves
        DEF NodeStep

LEMMA TravelStart ==
  ASSUME Init
  PROVE  TravelInv
<1>1. \A n \in Nodes : queue[n] = <<>> /\ inbox[n] = <<>> /\ downlink[n] = NoDownlink
  BY Zenon DEF Init
<1>2. \A c \in Kinds, n \in Nodes : Held(c, n) = {}
  <2>1. Waiting(<<>>) = {} /\ Got(<<>>) = {} /\ Buffered(NoDownlink) = {}
    BY DEF Waiting, Got, Buffered
  <2> QED BY <1>1, <2>1, Zenon DEF Held
<1>3. DistinctEverywhere
  <2>1. DistinctWaiting(<<>>) /\ DistinctGot(<<>>)
    BY DEF DistinctWaiting, DistinctGot
  <2> QED BY <1>1, <2>1, Zenon DEF DistinctEverywhere
<1>4. \A p \in Packets : Fresh(p) /\ sends[p] <= allowed[p]
  BY DEF Init, Fresh
<1> QED BY <1>2, <1>3, <1>4 DEF TravelInv, OnePlace, HopsBounded

\* A packet is in one place of the network, and the frames it has taken and
\* those its time to live leaves it are together as many as it came with.
THEOREM TravelInvariant == Spec => [](IInv /\ TravelInv)
<1>1. Init => TravelInv
  BY TravelStart
<1>2. IInv /\ TravelInv /\ [Next]_vars => TravelInv'
  <2>1. ASSUME IInv, TravelInv, Next
        PROVE  TravelInv'
    BY <2>1, TravelStep, MovesKeep DEF Next
  <2>2. ASSUME TravelInv, UNCHANGED vars
        PROVE  TravelInv'
    <3>1. \A c \in Kinds, n \in Nodes : Held(c, n)' = Held(c, n)
      BY <2>2 DEF vars, netVars, Held
    <3> QED BY <2>2, <3>1 DEF vars, netVars, historyVars, TravelInv, DistinctEverywhere,
                              OnePlace, OnItsWay, Fresh, HopsBounded
  <2> QED BY <2>1, <2>2
<1> QED BY <1>1, <1>2, RoutingInvariant, PTL DEF Spec

\* routing.cpp:176-183: no packet is on its way between nodes with a time to
\* live of 0, and every frame has taken one of what it was made with, also when
\* a packet of the server came with 0 or with more than ROUTING_MAX_TTL.
THEOREM NoWrap == Spec => []TtlNeverWraps
<1>1. ASSUME IInv, TravelInv, NEW c \in Kinds, NEW n \in Nodes, NEW x \in Held(c, n), c # "buffer"
      PROVE  OnAccount(x)
  <2>1. x \in PDU /\ x.ttl \in 1..(TtlWrap - 1) /\ x.name \in Packets
    BY <1>1, HeldAlive DEF Alive
  <2>2. sends[x.name] + Left(x) = allowed[x.name]
    BY <1>1 DEF TravelInv, OnItsWay
  <2>3. Left(x) = x.ttl - 1 /\ x.ttl \in Nat /\ sends[x.name] \in Nat
    BY <1>1, <2>1, LeftIs DEF IInv, HistoryOK
  <2> QED BY <2>1, <2>2, <2>3 DEF OnAccount
<1>2. IInv /\ TravelInv => TtlNeverWraps
  BY <1>1 DEF TtlNeverWraps, Held, Waiting, Got, Kinds
<1> QED BY <1>2, TravelInvariant, PTL

\* config.h:68: all nodes together pass a packet to the layer below as often as
\* the time to live it was made with allows, ROUTING_MAX_TTL times for one that
\* a node has made, whatever loops the routes have and however they change.
THEOREM HopsAreBounded == Spec => []HopsBounded
<1>1. TravelInv => HopsBounded
  BY DEF TravelInv
<1> QED BY <1>1, TravelInvariant, PTL

---------------------------------------------------------------------------
(* The refinement: every step is a step of Network for each packet alone. *)

LEMMA TravelsIsHeld ==
  ASSUME NEW p
  PROVE  (Travels(p) <=> Holds(p)) /\ (Travels(p)' <=> Holds(p)')
<1>1. Travels(p) <=> Holds(p)
  BY DEF Travels, Holds, Held, Waiting, Got, Buffered, Kinds
<1>2. Travels(p)' <=> Holds(p)'
  BY DEF Travels, Holds, Held, Waiting, Got, Buffered, Kinds
<1> QED BY <1>1, <1>2

StateOf(p) == IF dst[p] = NoRoute THEN "none" ELSE IF Travels(p) THEN "travels" ELSE "ended"

\* Network!Step, of the states of this module.
Stays(p) == SameRecord(p) /\ StateOf(p)' = StateOf(p)

Stops(p) == StateOf(p) = "travels" /\ StateOf(p)' = "ended" /\ dst'[p] = dst[p]

MapsTo(p) ==
  \/ Stays(p)
  \/ /\ StateOf(p) = "none" /\ StateOf(p)' \in {"travels", "ended"}
     /\ dst'[p] \in Dsts /\ handed'[p] = {}
     /\ StateOf(p)' = "travels" => (p \in uplinked' <=> p \in uplinked)
  \/ /\ Stops(p)
     /\ \/ handed'[p] \in {{}, {dst[p]}} /\ (p \in uplinked' <=> p \in uplinked)
        \/ /\ p \notin uplinked
           /\ \E n \in WanNodes :
                handed'[p] \in {{}, {n}} /\ (handed'[p] = {n} => p \in uplinked')

LEMMA MovesMap ==
  ASSUME IInv, TravelInv, PacketStep, NEW p \in Packets
  PROVE  MapsTo(p)
<1>1. PICK R \in SUBSET Packets, z \in Kinds, k \in Nodes, G \in SUBSET PDU :
        Moves(R, z, k, G)
  BY DEF PacketStep
<1>2. \A c \in Kinds, n \in Nodes : \A x \in Held(c, n)' :
        (x \in Held(c, n) /\ x.name \notin R) \/ x \in G
  BY <1>1 DEF Moves
<1>3. NoRoute \notin Dsts
  OBVIOUS
<1>4. CASE p \notin R
  <2>1. SameRecord(p) /\ \A x \in G : x.name # p
    BY <1>1, <1>4 DEF Moves
  <2>2. Holds(p)' => Holds(p)
    BY <1>2, <2>1 DEF Holds
  <2>3. CASE Holds(p) /\ ~Holds(p)'
    <3>1. dst[p] # NoRoute /\ handed[p] = {}
      BY <2>3, HeldRecord
    <3> QED BY <2>1, <2>3, <3>1, TravelsIsHeld DEF MapsTo, Stops, StateOf, SameRecord
  <2>4. CASE Holds(p) <=> Holds(p)'
    BY <2>1, <2>4, TravelsIsHeld DEF MapsTo, Stays, StateOf, SameRecord
  <2> QED BY <2>2, <2>3, <2>4
<1>5. CASE p \in R
  <2>1. Fate(p, G)
    BY <1>1, <1>5 DEF Moves
  <2>2. Holds(p)' <=> p \in Names(G)
    <3>1. G \subseteq Held(z, k)'
      BY <1>1 DEF Moves
    <3>2. p \in Names(G) => Holds(p)'
      BY <3>1 DEF Names, Holds
    <3>3. Holds(p)' => p \in Names(G)
      BY <1>2, <1>5 DEF Names, Holds
    <3> QED BY <3>2, <3>3
  <2>3. CASE Starts(p, G)
    BY <1>3, <2>2, <2>3, TravelsIsHeld DEF Starts, MapsTo, StateOf
  <2>4. CASE p \in Names(G) /\ Goes(p)
    <3>1. dst[p] # NoRoute /\ Holds(p) /\ SameRecord(p) /\ Holds(p)'
      BY <2>2, <2>4 , HeldRecord DEF Goes
    <3> QED BY <3>1, TravelsIsHeld DEF MapsTo, Stays, StateOf, SameRecord
  <2>5. CASE p \notin Names(G) /\ Ends(p)
    <3>1. dst[p] # NoRoute /\ Holds(p) /\ ~Holds(p)' /\ p \notin uplinked /\ dst'[p] = dst[p]
      BY <2>2, <2>5, HeldRecord DEF Ends
    <3>2. Stops(p)
      BY <3>1, TravelsIsHeld DEF Stops, StateOf
    <3> QED BY <2>5, <3>1, <3>2 DEF Ends, MapsTo
  <2> QED BY <2>1, <2>3, <2>4, <2>5 DEF Fate
<1> QED BY <1>4, <1>5

LEMMA MapsToStep ==
  ASSUME NEW p \in Packets, MapsTo(p)
  PROVE  Net!Step(p)
<1>1. CASE Stays(p)
  BY <1>1 DEF Stays, SameRecord, StateOf, Net!Step, Net!Same, Net!NotUplinked
<1>2. CASE /\ StateOf(p) = "none" /\ StateOf(p)' \in {"travels", "ended"}
           /\ dst'[p] \in Dsts /\ handed'[p] = {}
           /\ StateOf(p)' = "travels" => (p \in uplinked' <=> p \in uplinked)
  BY <1>2 DEF StateOf, Net!Step, Net!Make, Net!NotUplinked
<1>3. CASE Stops(p) /\ handed'[p] \in {{}, {dst[p]}} /\ (p \in uplinked' <=> p \in uplinked)
  BY <1>3 DEF Stops, StateOf, Net!Step, Net!Lose, Net!Hand, Net!NotUplinked
<1>4. CASE /\ Stops(p) /\ p \notin uplinked
           /\ \E n \in WanNodes :
                handed'[p] \in {{}, {n}} /\ (handed'[p] = {n} => p \in uplinked')
  BY <1>4 DEF Stops, StateOf, Net!Step, Net!Uplink
<1> QED BY <1>1, <1>2, <1>3, <1>4 DEF MapsTo

\* Every packet that is made travels and ends once: lost, with the upper layer of
\* its destination, or with the server, and then perhaps with the upper layer of
\* the gateway that sent it there. No node invents or multiplies one.
THEOREM NetworkImplemented == Spec => ImplementsNetwork
<1>1. Init => Net!Init
  BY DEF Init, Net!Init
<1>2. IInv /\ TravelInv /\ [Next]_vars => [Net!Next]_(Net!vars)
  <2>1. ASSUME IInv, TravelInv, Next
        PROVE  Net!Next
    <3>1. PacketStep
      BY <2>1, TravelStep DEF Next
    <3> QED BY <2>1, <3>1, MovesMap, MapsToStep DEF Net!Next
  <2>2. UNCHANGED vars => UNCHANGED Net!vars
    BY DEF vars, netVars, historyVars, Net!vars, Travels
  <2> QED BY <2>1, <2>2
<1> QED BY <1>1, <1>2, TravelInvariant, PTL DEF Spec, ImplementsNetwork, Net!Spec

=============================================================================
