------------------------------- MODULE Routing -------------------------------
(***************************************************************************)
(* The routing layer (src/firmware/src/routing.cpp) on every node of a     *)
(* network, over the medium access layer, of which there is left a queue   *)
(* whose head arrives once at most and is settled (module MacService,      *)
(* while the identifier of a frame is not forgotten before its last        *)
(* attempt), and over the LoRaWAN adapter (lorawan.cpp), whose blocking    *)
(* uplink may bring a downlink back. Routes may loop, miss, and change at  *)
(* any time.                                                               *)
(***************************************************************************)
EXTENDS Integers, Sequences

CONSTANTS
  Nodes,
  WanNodes,      \* isGateway
  Gateway,       \* NODE_ADDRESS_GATEWAY: the server, and the hop that leads to it
  NoRoute,       \* NODE_ADDRESS_NULL
  NoDownlink,    \* port 0 in downlink_data: the buffer is empty
  MaxTTL,        \* ROUTING_MAX_TTL
  TtlWrap,       \* 2^8: a time to live is a uint8_t
  Ids,           \* identifiers of frames: two in a queue never share one
  Packets,       \* bound: the packets nodes and server make, by name
  Traffic,       \* bound: <<n, d, p>>, the application of n may send p to d
  Answers,       \* bound: the packets the server may make
  AnswerTTLs,    \* bound: the times to live it gives them, which nobody checks
  InitialRoutes, \* the routing tables the network may start with
  Updates,       \* bound: <<n, d, h>>, the changes of routes it may make
  MaxChanges,    \* bound: changes of routes
  MaxReinits     \* bound: calls of Routing_deinit and Routing_init

Dsts == Nodes \union {Gateway}
Hops == Dsts \union {NoRoute}

ASSUME RoutingAssumption ==
  /\ WanNodes \subseteq Nodes /\ Gateway \notin Nodes /\ NoRoute \notin Dsts
  /\ TtlWrap \in Nat /\ MaxTTL \in 1..(TtlWrap - 1)
  /\ MaxChanges \in Nat /\ MaxReinits \in Nat
  /\ Traffic \subseteq Nodes \X Dsts \X Packets /\ \A t \in Traffic : t[1] # t[2]
  /\ Answers \subseteq Packets /\ AnswerTTLs \subseteq 0..(TtlWrap - 1)
  /\ Updates \subseteq Nodes \X Dsts \X Hops
  /\ InitialRoutes \subseteq [Nodes -> [Dsts -> Hops]]

\* routing_pdu_t: `name' stands for its source and its data.
PDU == [name : Packets, dst : Dsts, ttl : 0..(TtlWrap - 1)]

\* A frame below. History: `own', the upper layer of this node made the packet.
Frame == [id : Ids, rx : Dsts, pdu : PDU, arrived : BOOLEAN, own : BOOLEAN]

VARIABLES
  routes,             \* what RoutingTable_getRoute answers on every node
  queue,              \* frames MAC_send took and has not settled
  inbox,              \* packets that reached the radio, MAC_receive not called yet
  higherLayerPackets, \* their identifiers, of those to notify
  wanTasks,           \* scheduled: the results of LW_send, its downlinks
  downlink,           \* downlink_data of lorawan.cpp
  dst,                \* history: the destination of every packet that was made
  handed,             \* history: the nodes whose upper layer got each packet
  uplinked,           \* history: packets the server has got
  allowed,            \* history: the frames its time to live allows it
  sends,              \* history: how often MAC_send took each packet, to TtlWrap
  changes, reinits     \* history: so far

netVars == <<queue, inbox, higherLayerPackets, wanTasks, downlink>>
historyVars == <<dst, handed, uplinked, allowed, sends>>
vars == <<routes, netVars, historyVars, changes, reinits>>

---------------------------------------------------------------------------
RoutingTable_getRoute(n, d) == routes[n][d]

FreshIds(n) == {i \in Ids : \A k \in DOMAIN queue[n] : queue[n][k].id # i}
FreshId(n)  == CHOOSE i \in FreshIds(n) : TRUE

\* MAC_send: an error if the frame is for the node itself.
MAC_send(n, hop, p, own) ==
  /\ hop # n
  /\ FreshIds(n) # {}  \* bound: Ids
  /\ queue' = [queue EXCEPT ![n] = Append(@,
       [id |-> FreshId(n), rx |-> hop, pdu |-> p, arrived |-> FALSE, own |-> own])]
  /\ sends' = [sends EXCEPT ![p.name] = IF @ = TtlWrap THEN @ ELSE @ + 1]

\* A packet of the server, in the window after an uplink, and the frames that
\* are left of its time to live for the nodes, the gateway having decremented it.
ServerPDU(d) ==
  [name : {p \in Answers \ {d} : dst[p] = NoRoute}, dst : Nodes, ttl : AnswerTTLs]

AnswerFrames(answer) == (answer.ttl - 1) % TtlWrap

\* LW_send, with the tasks _sendThroughLoRaWAN schedules after it. It fails, or
\* it succeeds, and then a downlink takes the only buffer. An uplink without
\* its confirmation fails, but the server may have it.
Failed(n, p, tasks, dl) ==
  /\ wanTasks' = [tasks EXCEPT ![n] = Append(@, "Failed")]
  /\ uplinked' \in {uplinked, uplinked \union {p.name}}
  /\ downlink' = dl

Sent(n, p, tasks, dl) ==
  /\ wanTasks' = [tasks EXCEPT ![n] = Append(@, "Sent")]
  /\ uplinked' = uplinked \union {p.name}
  /\ downlink' = dl

SentWithDownlink(n, p, answer, tasks, dl) ==
  /\ wanTasks' = [tasks EXCEPT ![n] = @ \o <<"Downlink", "Sent">>]
  /\ uplinked' = uplinked \union {p.name}
  /\ downlink' = [dl EXCEPT ![n] = answer]

---------------------------------------------------------------------------
(* Routing_send. *)

NewPDU(p, d) == [name |-> p, dst |-> d, ttl |-> MaxTTL]

\* Through the medium access layer, which gives the identifier to notify.
\* Without a route, or with a route to the node itself, there is an error.
SendMac(n, p, d) ==
  /\ dst[p] = NoRoute
  /\ RoutingTable_getRoute(n, d) # NoRoute
  /\ ~(n \in WanNodes /\ RoutingTable_getRoute(n, d) = Gateway)
  /\ MAC_send(n, RoutingTable_getRoute(n, d), NewPDU(p, d), TRUE)
  /\ higherLayerPackets' = [higherLayerPackets EXCEPT ![n] = @ \union {FreshId(n)}]
  /\ dst' = [dst EXCEPT ![p] = d] /\ allowed' = [allowed EXCEPT ![p] = MaxTTL]
  /\ UNCHANGED <<routes, inbox, wanTasks, downlink, handed, uplinked, changes, reinits>>

\* Through LoRaWAN: the result, the identifier 0, follows as a task.
SendWan(n, p, d) ==
  /\ dst[p] = NoRoute
  /\ n \in WanNodes /\ RoutingTable_getRoute(n, d) = Gateway
  /\ \/ /\ Failed(n, NewPDU(p, d), wanTasks, downlink) \/ Sent(n, NewPDU(p, d), wanTasks, downlink)
        /\ dst' = [dst EXCEPT ![p] = d] /\ allowed' = [allowed EXCEPT ![p] = MaxTTL]
     \/ \E answer \in ServerPDU(p) :
          /\ SentWithDownlink(n, NewPDU(p, d), answer, wanTasks, downlink)
          /\ dst' = [dst EXCEPT ![p] = d, ![answer.name] = answer.dst]
          /\ allowed' = [allowed EXCEPT ![p] = MaxTTL, ![answer.name] = AnswerFrames(answer)]
  /\ UNCHANGED <<routes, queue, inbox, higherLayerPackets, handed, sends, changes, reinits>>

---------------------------------------------------------------------------
(* _processReceivedPacket, of a packet the layers below have just handed   *)
(* over. For LoRaWAN, tasks and dl are the tasks and the buffer without it. *)

\* Mutant: the packet travels on with the time to live it came with.
SameTtl(p) == p

\* rxPDU.ttl--, of a uint8_t.
OneHopLess(p) == [p EXCEPT !.ttl = (@ - 1) % TtlWrap]

\* Mutant: a packet is dropped only when nothing of its time to live is left.
ExpiredAtZero(p) == p.ttl = 0

Expired(p) == p.ttl = 1

HandUp(n, p) == handed' = [handed EXCEPT ![p.name] = @ \union {n}]

ForUs(n, p, tasks, dl) ==
  /\ p.dst = n
  /\ HandUp(n, p)
  /\ wanTasks' = tasks /\ downlink' = dl
  /\ UNCHANGED <<queue, dst, uplinked, allowed, sends>>

\* Out of time, without a route, or with a route to the node itself.
Drop(n, p, tasks, dl) ==
  /\ p.dst # n
  /\ Expired(p) \/ RoutingTable_getRoute(n, p.dst) \in {NoRoute, n}
  /\ wanTasks' = tasks /\ downlink' = dl
  /\ UNCHANGED <<queue, historyVars>>

\* The gateway hands the packet to its own upper layer too, once it is sent.
ToServer(n, p, tasks, dl) ==
  /\ p.dst # n /\ ~Expired(p)
  /\ n \in WanNodes /\ RoutingTable_getRoute(n, p.dst) = Gateway
  /\ \/ Failed(n, OneHopLess(p), tasks, dl) /\ UNCHANGED <<dst, allowed, handed>>
     \/ Sent(n, OneHopLess(p), tasks, dl) /\ HandUp(n, p) /\ UNCHANGED <<dst, allowed>>
     \/ \E answer \in ServerPDU(p.name) :
          /\ SentWithDownlink(n, OneHopLess(p), answer, tasks, dl)
          /\ HandUp(n, p)
          /\ dst' = [dst EXCEPT ![answer.name] = answer.dst]
          /\ allowed' = [allowed EXCEPT ![answer.name] = AnswerFrames(answer)]
  /\ UNCHANGED <<queue, sends>>

\* Mutant: the next hop is not looked at.
ForwardAnyway(n, p, tasks, dl) ==
  /\ p.dst # n /\ ~Expired(p)
  /\ ~(n \in WanNodes /\ RoutingTable_getRoute(n, p.dst) = Gateway)
  /\ MAC_send(n, RoutingTable_getRoute(n, p.dst), OneHopLess(p), FALSE)
  /\ wanTasks' = tasks /\ downlink' = dl
  /\ UNCHANGED <<dst, allowed, handed, uplinked>>

\* The frame is not added to higherLayerPackets.
Forward(n, p, tasks, dl) ==
  /\ p.dst # n /\ ~Expired(p)
  /\ RoutingTable_getRoute(n, p.dst) # NoRoute
  /\ ~(n \in WanNodes /\ RoutingTable_getRoute(n, p.dst) = Gateway)
  /\ MAC_send(n, RoutingTable_getRoute(n, p.dst), OneHopLess(p), FALSE)
  /\ wanTasks' = tasks /\ downlink' = dl
  /\ UNCHANGED <<dst, allowed, handed, uplinked>>

_processReceivedPacket(n, p, tasks, dl) ==
  \/ ForUs(n, p, tasks, dl)
  \/ Drop(n, p, tasks, dl)
  \/ ToServer(n, p, tasks, dl)
  \/ Forward(n, p, tasks, dl)

\* The layer below gets the frame node m is sending to its next hop.
Arrive(m) ==
  LET f == Head(queue[m]) IN
  /\ queue[m] # <<>> /\ ~f.arrived /\ f.rx \in Nodes
  /\ queue' = [queue EXCEPT ![m] = [@ EXCEPT ![1].arrived = TRUE]]
  /\ inbox' = [inbox EXCEPT ![f.rx] = Append(@, f.pdu)]
  /\ UNCHANGED <<routes, higherLayerPackets, wanTasks, downlink, historyVars,
                 changes, reinits>>

_onMacReceived(n) ==
  /\ inbox[n] # <<>>
  /\ inbox' = [inbox EXCEPT ![n] = Tail(@)]
  /\ _processReceivedPacket(n, Head(inbox[n]), wanTasks, downlink)
  /\ UNCHANGED <<routes, higherLayerPackets, changes, reinits>>

\* Mutant: the port of the downlink is not reset.
LW_receiveAgain(n) == downlink

\* The buffer once its downlink is read.
LW_receive(n) == [downlink EXCEPT ![n] = NoDownlink]

\* A _WANPacketSent or _WANPacketTxFailed task, which notifies the identifier 0,
\* or the _onWANReceived of a downlink. LW_receive empties the buffer; if a
\* second downlink has taken it before, the second task finds nothing.
RunWanTask(n) ==
  LET rest == [wanTasks EXCEPT ![n] = Tail(@)] IN
  /\ wanTasks[n] # <<>>
  /\ \/ /\ Head(wanTasks[n]) # "Downlink" \/ downlink[n] = NoDownlink
        /\ wanTasks' = rest
        /\ UNCHANGED <<queue, downlink, historyVars>>
     \/ /\ Head(wanTasks[n]) = "Downlink" /\ downlink[n] # NoDownlink
        /\ _processReceivedPacket(n, downlink[n], rest, LW_receive(n))
  /\ UNCHANGED <<routes, inbox, higherLayerPackets, changes, reinits>>

\* Mutant: the identifier stays in the list.
SettleUnlisted(n) ==
  /\ queue[n] # <<>>
  /\ queue' = [queue EXCEPT ![n] = Tail(@)]
  /\ UNCHANGED <<routes, inbox, higherLayerPackets, wanTasks, downlink, historyVars,
                 changes, reinits>>

\* _onMacSend and _onMacTxFailed: the layer below has done with a frame, and
\* reports it sent only if it arrived. The upper layer is told if the
\* identifier is one of its own, which is then erased.
Settle(n) ==
  /\ queue[n] # <<>>
  /\ queue' = [queue EXCEPT ![n] = Tail(@)]
  /\ higherLayerPackets' = [higherLayerPackets EXCEPT ![n] = @ \ {Head(queue[n]).id}]
  /\ UNCHANGED <<routes, inbox, wanTasks, downlink, historyVars, changes, reinits>>

---------------------------------------------------------------------------
\* RoutingTable_updateRoute and RoutingTable_removeRoute, by the application.
ChangeRoute(n, d, h) ==
  /\ changes < MaxChanges /\ <<n, d, h>> \in Updates
  /\ routes' = [routes EXCEPT ![n][d] = h]
  /\ changes' = changes + 1
  /\ UNCHANGED <<netVars, historyVars, reinits>>

\* Routing_deinit, then Routing_init and the callbacks of Transport_init: the
\* frames below and the tasks that are scheduled stay, and there is nobody left
\* to tell of the frames.
Reinit(n) ==
  /\ reinits < MaxReinits /\ reinits' = reinits + 1
  /\ queue' = [queue EXCEPT ![n] =
       [k \in DOMAIN @ |-> [@[k] EXCEPT !.own = FALSE]]]
  /\ higherLayerPackets' = [higherLayerPackets EXCEPT ![n] = {}]
  /\ UNCHANGED <<routes, inbox, wanTasks, downlink, historyVars, changes>>

Init ==
  /\ routes \in InitialRoutes
  /\ queue = [n \in Nodes |-> <<>>]
  /\ inbox = [n \in Nodes |-> <<>>]
  /\ higherLayerPackets = [n \in Nodes |-> {}]
  /\ wanTasks = [n \in Nodes |-> <<>>]
  /\ downlink = [n \in Nodes |-> NoDownlink]
  /\ dst = [p \in Packets |-> NoRoute]
  /\ handed = [p \in Packets |-> {}]
  /\ uplinked = {}
  /\ allowed = [p \in Packets |-> 0] /\ sends = [p \in Packets |-> 0]
  /\ changes = 0 /\ reinits = 0

Send(n) ==
  \E p \in Packets, d \in Dsts :
    <<n, d, p>> \in Traffic /\ (SendMac(n, p, d) \/ SendWan(n, p, d))

NodeStep(n) ==
  \/ Send(n)
  \/ Arrive(n) \/ Settle(n) \/ _onMacReceived(n) \/ RunWanTask(n)
  \/ \E d \in Dsts, h \in Hops : ChangeRoute(n, d, h)
  \/ Reinit(n)

Next == \E n \in Nodes : NodeStep(n)

Spec == Init /\ [][Next]_vars

\* The layer below settles every frame (Mac.EveryFrameSettles) and the
\* scheduler runs every task. No frame need arrive.
FairSpec ==
  /\ Spec
  /\ \A n \in Nodes :
       WF_vars(Settle(n)) /\ WF_vars(_onMacReceived(n)) /\ WF_vars(RunWanTask(n))

---------------------------------------------------------------------------
(* Properties. *)

\* The type of the state of every node and of the history.
TypeOK ==
  /\ routes \in [Nodes -> [Dsts -> Hops]]
  /\ queue \in [Nodes -> Seq(Frame)]
  /\ inbox \in [Nodes -> Seq(PDU)]
  /\ higherLayerPackets \in [Nodes -> SUBSET Ids]
  /\ wanTasks \in [Nodes -> Seq({"Sent", "Failed", "Downlink"})]
  /\ downlink \in [Nodes -> PDU \union {NoDownlink}]
  /\ dst \in [Packets -> Hops]
  /\ handed \in [Packets -> SUBSET Nodes]
  /\ uplinked \subseteq Packets
  /\ allowed \in [Packets -> 0..(TtlWrap - 1)]
  /\ sends \in [Packets -> 0..TtlWrap]
  /\ changes \in 0..MaxChanges /\ reinits \in 0..MaxReinits

OwnIds(q) == {q[k].id : k \in {j \in DOMAIN q : q[j].own}}

\* tfe.tex:774: the frames the upper layer is told of are its own, those it
\* passed down and no others, even when a packet comes back to the node that
\* made it and is forwarded from there.
OwnFramesListed ==
  \A n \in Nodes : higherLayerPackets[n] = OwnIds(queue[n])

\* What is left of the time to live and the frames so far are what it allows.
OnAccount(p) == p.ttl # 0 /\ sends[p.name] + p.ttl = allowed[p.name] + 1

\* routing.cpp:176-183: whatever the routes do, what is on its way between nodes
\* has a time to live that lost one in every frame and that never is 0, from
\* where it would wrap; only the 0 of a server does, before its first frame.
TtlNeverWraps ==
  \A n \in Nodes :
    /\ \A k \in DOMAIN queue[n] : ~queue[n][k].arrived => OnAccount(queue[n][k].pdu)
    /\ \A k \in DOMAIN inbox[n] : OnAccount(inbox[n][k])

\* config.h:68: whatever loops the routes have and however they change, all nodes
\* together pass a packet to the layer below as often as the time to live it was
\* made with allows: ROUTING_MAX_TTL times when a node has made it.
HopsBounded == \A p \in Packets : sends[p] <= allowed[p]

\* Where a packet still travels: in a frame that has not arrived, in one that
\* was not handed over, or in the buffer of LoRaWAN.
Travels(p) ==
  \E n \in Nodes :
    \/ downlink[n] # NoDownlink /\ downlink[n].name = p
    \/ \E k \in DOMAIN inbox[n] : inbox[n][k].name = p
    \/ \E k \in DOMAIN queue[n] : ~queue[n][k].arrived /\ queue[n][k].pdu.name = p

\* The nodes together implement Network: no packet is invented or multiplied.
Net == INSTANCE Network WITH
  Unmade <- NoRoute,
  state <- [p \in Packets |-> IF dst[p] = NoRoute THEN "none"
                              ELSE IF Travels(p) THEN "travels" ELSE "ended"]

ImplementsNetwork == Net!Spec

\* tfe.tex:710: a packet does not travel for ever, whatever the routes.
EveryPacketEnds == \A p \in Packets : Travels(p) ~> ~Travels(p)
=============================================================================
