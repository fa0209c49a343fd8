# Verification of the LoRa stack of Encaminament-LoRa

TLA+ models of the firmware's protocol layers, TLC configurations that check them on small
instances, and TLAPS proofs of their main invariants for every instance. Paths are
relative to the repository; `mac.cpp` and the like are in `src/firmware/src/` and its
`utils/`, headers in `src/firmware/include/`, and `tfe.tex` is the project report in
`src/memoria/`.

## 1. The system

ESP32 nodes with a LoRa radio. Each runs one cooperative scheduler (TaskScheduler): every
handler runs to its end, and only the DIO1 interrupt of the radio may run inside one.
Layers talk by direct calls downwards and by callbacks upwards, mostly from scheduled
tasks.

| Component | State | Operations | Interacts with | Hard behaviours | What makes it correct |
|---|---|---|---|---|---|
| MAC (`mac.cpp`) | FSM state, frame in transmission, retry and backoff counters, ring of identifiers, timeout task | `MAC_send`, `MAC_receive`, events *transmit*, *ACK timeout*, *backoff timeout*, frame received | LoRaRAW below, Routing above, scheduler | events scheduled and run later, lost and late ACKs, busy channels, restarts | each accepted frame has one result, in order; a success is true; no early duplicates; nothing queued is forgotten; the radio listens again |
| MAC buffers (`mac_buffer.cpp`, `LinkedFIFO.hpp`) | two queues | push, pop | MAC | memory | first in, first out |
| LoRaRAW (`loraraw.cpp`) | the radio's single frame buffer, `received` flag, its reading task | send, receive, channel scan, ISR | MAC, RadioLib | interrupt during a handler, a scan ends reception, overwritten frames | a scan never leaves the radio deaf for good |
| RingBuffer (`RingBuffer.cpp`) | array, head, tail, count | enqueue, dequeue, contains, remove | MAC and Transport | modular indices | it holds the last *Capacity* values |
| Transport (`transport.cpp`) | queue of segments with metadata and timeout task, ring of identifiers, callbacks by port | send, results from Routing, timeouts, segments and ACKs received | Routing, scheduler, applications | ACKs that overtake results, timeouts of several segments, retransmissions that fail | one result per segment, true successes, no early duplicates, no segment stuck, bounded retries |
| Routing (`routing.cpp`) | pending identifiers, received packet, LoRaWAN results to notify | send, forward, relay of a gateway, downlinks, re-initialisation | MAC, LoRaWAN, RoutingTable, Transport | relayed packets and own ones share paths; routes that loop and change under way; time to live | a packet ends once, after a bounded number of hops; results go to whoever sent the packet |
| RoutingTable (`routing_table.cpp`) | array of routes, copy in non-volatile storage | add, remove, update, clear, get | Routing, Preferences | refused writes, restarts | one route per destination, what is stored is what a restart finds |
| Scheduler (`scheduler.cpp`) | tasks, a cleanup task | once, repeat, infinite, stop, deletion of completed tasks | all | a cleanup task that is one of the tasks it counts; pointers to deleted tasks | tasks that finished are deleted, and no others |
| Sleep (`sleep.cpp`) | FSM and tolerance in memory that survives deep sleep, reference of the cycle | init, SYNC received, sent, timeout, sleep | Transport, deep sleep | a chain of nodes with timeouts that race a late SYNC; clocks that err; loss of power | a node is awake for its SYNC, readings come in order, every node sleeps again |
| LoRaWAN adapter (`lorawan.cpp`) | session, one downlink buffer | send, receive | RadioLib, Routing | a downlink overwritten, or read twice | a downlink is read once at most |
| LoRa modes, main, examples, utilities, tests, report | none of their own | - | - | - | - |

`PROJECT.json` lists the components with what is and is not modelled, every hazard with
the line where it bites, and for each definition the lines it models.

## 2. The modules

| Module | Models | Uses |
|---|---|---|
| `Mac` | MAC, its two queues and the radio, for a set of nodes in range of each other | instances `MacService` |
| `MacService` | abstract: what `mac.h` promises to the layer above | |
| `RingBuffer` | the circular array, slot by slot | instances `RingHistory` |
| `RingHistory` | abstract: the last values put in, as a sequence | |
| `Transport` | Transport over what Routing, MAC and LoRaWAN make of the network | |
| `RoutingTable` | the array of routes, its copy, refused writes, restarts | instances `RouteMap` |
| `RouteMap` | abstract: a function from destinations to next hops and its copy | |
| `Routing` | Routing on every node of a network with its LoRaWAN adapter, over what MAC promises | instances `Network` |
| `Network` | abstract: a packet is made, travels and ends | |
| `SleepChain` | Sleep on a line of nodes, over one transmission per hop, with a clock | |
| `Scheduler` | the task scheduler with its cleanup task | |
| `MCMac`, `MCTransport`, `MCRouting`, `MCSleep`, `MCScheduler` | values of the constants for TLC | extend the module they name |
| `MacProofs`, `MacOutcomeProofs`, `RingBufferProofs`, `RoutingTableProofs`, `RoutingProofs`, `SchedulerProofs`, `TransportProofs`, `SleepProofs` | theorems | extend the module they name |

### Mac

One action per event and outcome. `MAC_send`, the tasks `_mac_fsm_event_tx`, the two
timeouts and the reading of a frame each run to their end with everything they call: a
channel scan ends reception, then the FSM either transmits (state `WAIT_ACK_S`), backs off
(`WAIT_CHAN_FREE_S`), or reports a result, and the callback that reports it may call
`MAC_send`. The one handler that is split is the reading of a frame: `_checkReceived`
clears `received`, and the interrupt may set it again, for another frame in the same
buffer, before `LoRaRAW_receive` reads it. `txTasks` counts the scheduled transmission
events; those already scheduled when the FSM leaves `IDLE_S` come first in the same
scheduler pass (`Runs`). Frames are records; the ring of identifiers is the sequence
`RingBuffer` is proved to implement. History variables record the frames accepted, the
results notified, the data delivered, and (`handedUp`) the identifiers of all that a node
hands up, in order, since its last start. Duration is abstracted: a timeout may come at
any time once it is running, and any subset of the listening nodes hears a frame.

`MacService` promises one result per frame, in order and true, and that nothing is handed
up again before `RingSize` others: identifiers are drawn from 16 bits and the ring holds a
few, so the code promises no more. The others include the acknowledgements nobody waits
for any more, which the code hands up as data (`Echo`; section 5).

### Transport

An entry of `txQueue` has the segment, the identifier of its frame, the instant its
timeout ends (`Off`, `Running`, `Expired`), its retries and a pointer to its task. The
layers below are external to the module and are what they are shown or read to be: MAC
settles frames one by one in order and each reaches the network at most once (`Mac`), with
a failure also when only the acknowledgement was lost; the result of a LoRaWAN uplink is
an event of its own, with the identifier 0 (`_sendThroughLoRaWAN`). Packets on their way
are a set, from which they may be taken in any order or lost.

A gateway uplinks what its table sends to `NODE_ADDRESS_GATEWAY`, be it for the other end
of LoRaWAN or, as `routing.cpp:106` allows, for a node: `Uplinks` says for which
destinations, and those routes do not change. Of a packet of another node that it uplinks
it takes a copy as its own: it acknowledges and hands up a segment (`RelaySegment`), takes
an acknowledgement for one of its own (`RelayAck`), and does neither when the uplink fails
(`RelayFails`). The server keeps what it gets, or sends on what is for a node, as often as
`MaxUplinks` says. Two such copies of one packet count as one in the set.

`handedUp` is the log of the identifiers a node hands to its applications, and `lastIds`
the ring, which forgets the oldest. Undefined behaviour is kept: stopping a task through a
pointer that was never assigned, or whose task was deleted, does nothing or disables any
task; reading the port of an erased entry reads that of the entry that took its place.

### Routing

Every node of a network at once. `queue` is what MAC took and has not settled: `Arrive`
hands the head to its next hop, once at most, and `Settle` ends it, in either order of
loss, which is what `Mac` is checked to do (`ImplementsService`) as long as the identifier
of a frame is still in the ring of its receiver at its last attempt. `inbox` holds what
has reached the radio of a node and was not read yet. Between the reading and `onReceive`
the code has no step (`mac.cpp:356`, `:536-540`, `routing.cpp:265`); that packets may also
pile up in `inbox` only adds behaviours. `_processReceivedPacket` has one operator per way
out: for this node, dropped (time to live, no route, a route to the node itself, which
`MAC_send` refuses), to the server, or forwarded. The last two decrement a number that
wraps at `TtlWrap`. `LW_send` blocks, so it is part of the caller's step: it may fail with
the packet at the server all the same, and may bring a downlink, which takes the only
buffer and schedules its reading before the notification of the result. The packet in it
has any time to live, 0 and more than `ROUTING_MAX_TTL` included: nobody checks it.
`allowed` keeps how many frames a packet was given by whoever made it: `MaxTTL`, or what
an answer has left once the gateway has decremented it. `routes` is what the tables
answer; any node may be given any of the `Updates`. `Reinit` is `Routing_deinit` and
`Routing_init` on a node in use: the frames below stay, and their identifiers are
forgotten.

A restart of a node is not an action here: it would forget the ring of identifiers of MAC
too, and a frame may then arrive twice, which `Mac` models. So may one whose receiver has
handed up `RingSize` others between two of its attempts. With either a packet can be
multiplied, and the module promises that it cannot.

### Network

The abstract specification of it: each packet is made once, travels, and ends once, lost,
handed up at its destination, or sent to the server by a gateway, which may then hand it
up itself so that it is acknowledged. `Routing` implements it with `Travels` as the state
of a packet, whatever the loops.

### SleepChain

Node 1 is the initiator. Time is discrete: `Tick` passes a unit for the whole line and
waits for whatever is due. `since` is the time since the reference of the node (the SYNC,
or the boot after a timeout), `timer` what is left of its sleep, with an error of the
clock drawn from `Drift`. A transmission is a record of the link to the successor: it
lasts from one copy to all the copies the layers below may send, and arrives once at most,
if the successor has been awake for a whole copy. `goToSleep`, `forwardSync` and the rest
are operators with the names of the functions, called from the actions of the events of
`sleep_fsm`. What is in RTC memory survives `Wake` and is lost in `PowerOff`.
`Transport_send` may refuse a SYNC (`Losses`). It cannot answer
`TRANSPORT_ERR_MAX_LENGTH`, after which the node would stay in `PROPAGATE`: readings are
appended only where there is room. `Receive` takes the data from the packet and not from
the static `receivedPDU`: the handler copies the packet into it and reads it in the same
step, and what a SYNC that is ignored leaves there is overwritten before it is read again.
The margin of 25 % for busy channels is part of `MaxSend`.

### Scheduler

Tasks are addresses; one that was deleted may be given out again. The three calls that
create a task, `scheduler_stop`, and the steps of a pass: a task runs (`Run`), the library
disables one that has run out (`Expire`), the cleanup task deletes what is disabled, then
itself when it is alone. The modules of the layers take their tasks from here in simpler
forms: `Transport` with the pointers that may dangle, `Mac` with tasks that run once.

### RoutingTable

`table` is the array, `nvs` its copy. Every change writes the whole array. A write may be
refused; so may the erasure in `RoutingTable_clear`, which answers true all the same and
leaves the copy behind; `RouteMap` allows both when `SaveMayFail`. `Preferences.putBytes`
- external - writes nothing and returns 0 when given 0 bytes. `Restart` is
`RoutingTable_init` after a loss of power. The code writes last in every operation, so a
crash in the middle of one is a crash before or after it.

### RingBuffer

The array with its four operations and indices, uninitialised slots included. The firmware
only calls `enqueue` and `contains`.

## 3. Model checking

| Run | Instance | Question |
|---|---|---|
| `mac_safety` | 2 nodes, 2 identifiers, up to 2 frames each, 1 retry, a ring of one identifier, backoff up to 1 with a counter that wraps at 2 | the type and safety invariants, that nothing is handed up again while the ring holds it, and that `Mac` implements `MacService`: results in order, successes true, whatever is lost |
| `mac_live` | one node sends 2 frames to another, no retry, and either may restart once | every accepted frame has its result unless its node forgets it, a node that is not listening listens again, and no success is false although an acknowledgement outlives a restart |
| `ring_buffer` | capacity 4, values 1, 2 and 255, the value `dequeue` also returns for nothing | the array implements the sequence of the last values, removals in the middle included |
| `transport_two` | a node sends up to 2 segments at once, 1 retry, a ring of one identifier, routes that come and go | one result each, true successes, bounded retries, nothing handed up twice in a row |
| `transport_wan` | a node and a gateway, a segment at a time, to each other or through LoRaWAN | one result each, with uplink results that share the identifier 0, and that no segment is stuck while routes exist |
| `transport_live` | 3 nodes, one a gateway that reaches the two others and the other end of LoRaWAN through the server; one segment, 1 retry, under fairness | every segment gets its result; a success means that the destination, or the gateway that answers for it, was handed the segment |
| `routing_table` | 3 destinations, 2 hops, writes and erasures that may be refused | one route per destination, a call has its effect on the route asked for, the copy is what a restart finds, and the array implements `RouteMap` |
| `routing` | a line of 3 nodes, one a gateway; a packet from the far end to the server or back, one of the gateway to the server, 2 answers of the server with a time to live of 0, that of nodes 3, wrapping at 6, one change of routes (a loop, a missing route, a detour through the server), one re-initialisation | every packet ends, once, and takes no more hops than its time to live allows, with never 0 on the way; results go to the node's own frames; the nodes implement `Network` |
| `sleep` | 3 nodes, cycle 20, copies of 1 unit, 2 per transmission, room for 2 readings, clocks that may be a unit late, any SYNC lost or refused, one loss of power | as long as nothing is lost every node is awake for its SYNC and no reading is missing; whatever is lost, readings stay in order, every node sleeps again, and one without memory is synchronised again |
| `scheduler` | 4 addresses, up to 2 repetitions | the cleanup task exists exactly when needed, deletes what finished and nothing else, and all of it |
| `transport_viol_RightPort`, `sleep_viol_SuccessorAwake` | 2 applications; 3 nodes with exact clocks and power | section 5 |

Why the bounds are enough for the interesting cases: a second frame queues behind one in
flight and its acknowledgement may meet the wrong one; one retry gives a repeated frame, a
late acknowledgement, and a last failure; a ring of one identifier (`mac_safety`,
`transport_two`) forgets each for the next, so that a frame or a segment that comes again
may meet a ring that no longer knows it, and one of 2 holds all there are; two segments
make one timeout task do the work of the other; three routes have a first, a middle and a
last to remove. In `routing` a loop would keep a packet going past its time to live, an
answer with 0 leaves the gateway with the highest number there is, packets come back to
the node that made them, and two downlinks can meet in the buffer. In `sleep` the cycle is
longer than twice the window, the third node has no room for its reading, and a hop with
one copy and one with two differ by what the tolerance is for. `MaxSince` bounds the awake
time and lies beyond the longest wait; four addresses hold the cleanup task and three
others. Values that only name things are model values; symmetry over nodes and identifiers
is used in the safety runs of `Mac`, whose instances treat all of them alike, over
identifiers in `transport_two` and `transport_wan`, and in no run with liveness
properties.

`Ids` of `Routing` bounds the frames of a node below; 4 leave room for every packet there
is. `sends` counts to `TtlWrap`, more than any time to live allows. `mac_live` has no
retry, so that two frames and a restart fit: a retry is one more pass through the same
waits, and `mac_safety` has it. `MaxHandedUp` of `Mac` is 2 in `mac_live`, whose ring
holds both identifiers, so that no third can be new to it, and 3 in `mac_safety`, where a
frame, an acknowledgement, and the frame sent again may follow each other. `MaxFrames` of
`Transport` bounds frame identifiers in use. It has to be large enough for every live
frame, or a retransmission would wait for an identifier the program would simply draw. In
`transport_live` 2 are enough; in `transport_wan` the behaviours of two segments that need
a third identifier at one node are cut, which matters to liveness and is why only safety
is checked there. `MaxOutstanding` is 1 in the runs with LoRaWAN, which is how
`transport.cpp:365-366` says the layer is used, and 2 in `transport_two`. `MaxRelays`
bounds the uplink results waiting, `MaxUplinks` how often one packet may go round through
the server, and `MaxHandedUp` the log: 4 is as often as two segments sent twice can
arrive.

Every run of `Mac`, `Transport` and `Routing` allows deadlock: once everything is settled
and the bound on calls is reached, the system is quiet. `SleepChain` and `Scheduler` are
checked for it.

### Fairness

`mac_live` assumes that a frame whose reading began is read (weak), and strong fairness of
the transmission events and of the timeouts, since a pass of the scheduler runs every task
that is due whatever other tasks did: an event that is disabled for a moment by another
handler still comes. That a timeout, which tries to transmit, finds the channel free every
so often is an assumption on the environment: `mac.cpp:391-396` backs off for ever on a
channel that is always busy. No frame need ever be received.

`routing` assumes that MAC settles each frame, which `EveryFrameSettles` is, and that
scheduled tasks run. No frame need arrive, and routes may change as they like.

`sleep` assumes that clocks and timers run and that a node is given power again; that a
transmission ends; and strong fairness of a SYNC that is accepted by Transport and of one
that is heard: over a link that never carries anything no node can be synchronised, and
`Rejoins` needs it.

`scheduler` assumes that every pass of `scheduler_run` runs the tasks that are due.

`transport_live` assumes weak fairness of the results of frames, which is what
`EveryFrameSettles` of `Mac` gives, of the notification of uplink results, which are
scheduled tasks, of the passing of time and of the timeout tasks. Packets need never
arrive.

## 4. Proofs

`tlapm` checks these for every value of the constants the assumptions allow.

* `MacProofs`: `MacInvariant`, and from it the invariants `TypeOK`, `OneTimeout`,
  `NoLostWakeup`, `IdleListens` and `RetryAccounting`. None is inductive alone. The
  invariant `IInv` adds `PendingEvents`, which bounds the scheduled events by the state
  they were scheduled in (it is what makes the last of two transmission events harmless
  and `NoLostWakeup` inductive), and `BuffersLoaded`: a radio that has signalled a frame
  holds one, and so does a FSM that is not idle. One lemma per action; the actions that
  transmit share `TransmitInv`, those that report a result `FinishInv`.
* `MacOutcomeProofs`: `OutcomesInOrder`. That the accepted frames are, in order, those
  settled, the one in flight and those queued, with `IInv` for the types; it also covers
  repeated identifiers and restarts, any number of nodes and of calls. `NoneRepeatedEarly`
  (`NoEarlyRepeat`) covers them as well and has no hypothesis: the ring is the end of what
  was handed up since the last start (`RingInv`), whatever its size. `SuccessIsTrue`
  (`NoFalseSuccess`) and `ServiceImplemented`, the refinement of `MacService`, have some
  (below). What they need beside `IInv` is `FrameInv`: a node's frames carry its own
  identifiers, which were drawn, an identifier is that of one frame, and
  (`KnownIsDelivered`) one that is in an acknowledgement anywhere - in the air, in a
  radio, in a buffer - or in a ring is that of a frame its receiver has handed up.
* `TransportProofs`: `OneResultEach` (`OneResult`), `NothingForgotten` (`NoneForgotten`),
  `SuccessAnswered` (`SuccessIsAnswered`), `NoneRepeatedEarly` (`NoEarlyRepeat`) and
  `TypeCorrect`, for every network and every size of the ring; `SuccessIsTrue`
  (`NoFalseSuccess`), `RetriesBounded` with `RetryBoundHolds` (`RetryBound`), and
  `NoneStuck` (`NoStuckSegment`), under the hypotheses below. The invariants are
  `ResultInv` (a segment in the queue is one that was accepted, its identifier is used
  once, and what is notified is no longer queued), `NetInv` (frames, packets and the ring
  are about segments that were sent, and an end-to-end acknowledgement is about one that
  was handed up at its destination or at a gateway that answers for it), for the ring that
  it is the end of what was handed up, and for the last two what names a segment: the
  bound on retries needs that at most one frame below has its identifier and none while
  its timeout runs (`Sound`); that nothing is stuck needs an armed task of its own
  (`Served`). None assumes that a pointer to a task is valid: stopping one may disable any
  task.
* `RingBufferProofs`: for the uses the firmware makes, which only add values,
  `IndicesInvariant` and `KeepsLastValues`, a refinement: the array with indices that wrap
  implements the sequence of the last values. The slots of the window are computed for a
  buffer with room and for a full one. This is what justifies the rings of `Mac` and
  `Transport` being sequences.
* `RoutingTableProofs`: `OneRoute`, `Survival`, `CallsSetRoutes` (the action property
  `CallsTakeEffect`), and `TableImplementsRouteMap`, a refinement. The invariant is that
  the table and the copy are both valid (one entry per destination) and that the copy is
  the table when nothing failed; the lemmas say how appending, removing with a shift and
  changing an entry affect what a search finds.
* `SchedulerProofs`: `CleanupExists` (`CleanupWhileTasks`) and the action property
  `DeletesOnlyFinished`, for any finite set of addresses. `CleanupWhileTasks` is inductive
  with the types. The code decides by counting, and two lemmas turn its counts around: the
  set that needs a cleanup task is that of the first task, and the one task left is the
  cleanup task.
* `RoutingProofs`: `TypeCorrect`, `OwnFramesOnly` (`OwnFramesListed`) and `NoWrap`
  (`TtlNeverWraps`), for every network, traffic and change of routes. `OwnFramesListed` is
  not inductive: settling a frame erases its identifier, which must not be that of another
  frame in the queue, so the invariant adds that the identifiers of a queue are distinct.
  A time to live of 0 or above `MaxTTL` comes in with a downlink, so that none is on its
  way between nodes is no matter of types: it is that the gateway decrements it first,
  which makes 255 of 0, and that what is sent on did not have 1. `NoWrap`,
  `HopsAreBounded` (`HopsBounded`) and `NetworkImplemented`, the refinement of `Network`,
  rest on `TravelInv`: a packet is in one place at most - a frame that has not arrived, an
  `inbox`, the downlink buffer -, and the frames it has taken and those it has left are
  together what it was `allowed` by whoever made it. Every action is first shown to be a
  `PacketStep`, in which one packet starts, moves or ends, or two when a downlink comes
  with the result; each maps to a step of `Network` or a stutter.
* `SleepProofs`: `TypeCorrect`, `DataIsAChain` (`DataIsChain`), for every line whatever
  fails, and, under the hypotheses below, `LineKeepsTime` with `AwakeInTime`
  (`AwakeUnlessLost`), `ReadingsComplete` (`NoneMissing`) and `NoneTimesOut`.
  `AwakeUnlessLost` is far from inductive: the node that must be awake set its timer a
  cycle ago. `Line(f, p, c)` says of the nodes `1..p` of the line how long ago, `f[n]`,
  the reference of each was - its clock: what its timer, its window or its transmission
  says -, and that the SYNC of this cycle has reached node `c`: the references of the
  nodes it has reached lie behind that of the initiator by `Lo(n)` (one copy per hop) to
  `Hi(n)` (all of them), and those of the others by a cycle less that. Time passing keeps
  the differences, a SYNC received moves one node over, and a new cycle turns those behind
  into those ahead. From the differences it follows who is awake (`WhoWaits`), that no
  window ends (`NoTimeout`) and that a cycle starts only after the last one reached the
  whole line (`StartsWhenDone`).

The assumptions are those of the modules' `ASSUME`s: types of constants, a retry count in
`Nat`, rings that are not empty. Some theorems have hypotheses of their own, in their
statement:

* `UniqueIds` (`Mac`: `SuccessIsTrue` and `ServiceImplemented`), that the 16-bit random
  identifiers of frames in use do not repeat. Without it TLC refutes `NoFalseSuccess` with
  three nodes: a frame whose identifier is in the ring of its receiver, from another
  sender, is acknowledged and not handed up.
* `MaxRestarts = 0` (`ServiceImplemented`): a restart forgets the ring, and what it may
  repeat is nowhere promised.
* Gateways uplink only what is for the other end of LoRaWAN (`SuccessIsTrue` of
  `Transport`). Otherwise the gateway answers for a node: `SuccessAnswered` says what is
  left, and TLC refutes `NoFalseSuccess` (section 5).
* `WanNodes = {}` (`RetryBoundHolds`), no uplinks. The results of uplinks all have the
  identifier 0, so at a gateway one may be counted as a retry of another segment: TLC
  refutes `RetryBound` there. `RetriesBounded` is about every other node.
* `RoutesMayMiss = FALSE` and `MaxOutstanding <= 1` (`NoneStuck`). Without the first a
  retransmission may fail (section 5). With two segments at once TLC finds another that is
  stuck: the acknowledgement of the first comes before its pointer was assigned, and stops
  the task of the second.
* `ClocksAgree` and `CycleIsLong` (`SleepProofs`). The errors of two sleeps differ by less
  than `Extra` and one transmission, less than 3 in the instance of `sleep`: with 4 TLC
  refutes `AwakeUnlessLost` there. And a cycle has room for the tolerance, one
  transmission, one copy and `Extra`, which is that no sleep is cut at zero
  (`sleep.cpp:296`); with `config.h` these are about 20 of 60 seconds.

Only model-checked: liveness, which is out of the provers' reach, and `dequeue` and
`remove` of the ring, which the firmware never calls; the loop of `remove` is a recursion,
about which the installed provers cannot do induction. Of `Mac`, `MacInvariant`,
`OutcomesInOrder`, `SuccessIsTrue` and `NoneRepeatedEarly` cover restarts; what a restart
may repeat is in no theorem. No theorem says that a frame or a segment is never handed up
twice: the code does not achieve it, since a ring may have forgotten it by its next
attempt. In `mac_safety` a frame is handed up, then an acknowledgement, and then the frame
again. The configurations of `mac_safety`, `transport_two`, `transport_wan`,
`transport_live`, `routing` and `sleep` satisfy the hypotheses of the theorems whose
properties they check; `mac_live` checks `NoFalseSuccess` with a restart, `transport_wan`
`NoStuckSegment` beside a gateway's uplinks.

## 5. Where the code and its documentation disagree

Two have a run named after the property, which finds the violation (`findings` in
`PROJECT.json` quotes the documentation):

* `RightPort`: the port of a result is read from an erased entry, so the result of a
  segment goes to the application of the next one.
* `SuccessorAwake`: `tfe.tex:1755` says that nodes further away take their timeout later,
  so that none begins before the data of the one before it has come. They take it as much
  later as their last SYNC took, which may be a single copy, while the SYNC sent after a
  timeout may need several: its receiver has begun its own by then and ignores it.

More were met while modelling. Their properties are stated in the modules, and TLC refutes
each when it is named in the configuration given:

* `SeenIsOwnData`, `AckWaitListens` (as `mac_safety`): `mac.cpp:300` says that an
  identifier seen before is that of repeated data, and it may be that of an
  acknowledgement; and a node may enter the wait for an acknowledgement with its radio not
  receiving.
* `BackoffNeverShrinks` (one node, `BebWrap` 256, `MaxBebRetry` 10): `config.h:43` says
  the backoff stops growing; its 8-bit counter wraps and it starts again.
* `TimeoutFindsSegment`, `AckStopsItsTask` (as `transport_two`): a timeout task may find
  nothing expired, which `transport.cpp:327` says should not happen; an acknowledgement
  may stop a task that does not exist.
* `UplinkResultIsOwn` (as `transport_wan`): the result of a relayed packet settles a
  segment of the gateway's own, against `tfe.tex:774`. It may also count as one more retry
  of it, so `RetryBound` is checked only where no uplink is made.
* `NoFalseSuccess` (as `transport_live`): a gateway whose route to a node leads through
  the server, as `routing.cpp:106` suggests, hands what it uplinks to its own Transport
  (`routing.cpp:197-201`), which acknowledges it. The sender is told that its segment was
  received, and its destination may never see it, while `tfe.tex:1024` says that the
  acknowledgement is the receiver's. `SuccessIsAnswered` says what holds whatever the
  routes.
* `ClearTellsFailure` (as `routing_table`): `routing_table.h:42` says that clearing the
  table answers `false` on an error. A storage that does not erase is not noticed
  (`routing_table.cpp:144`), and the routes are back after a restart, which `RouteMap`
  allows.
* `FailureIsTold` (as `routing_table`): an update repeated after a refused write answers
  that it is stored.
* `AckIsNeverData` (as `mac_safety`): `mac.cpp:297-298` and `tfe.tex:464` say that an
  acknowledgement nobody awaits is ignored; it is kept and handed up as data.
* `NoStuckSegment` (as `transport_two`, with routes that may be removed): a retransmission
  that cannot be made leaves a segment that nothing looks at again, against
  `tfe.tex:1065`.
* `TableSurvives` (as `routing_table`): `routing_table.h:36` says that removing a route is
  stored; removing the last one is not.

Others show in the text of a module rather than in a property of it: the results of
uplinks a gateway relays are notified to its upper layer, against `tfe.tex:774`
(`ToServer` of `Routing`); and of two downlinks that meet in the buffer the first is lost
(`SentWithDownlink`; `lorawan.cpp:31-33` leaves that to the layer above, which does not
look). `scheduler.cpp:85-86` deletes the task whose callback is running; what the library
does with it afterwards is outside this source.

## 6. Not modelled, and the plan

What is left, in this order:

1. An abstract `TransportService`, implemented by `Transport`: its parts are proved
   (`OneResultEach`, `NothingForgotten`, `SuccessAnswered`, `NoneRepeatedEarly`).
2. `mac_live` with retries; the proof of `dequeue` of `RingBuffer`.
3. **LinkedFIFO** with its pointers.
4. **De-initialisation** of Transport and MAC. The firmware only ever does it on its way
   into deep sleep, from where no task runs on.

Restarts are modelled in `Mac`, `RoutingTable` and `SleepChain`, not in `Routing` or
`Transport`. `Routing` leaves out the length of packets, which nobody checks in a downlink
(a short one is read with what the packet before it left in `rxPDU`), and identifiers of
frames that repeat: `Mac` covers what those do below. Of the LoRaWAN adapter, joining,
sessions and nonces are left out: they are calls into RadioLib. Of Sleep, `Sleep_deinit`,
which nothing calls, commands other than SYNC, and a node without a successor, which
sleeps as soon as it is synchronised.

Left out on purpose: contents of messages, power and frequency settings, logging and calls
into RadioLib, the registration of ports, exhaustion of memory, the duty-cycle wait
(`mac.cpp:508`, whose macro is not defined, so it is not compiled), and the measurement
scripts under `src/tests/`.
