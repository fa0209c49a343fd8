---------------------------- MODULE SleepProofs ----------------------------
(***************************************************************************)
(* The low power line for every number of nodes, every length of a message *)
(* and every timing.                                                       *)
(*                                                                         *)
(* The readings of a message are a chain whatever fails. As long as no     *)
(* SYNC is lost the line keeps time: the references of its nodes are apart *)
(* by what the transmissions between them take, at least a copy each and   *)
(* at most all the copies, and those the SYNC of this cycle has not        *)
(* reached yet by a cycle more, with the error of one sleep. That is the   *)
(* invariant (Line) from which the margins of goToSleep and syncTimeout    *)
(* follow.                                                                 *)
(***************************************************************************)
EXTENDS SleepChain, SequenceTheorems, TLAPS

---------------------------------------------------------------------------
(* Numbers. *)

\* The least and the greatest of two.
LEMMA MinOfTwo ==
  \A a, b \in Int : Min({a, b}) = IF a <= b THEN a ELSE b
<1> SUFFICES ASSUME NEW a \in Int, NEW b \in Int
             PROVE  Min({a, b}) = IF a <= b THEN a ELSE b
  OBVIOUS
<1> DEFINE m == IF a <= b THEN a ELSE b
<1>1. m \in {a, b} /\ \A y \in {a, b} : m =< y
  OBVIOUS
<1>2. \A x \in {a, b} : (\A y \in {a, b} : x =< y) => x = m
  OBVIOUS
<1> QED BY <1>1, <1>2, Zenon DEF Min

LEMMA MaxOfTwo ==
  \A a, b \in Int : Max({a, b}) = IF a >= b THEN a ELSE b
<1> SUFFICES ASSUME NEW a \in Int, NEW b \in Int
             PROVE  Max({a, b}) = IF a >= b THEN a ELSE b
  OBVIOUS
<1> DEFINE m == IF a >= b THEN a ELSE b
<1>1. m \in {a, b} /\ \A y \in {a, b} : m >= y
  OBVIOUS
<1>2. \A x \in {a, b} : (\A y \in {a, b} : x >= y) => x = m
  OBVIOUS
<1> QED BY <1>1, <1>2, Zenon DEF Max

\* The constants and the tolerance are whole numbers.
LEMMA Numbers ==
  /\ N \in Nat /\ N >= 1 /\ Cycle \in Nat /\ Extra \in Nat
  /\ MaxSend \in Nat /\ Airtime \in Nat /\ Airtime >= 1 /\ Airtime <= MaxSend
  /\ MaxSince \in Nat /\ computeDeltaTime \in Nat
  /\ MaxFaults \in Nat /\ Drift \subseteq Int /\ 0 \in Drift
  /\ MaxData \in Nat /\ MaxData >= 1
BY SleepAssumption DEF MaxSince, computeDeltaTime

---------------------------------------------------------------------------
(* Types. *)

\* The part of the state goToSleep writes.
SleepTypes ==
  /\ sleepState \in [Nodes -> {WAIT_FIRST_SYNC, PROPAGATE, SLEEP, WAIT_SYNC}]
  /\ isSync \in [Nodes -> BOOLEAN]
  /\ since \in [Nodes -> 0..MaxSince]
  /\ timer \in [Nodes -> Nat]

LEMMA IdleType == Idle \in LinkTypes
BY Numbers, EmptySeq DEF Idle, LinkTypes

\* What a transmission is when it begins.
LEMMA SendingFields ==
  ASSUME NEW data \in Seq(Nodes)
  PROVE  /\ Sending(data) \in LinkTypes
         /\ Sending(data).on /\ ~Sending(data).arrived
         /\ Sending(data).age = 0 /\ Sending(data).data = data
<1>1. ~Idle.on /\ ~Idle.arrived /\ Idle.age = 0
  BY DEF Idle
<1>2. ASSUME NEW l \in LinkTypes, ~l.arrived, l.age = 0
      PROVE  LET s == [l EXCEPT !.on = TRUE, !.data = data]
             IN  s \in LinkTypes /\ s.on /\ ~s.arrived /\ s.age = 0 /\ s.data = data
  BY <1>2 DEF LinkTypes
<1> QED BY <1>1, <1>2, IdleType, Zenon DEF Sending

\* A transmission that goes on.
LEMMA OlderType ==
  ASSUME NEW l \in LinkTypes, l.age # MaxSend
  PROVE  [l EXCEPT !.age = @ + 1] \in LinkTypes
BY Numbers DEF LinkTypes

LEMMA SleepTimeType ==
  ASSUME TypeOK, NEW n \in Nodes, NEW synced, NEW at \in 0..MaxSince
  PROVE  SleepTime(n, synced, at) \in Int
BY Numbers DEF SleepTime, TypeOK

LEMMA GoToSleepType ==
  ASSUME TypeOK, NEW n \in Nodes, NEW synced, NEW at \in 0..MaxSince,
         goToSleep(n, synced, at)
  PROVE  SleepTypes'
<1>1. PICK e \in Drift :
        timer' = [timer EXCEPT ![n] = Max({SleepTime(n, synced, at) + e, 0})]
  BY DEF goToSleep
<1>2. Max({SleepTime(n, synced, at) + e, 0}) \in Nat
  BY SleepTimeType, Numbers, MaxOfTwo
<1>3. timer' \in [Nodes -> Nat]
  BY <1>1, <1>2 DEF TypeOK
<1>4. sleepState' = [sleepState EXCEPT ![n] = SLEEP]
      /\ isSync' = [isSync EXCEPT ![n] = FALSE] /\ since' = [since EXCEPT ![n] = 0]
  BY DEF goToSleep
<1> QED BY <1>3, <1>4, Numbers DEF SleepTypes, TypeOK

LEMMA WithReadingType ==
  ASSUME NEW n \in Nodes, NEW data \in Seq(Nodes)
  PROVE  WithReading(n, data) \in Seq(Nodes)
BY AppendProperties DEF WithReading

LEMMA ForwardSyncType ==
  ASSUME TypeOK, NEW n \in Nodes, NEW data \in Seq(Nodes), NEW synced \in BOOLEAN,
         NEW at \in 0..MaxSince, NEW links \in [Nodes -> LinkTypes],
         forwardSync(n, data, synced, at, links)
  PROVE  SleepTypes' /\ link' \in [Nodes -> LinkTypes] /\ lost' \in BOOLEAN
<1>1. CASE /\ link' = [links EXCEPT ![n] = Sending(WithReading(n, data))]
           /\ sleepState' = [sleepState EXCEPT ![n] = PROPAGATE]
           /\ isSync' = [isSync EXCEPT ![n] = synced]
           /\ since' = [since EXCEPT ![n] = at]
           /\ UNCHANGED <<timer, lost>>
  <2>1. Sending(WithReading(n, data)) \in LinkTypes
    BY WithReadingType, SendingFields
  <2> QED BY <1>1, <2>1 DEF SleepTypes, TypeOK
<1>2. CASE goToSleep(n, synced, at) /\ link' = links /\ lost' = TRUE
  BY <1>2, GoToSleepType
<1> QED BY <1>1, <1>2 DEF forwardSync

LEMMA InitType == Init => TypeOK
<1> SUFFICES ASSUME Init PROVE TypeOK
  OBVIOUS
<1>1. link \in [Nodes -> LinkTypes]
  BY IdleType DEF Init
<1>2. powered \in [Nodes -> BOOLEAN] /\ isSync \in [Nodes -> BOOLEAN]
  BY DEF Init
<1>3. sleepState \in [Nodes -> {WAIT_FIRST_SYNC, PROPAGATE, SLEEP, WAIT_SYNC}]
  BY DEF Init
<1>4. /\ deltaTime \in [Nodes -> {0, computeDeltaTime}]
      /\ since \in [Nodes -> 0..MaxSince] /\ timer \in [Nodes -> Nat]
  BY Numbers DEF Init
<1>5. faults = 0 /\ lost \in BOOLEAN
  BY Zenon DEF Init
<1>6. faults \in 0..MaxFaults
  BY <1>5, Numbers
<1> QED BY <1>1, <1>2, <1>3, <1>4, <1>5, <1>6, Zenon DEF TypeOK

LEMMA TickType ==
  ASSUME TypeOK, Tick
  PROVE  TypeOK'
<1>1. \A n \in Nodes : ~(link[n].on /\ link[n].age = MaxSend)
  BY DEF Tick, Due
<1>2. link' \in [Nodes -> LinkTypes]
  <2>1. ASSUME NEW n \in Nodes, link[n].on
        PROVE  [link[n] EXCEPT !.age = @ + 1] \in LinkTypes
    <3>1. link[n] \in LinkTypes /\ link[n].age # MaxSend
      BY <1>1, <2>1 DEF TypeOK
    <3> QED BY <3>1, OlderType, Zenon
  <2> QED BY <2>1, IdleType DEF Tick
<1>3. since' \in [Nodes -> 0..MaxSince]
  <2>1. ASSUME NEW n \in Nodes
        PROVE  Min({since[n] + 1, MaxSince}) \in 0..MaxSince
    BY MinOfTwo, Numbers DEF TypeOK
  <2> QED BY <2>1, Numbers DEF Tick
<1>4. timer' \in [Nodes -> Nat]
  BY DEF Tick, TypeOK
<1> QED BY <1>2, <1>3, <1>4 DEF Tick, TypeOK

LEMMA NodeStepType ==
  ASSUME TypeOK, NEW n \in Nodes, NodeStep(n)
  PROVE  TypeOK'
<1>1. CASE PowerOn(n)
  BY <1>1 DEF PowerOn, TypeOK
<1>2. CASE Wake(n)
  BY <1>2 DEF Wake, TypeOK
<1>3. CASE PowerOff(n)
  <2> QED BY <1>3, IdleType, Numbers DEF PowerOff, TypeOK
<1>4. CASE Initiate(n)
  <2>1. SleepTypes' /\ link' \in [Nodes -> LinkTypes] /\ lost' \in BOOLEAN
    BY <1>4, ForwardSyncType, EmptySeq DEF Initiate, TypeOK
  <2> QED BY <1>4, <2>1 DEF Initiate, TypeOK, SleepTypes
<1>5. CASE Receive(n)
  <2> DEFINE links == [link EXCEPT ![n - 1].arrived = TRUE]
  <2>1. n - 1 \in Nodes
    BY <1>5, Numbers DEF Receive, Nodes
  <2>2. links \in [Nodes -> LinkTypes] /\ link[n - 1].data \in Seq(Nodes)
    BY <2>1 DEF TypeOK, LinkTypes
  <2>3. SleepTypes' /\ link' \in [Nodes -> LinkTypes] /\ lost' \in BOOLEAN
    <3>1. CASE forwardSync(n, link[n - 1].data, TRUE, 0, links)
      <4>1. 0 \in 0..MaxSince
        BY Numbers
      <4> QED BY <2>2, <3>1, <4>1, ForwardSyncType, Zenon
    <3>2. CASE link' = links /\ UNCHANGED <<sleepState, isSync, since, timer, lost>>
      BY <2>2, <3>2 DEF TypeOK, SleepTypes
    <3> QED BY <1>5, <3>1, <3>2 DEF Receive
  <2> QED BY <1>5, <2>3 DEF Receive, TypeOK, SleepTypes
<1>6. CASE syncTimeout(n)
  <2>1. SleepTypes' /\ link' \in [Nodes -> LinkTypes] /\ lost' \in BOOLEAN
    BY <1>6, ForwardSyncType, EmptySeq DEF syncTimeout, TypeOK
  <2> QED BY <1>6, <2>1 DEF syncTimeout, TypeOK, SleepTypes
<1>7. CASE Done(n)
  <2>1. SleepTypes' /\ lost' \in BOOLEAN
    BY <1>7, GoToSleepType DEF Done, TypeOK
  <2> QED BY <1>7, <2>1, IdleType DEF Done, TypeOK, SleepTypes
<1> QED BY <1>1, <1>2, <1>3, <1>4, <1>5, <1>6, <1>7 DEF NodeStep, Event

\* Clocks, timers and states keep their ranges: a transmission is over when
\* its copies are (sent or sendError), a node that is awake counts no further
\* than two cycles, and no sleep is negative (sleep.cpp, goToSleep).
THEOREM TypeCorrect == Spec => []TypeOK
<1>1. TypeOK /\ [Next]_vars => TypeOK'
  <2> SUFFICES ASSUME TypeOK, [Next]_vars PROVE TypeOK'
    OBVIOUS
  <2>1. CASE Tick
    BY <2>1, TickType
  <2>2. ASSUME NEW n \in Nodes, NodeStep(n) PROVE TypeOK'
    BY <2>2, NodeStepType
  <2>3. CASE UNCHANGED vars
    BY <2>3 DEF vars, nodeVars, TypeOK
  <2> QED BY <2>1, <2>2, <2>3 DEF Next
<1> QED BY InitType, <1>1, PTL DEF Spec

---------------------------------------------------------------------------
(* The readings of a message. *)

\* The readings of the nodes from i up to n, cut where there is no more room.
Chain(i, n) == SubSeq(UpTo(i, n), 1, Min({n - i + 1, MaxData}))

LEMMA ChainIs ==
  ASSUME NEW n \in Nodes, NEW i \in 1..n
  PROVE  /\ Chain(i, n) \in Seq(Nodes)
         /\ Len(Chain(i, n)) = IF n - i + 1 <= MaxData THEN n - i + 1 ELSE MaxData
         /\ \A k \in 1..Len(Chain(i, n)) : Chain(i, n)[k] = i + k - 1
<1> DEFINE m == IF n - i + 1 <= MaxData THEN n - i + 1 ELSE MaxData
<1>1. n \in Int /\ i \in Int /\ 1 <= i /\ i <= n /\ n <= N
  BY Numbers DEF Nodes
<1>2. m \in Int /\ 1 <= m /\ m <= n - i + 1 /\ Min({n - i + 1, MaxData}) = m
  BY <1>1, Numbers, MinOfTwo
<1>3. \A k \in 1..m : UpTo(i, n)[k] = i + k - 1
  BY <1>1, <1>2 DEF UpTo
<1>4. \A k \in 1..m : UpTo(i, n)[k] \in Nodes
  BY <1>1, <1>2, <1>3, Numbers DEF Nodes
<1> HIDE DEF m
<1>5. /\ SubSeq(UpTo(i, n), 1, m) \in Seq(Nodes)
      /\ Len(SubSeq(UpTo(i, n), 1, m)) = IF 1 <= m THEN m - 1 + 1 ELSE 0
      /\ \A k \in 1..(m - 1 + 1) : SubSeq(UpTo(i, n), 1, m)[k] = UpTo(i, n)[1 + k - 1]
  BY <1>2, <1>4, SubSeqProperties
<1>6. Chain(i, n) = SubSeq(UpTo(i, n), 1, m)
  BY <1>2 DEF Chain
<1>7. Len(Chain(i, n)) = m
  BY <1>2, <1>5, <1>6
<1>8. \A k \in 1..m : Chain(i, n)[k] = i + k - 1
  BY <1>2, <1>3, <1>5, <1>6
<1> QED BY <1>5, <1>6, <1>7, <1>8 DEF m

\* A node that starts a message: its own reading.
LEMMA ChainStarts ==
  ASSUME NEW n \in Nodes
  PROVE  WithReading(n, <<>>) = Chain(n, n)
<1>1. n \in 1..n
  BY Numbers DEF Nodes
<1>2. Chain(n, n) \in Seq(Nodes) /\ Len(Chain(n, n)) = 1 /\ Chain(n, n)[1] = n
  <2>1. /\ Chain(n, n) \in Seq(Nodes)
        /\ Len(Chain(n, n)) = IF n - n + 1 <= MaxData THEN n - n + 1 ELSE MaxData
        /\ \A k \in 1..Len(Chain(n, n)) : Chain(n, n)[k] = n + k - 1
    BY <1>1, ChainIs, Zenon
  <2>2. n \in Int
    BY Numbers DEF Nodes
  <2>3. Len(Chain(n, n)) = 1
    BY <2>1, <2>2, Numbers
  <2> QED BY <2>1, <2>2, <2>3
<1>3. WithReading(n, <<>>) = Append(<<>>, n)
  BY Numbers DEF WithReading
<1>4. /\ Append(<<>>, n) \in Seq(Nodes) /\ Len(Append(<<>>, n)) = 1
      /\ Append(<<>>, n)[1] = n
  BY AppendProperties, EmptySeq
<1>5. \A k \in 1..Len(Chain(n, n)) : Chain(n, n)[k] = Append(<<>>, n)[k]
  BY <1>2, <1>4
<1> QED BY <1>2, <1>3, <1>4, <1>5, SeqEqual

\* A node that passes a message on: its reading after those that came, or
\* the message as it came when that is full.
LEMMA ChainGrows ==
  ASSUME NEW n \in Nodes, n > 1, NEW i \in 1..(n - 1)
  PROVE  WithReading(n, Chain(i, n - 1)) = Chain(i, n)
<1> DEFINE old == Chain(i, n - 1)
           new == WithReading(n, old)
<1>1. /\ n \in Int /\ i \in Int /\ 1 <= i /\ i < n /\ n <= N
      /\ n - 1 \in Nodes /\ i \in 1..n
  BY Numbers DEF Nodes
<1>2. /\ old \in Seq(Nodes)
      /\ Len(old) = IF n - i <= MaxData THEN n - i ELSE MaxData
      /\ \A k \in 1..Len(old) : old[k] = i + k - 1
  <2>1. (n - 1) - i + 1 = n - i
    BY <1>1
  <2>2. /\ old \in Seq(Nodes)
        /\ Len(old) = IF (n - 1) - i + 1 <= MaxData THEN (n - 1) - i + 1 ELSE MaxData
        /\ \A k \in 1..Len(old) : old[k] = i + k - 1
    BY <1>1, ChainIs
  <2> QED BY <2>1, <2>2, Zenon
<1>3. /\ Chain(i, n) \in Seq(Nodes)
      /\ Len(Chain(i, n)) = IF n - i + 1 <= MaxData THEN n - i + 1 ELSE MaxData
      /\ \A k \in 1..Len(Chain(i, n)) : Chain(i, n)[k] = i + k - 1
  BY <1>1, ChainIs
<1> HIDE DEF old
<1>4. CASE Len(old) + 1 <= MaxData
  <2>1. Len(old) = n - i /\ Len(Chain(i, n)) = n - i + 1
    BY <1>1, <1>2, <1>3, <1>4, Numbers
  <2>2. new = Append(old, n)
    BY <1>4 DEF WithReading
  <2>3. /\ new \in Seq(Nodes) /\ Len(new) = Len(old) + 1
        /\ \A k \in 1..Len(old) : new[k] = old[k]
        /\ new[Len(old) + 1] = n
    BY <1>2, <2>2, AppendProperties
  <2> HIDE DEF new
  <2>4. \A k \in 1..Len(new) : new[k] = Chain(i, n)[k]
    <3> SUFFICES ASSUME NEW k \in 1..Len(new) PROVE new[k] = Chain(i, n)[k]
      OBVIOUS
    <3>1. CASE k \in 1..Len(old)
      BY <1>1, <1>2, <1>3, <2>1, <2>3, <3>1
    <3>2. CASE k = Len(old) + 1
      BY <1>1, <1>3, <2>1, <2>3, <3>2
    <3> QED BY <1>1, <2>1, <2>3, <3>1, <3>2
  <2>5. new = Chain(i, n)
    BY <1>3, <2>1, <2>3, <2>4, SeqEqual
  <2> QED BY <2>5 DEF new, old
<1>5. CASE ~(Len(old) + 1 <= MaxData)
  <2>1. Len(old) = MaxData /\ Len(Chain(i, n)) = MaxData
    BY <1>1, <1>2, <1>3, <1>5, Numbers
  <2>2. \A k \in 1..Len(old) : old[k] = Chain(i, n)[k]
    BY <1>2, <1>3, <2>1
  <2>3. old = Chain(i, n)
    BY <1>2, <1>3, <2>1, <2>2, SeqEqual
  <2>4. new = old
    BY <1>5 DEF WithReading
  <2> QED BY <2>3, <2>4 DEF old
<1> QED BY <1>4, <1>5

ChainAt(l, n) == l.on => \E i \in 1..n : l.data = Chain(i, n)

\* forwardSync keeps the data of the other messages and gives the one it
\* sends its own reading, at the end of the chain it received.
LEMMA ForwardSyncData ==
  ASSUME NEW n \in Nodes, NEW data \in Seq(Nodes), NEW synced, NEW at,
         NEW links \in [Nodes -> LinkTypes],
         forwardSync(n, data, synced, at, links),
         data = <<>> \/ (n > 1 /\ \E i \in 1..(n - 1) : data = Chain(i, n - 1)),
         \A m \in Nodes : ChainAt(links[m], m)
  PROVE  \A m \in Nodes : ChainAt(link'[m], m)
<1>1. CASE link' = [links EXCEPT ![n] = Sending(WithReading(n, data))]
  <2>1. \E i \in 1..n : WithReading(n, data) = Chain(i, n)
    <3>1. CASE data = <<>>
      <4>1. n \in 1..n
        BY Numbers DEF Nodes
      <4> QED BY <3>1, <4>1, ChainStarts
    <3>2. CASE n > 1 /\ \E i \in 1..(n - 1) : data = Chain(i, n - 1)
      <4>1. PICK i \in 1..(n - 1) : data = Chain(i, n - 1)
        BY <3>2
      <4>2. i \in 1..n
        BY <3>2, Numbers DEF Nodes
      <4> QED BY <3>2, <4>1, <4>2, ChainGrows
    <3> QED BY <3>1, <3>2
  <2>2. WithReading(n, data) \in Seq(Nodes)
    BY WithReadingType
  <2>3. ChainAt(Sending(WithReading(n, data)), n)
    BY <2>1, <2>2, SendingFields DEF ChainAt
  <2>4. ASSUME NEW m \in Nodes PROVE ChainAt(link'[m], m)
    <3>1. CASE m = n
      <4>1. link'[m] = Sending(WithReading(n, data))
        BY <1>1, <3>1
      <4> QED BY <2>3, <3>1, <4>1, Zenon
    <3>2. CASE m # n
      <4>1. link'[m] = links[m]
        BY <1>1, <3>2
      <4> QED BY <4>1, Zenon
    <3> QED BY <3>1, <3>2
  <2> QED BY <2>4
<1>2. CASE link' = links
  BY <1>2, Zenon
<1> QED BY <1>1, <1>2 DEF forwardSync

LEMMA DataIs == DataIsChain <=> \A n \in Nodes : ChainAt(link[n], n)
BY Zenon DEF DataIsChain, ChainAt, Chain

LEMMA DataStep ==
  ASSUME TypeOK, [Next]_vars, \A m \in Nodes : ChainAt(link[m], m)
  PROVE  \A m \in Nodes : ChainAt(link'[m], m)
<1>1. \A m \in Nodes : ChainAt(Idle, m)
  BY DEF ChainAt, Idle
<1>2. CASE Tick
  <2>1. ASSUME NEW m \in Nodes PROVE ChainAt(link'[m], m)
    <3>1. CASE link[m].on
      <4>1. link[m] \in LinkTypes
        BY DEF TypeOK
      <4>2. link'[m] = [link[m] EXCEPT !.age = @ + 1]
        BY <1>2, <3>1 DEF Tick
      <4>3. link'[m].on = link[m].on /\ link'[m].data = link[m].data
        BY <4>1, <4>2 DEF LinkTypes
      <4> QED BY <4>3, Zenon DEF ChainAt
    <3>2. CASE ~link[m].on
      <4>1. link'[m] = Idle
        BY <1>2, <3>2 DEF Tick
      <4> QED BY <1>1, <4>1, Zenon
    <3> QED BY <3>1, <3>2
  <2> QED BY <2>1
<1>3. ASSUME NEW n \in Nodes, NodeStep(n)
      PROVE  \A m \in Nodes : ChainAt(link'[m], m)
  <2>1. CASE PowerOn(n) \/ Wake(n)
    <3>1. link' = link
      BY <2>1 DEF PowerOn, Wake
    <3> QED BY <3>1, Zenon
  <2>2. CASE PowerOff(n) \/ Done(n)
    <3>1. link' = [link EXCEPT ![n] = Idle]
      BY <2>2 DEF PowerOff, Done
    <3>2. ASSUME NEW m \in Nodes PROVE ChainAt(link'[m], m)
      <4>1. link'[m] = IF m = n THEN Idle ELSE link[m]
        BY <3>1 DEF TypeOK
      <4> QED BY <1>1, <4>1, Zenon
    <3> QED BY <3>2
  <2>3. CASE Initiate(n) \/ syncTimeout(n)
    <3>1. PICK synced \in BOOLEAN : forwardSync(n, <<>>, synced, since[n], link)
      BY <2>3 DEF Initiate, syncTimeout
    <3>2. link \in [Nodes -> LinkTypes] /\ <<>> \in Seq(Nodes)
      BY EmptySeq DEF TypeOK
    <3> QED BY <3>1, <3>2, ForwardSyncData, Zenon
  <2>4. CASE Receive(n)
    <3> DEFINE links == [link EXCEPT ![n - 1].arrived = TRUE]
    <3>1. n > 1 /\ n - 1 \in Nodes /\ link[n - 1].on
      BY <2>4, Numbers DEF Receive, Nodes
    <3>2. links \in [Nodes -> LinkTypes] /\ link[n - 1].data \in Seq(Nodes)
      BY <3>1 DEF TypeOK, LinkTypes
    <3>3. ASSUME NEW m \in Nodes PROVE ChainAt(links[m], m)
      <4>1. link[m] \in LinkTypes
        BY DEF TypeOK
      <4>2. links[m].on = link[m].on /\ links[m].data = link[m].data
        BY <3>1, <4>1 DEF TypeOK, LinkTypes
      <4> QED BY <4>2, Zenon DEF ChainAt
    <3>4. \E i \in 1..(n - 1) : link[n - 1].data = Chain(i, n - 1)
      BY <3>1 DEF ChainAt
    <3>5. CASE forwardSync(n, link[n - 1].data, TRUE, 0, links)
      <4> HIDE DEF links
      <4> QED BY <3>1, <3>2, <3>3, <3>4, <3>5, ForwardSyncData, Zenon
    <3>6. CASE link' = links
      <4> HIDE DEF links
      <4> QED BY <3>3, <3>6, Zenon
    <3> QED BY <2>4, <3>5, <3>6 DEF Receive
  <2> QED BY <1>3, <2>1, <2>2, <2>3, <2>4 DEF NodeStep, Event
<1>4. CASE UNCHANGED vars
  BY <1>4, Zenon DEF vars
<1> QED BY <1>2, <1>3, <1>4 DEF Next

\* The readings of a message are those of neighbouring nodes up to its sender,
\* in their order and none twice, cut where there was no room: whoever fails,
\* times out or joins (sleep.cpp, forwardSync).
THEOREM DataIsAChain == Spec => []DataIsChain
<1>1. Init => DataIsChain
  <2>1. Init => \A m \in Nodes : ChainAt(link[m], m)
    BY DEF Init, ChainAt, Idle
  <2> QED BY <2>1, DataIs
<1>2. TypeOK /\ DataIsChain /\ [Next]_vars => DataIsChain'
  <2> SUFFICES ASSUME TypeOK, DataIsChain, [Next]_vars PROVE DataIsChain'
    OBVIOUS
  <2>1. \A m \in Nodes : ChainAt(link[m], m)
    BY DataIs
  <2>2. \A m \in Nodes : ChainAt(link'[m], m)
    BY <2>1, DataStep
  <2> QED BY <2>2, Zenon DEF DataIsChain, ChainAt, Chain
<1> QED BY TypeCorrect, <1>1, <1>2, PTL DEF Spec

---------------------------------------------------------------------------
(* The timing of the line, as long as no SYNC is lost. *)

\* The errors of two sleeps differ by less than Extra and a transmission.
ClocksAgree == \A d, e \in Drift : d - e < Extra + MaxSend

\* A cycle has room for the transmissions of the line and one more: goToSleep
\* never cuts a sleep at zero.
CycleIsLong == \A e \in Drift : N * MaxSend + MaxSend + Airtime + Extra <= Cycle + e

\* How long after the start of a cycle the SYNC reaches node n.
Lo(n) == Airtime * (n - 1)
Hi(n) == MaxSend * (n - 1)

\* When a node that received its SYNC wakes for the next one.
WakeAt == Cycle - Airtime - computeDeltaTime - Extra

\* The state of a node `t' units after its last reference: the SYNC it
\* received, or the one the initiator started.
Sleeps(n, t) ==
  /\ sleepState[n] = SLEEP /\ ~link[n].on /\ since[n] = 0
  /\ \E e \in Drift : t + timer[n] = (IF n = 1 THEN Cycle ELSE WakeAt) + e

Sends(n, t) ==
  sleepState[n] = PROPAGATE /\ isSync[n] /\ link[n].on /\ since[n] = t /\ link[n].age = t

Starts(n, t) ==
  /\ n = 1 /\ sleepState[n] = PROPAGATE /\ ~link[n].on /\ since[n] = 0
  /\ \E e \in Drift : t = Cycle + e

Waits(n, t) ==
  /\ n > 1 /\ sleepState[n] = WAIT_SYNC /\ ~link[n].on
  /\ \E e \in Drift : t = WakeAt + e + since[n]

Clock(n, t) ==
  /\ powered[n] /\ (isSync[n] => link[n].on)
  /\ Sleeps(n, t) \/ Sends(n, t) \/ Starts(n, t) \/ Waits(n, t)

\* A node that was not part of the line yet.
Away(n) == sleepState[n] = WAIT_FIRST_SYNC /\ ~link[n].on

\* Nodes 1 to p are part of the line.
Clocks(f, p) == \A n \in Nodes : IF n <= p THEN Clock(n, f[n]) ELSE Away(n)

\* The SYNC of this cycle reached nodes 1 to c: the others wait for it.
Behind(f, n) == Lo(n) <= f[1] - f[n] /\ f[1] - f[n] <= Hi(n)
Ahead(f, n) ==
  \E e \in Drift : Cycle + e - Hi(n) <= f[n] - f[1] /\ f[n] - f[1] <= Cycle + e - Lo(n)
Spread(f, p, c) ==
  \A n \in Nodes : n <= p => IF n <= c THEN Behind(f, n) ELSE Ahead(f, n)

\* The SYNC is on its way from node c, unless node c was the last one.
Message(l, n, p, c) ==
  /\ n < c /\ l.on => l.arrived
  /\ n = c /\ c < p => l.on /\ ~l.arrived
  /\ l.on => l.data = Chain(1, n)
Messages(p, c) == \A n \in Nodes : Message(link[n], n, p, c)

Line(f, p, c) == Clocks(f, p) /\ Spread(f, p, c) /\ Messages(p, c)

\* No SYNC was ever sent: the initiator has no power, or is about to start.
Boot ==
  /\ \A n \in Nodes \ {1} : Away(n)
  /\ ~link[1].on /\ ~isSync[1] /\ since[1] = 0
  /\ sleepState[1] = IF powered[1] THEN PROPAGATE ELSE WAIT_FIRST_SYNC

InTime == \E f \in [Nodes -> Int], p \in Nodes : \E c \in 1..p : Line(f, p, c)

\* The tolerance is in RTC memory as long as there is power.
HasDelta == \A n \in Nodes : n > 1 /\ powered[n] => deltaTime[n] = computeDeltaTime

TimeInv == HasDelta /\ (~lost => Boot \/ InTime)

LEMMA ProductType == \A a, b \in Nat : a * b \in Nat
OBVIOUS

LEMMA Spans ==
  /\ 1 \in Nodes /\ N \in Nodes /\ Lo(1) = 0 /\ Hi(1) = 0
  /\ \A n \in Nodes : /\ n \in Int /\ 1 <= n /\ n <= N
                      /\ Lo(n) \in Nat /\ Hi(n) \in Nat
                      /\ Hi(n) + MaxSend <= computeDeltaTime
  /\ \A m, n \in Nodes : m < n => /\ Hi(m) + MaxSend <= Hi(n)
                                  /\ Lo(m) + Airtime <= Lo(n)
  /\ \A n \in Nodes : n > 1 => /\ n - 1 \in Nodes
                               /\ Hi(n) = Hi(n - 1) + MaxSend
                               /\ Lo(n) = Lo(n - 1) + Airtime
<1>1. 1 \in Nodes /\ N \in Nodes /\ Lo(1) = 0 /\ Hi(1) = 0
  BY Numbers DEF Nodes, Lo, Hi
<1>2. \A n \in Nodes : n \in Int /\ 1 <= n /\ n <= N /\ n - 1 \in Nat /\ N - n \in Nat
  BY Numbers DEF Nodes
<1>3. \A n \in Nodes : Lo(n) \in Nat /\ Hi(n) \in Nat
  BY <1>2, Numbers, ProductType DEF Lo, Hi
<1>4. \A m, n \in Nodes : m < n => /\ Hi(m) + MaxSend <= Hi(n)
                                   /\ Lo(m) + Airtime <= Lo(n)
  <2> SUFFICES ASSUME NEW m \in Nodes, NEW n \in Nodes, m < n
               PROVE  Hi(m) + MaxSend <= Hi(n) /\ Lo(m) + Airtime <= Lo(n)
    OBVIOUS
  <2>1. n - m - 1 \in Nat /\ m \in Int /\ n \in Int
    BY <1>2
  <2>2. MaxSend * (n - m - 1) \in Nat /\ Airtime * (n - m - 1) \in Nat
    BY <2>1, Numbers, ProductType
  <2>3. /\ MaxSend * (n - 1) = MaxSend * (m - 1) + MaxSend + MaxSend * (n - m - 1)
        /\ Airtime * (n - 1) = Airtime * (m - 1) + Airtime + Airtime * (n - m - 1)
    BY <2>1, Numbers
  <2>4. MaxSend * (m - 1) \in Int /\ Airtime * (m - 1) \in Int
    BY <2>1, Numbers
  <2> QED BY <2>2, <2>3, <2>4, Numbers DEF Lo, Hi
<1>5. \A n \in Nodes : Hi(n) + MaxSend <= computeDeltaTime
  <2> SUFFICES ASSUME NEW n \in Nodes PROVE Hi(n) + MaxSend <= computeDeltaTime
    OBVIOUS
  <2>1. MaxSend * (N - n) \in Nat /\ n \in Int
    BY <1>2, Numbers, ProductType
  <2>2. N * MaxSend = MaxSend * (n - 1) + MaxSend + MaxSend * (N - n)
    BY <2>1, Numbers
  <2> QED BY <1>3, <2>1, <2>2, Numbers DEF Hi, computeDeltaTime
<1>6. \A n \in Nodes : n > 1 => /\ n - 1 \in Nodes
                                /\ Hi(n) = Hi(n - 1) + MaxSend
                                /\ Lo(n) = Lo(n - 1) + Airtime
  BY Numbers DEF Nodes, Lo, Hi
<1> QED BY <1>1, <1>2, <1>3, <1>4, <1>5, <1>6

\* What the line says of a node that sends.
LEMMA WhoSends ==
  ASSUME TypeOK, CycleIsLong, NEW f \in [Nodes -> Int], NEW p \in Nodes, NEW c \in 1..p,
         Line(f, p, c), NEW n \in Nodes, link[n].on
  PROVE  /\ n <= c /\ powered[n] /\ Sends(n, f[n])
         /\ f[n] \in 0..MaxSend
         /\ ~link[n].arrived => n = c
<1>1. c \in Nodes /\ c <= p /\ 1 <= c
  BY Spans, Numbers DEF Nodes
<1>2. n <= p
  BY DEF Line, Clocks, Away
<1>3. Clock(n, f[n])
  BY <1>2 DEF Line, Clocks
<1>4. powered[n] /\ Sends(n, f[n])
  BY <1>3 DEF Clock, Sleeps, Starts, Waits
<1>5. link[n].age \in 0..MaxSend
  BY DEF TypeOK, LinkTypes
<1>6. f[n] \in 0..MaxSend
  BY <1>4, <1>5 DEF Sends
<1>7. ASSUME c < n PROVE FALSE
  <2>1. c < p /\ link[c].on
    BY <1>1, <1>2, <1>7, Spans DEF Line, Messages, Message
  <2>2. Clock(c, f[c]) /\ Behind(f, c) /\ Ahead(f, n)
    BY <1>1, <1>2, <1>7, Spans DEF Line, Clocks, Spread
  <2>3. link[c].age \in 0..MaxSend /\ f[c] = link[c].age
    <3>1. Sends(c, f[c])
      BY <2>1, <2>2 DEF Clock, Sleeps, Starts, Waits
    <3> QED BY <1>1, <3>1 DEF Sends, TypeOK, LinkTypes
  <2>4. f[1] >= 0 /\ f[1] \in Int
    BY <1>1, <2>2, <2>3, Spans DEF Behind
  <2>5. PICK e \in Drift : Cycle + e - Hi(n) <= f[n] - f[1]
    BY <2>2 DEF Ahead
  <2>6. /\ e \in Int /\ computeDeltaTime + MaxSend + Airtime + Extra <= Cycle + e
        /\ Hi(n) \in Nat /\ Hi(n) + MaxSend <= computeDeltaTime
    BY Numbers, Spans DEF CycleIsLong, computeDeltaTime
  <2> QED BY <1>6, <2>4, <2>5, <2>6, Numbers
<1>8. n <= c
  BY <1>1, <1>7, Spans
<1>9. ~link[n].arrived => n = c
  BY <1>1, <1>8, Spans DEF Line, Messages, Message
<1> QED BY <1>4, <1>6, <1>8, <1>9

\* As long as the SYNC of this cycle is on its way, the node that sends it is
\* the last it reached, and every other one is awake and has been long enough.
LEMMA WhoWaits ==
  ASSUME TypeOK, ClocksAgree, CycleIsLong,
         NEW f \in [Nodes -> Int], NEW p \in Nodes, NEW c \in 1..p, Line(f, p, c),
         NEW n \in Nodes, c < n, n <= p
  PROVE  powered[n] /\ Waits(n, f[n]) /\ since[n] >= Airtime
<1>1. c \in Nodes /\ c <= p /\ 1 <= c /\ c < p /\ 1 < n
  BY Spans, Numbers DEF Nodes
<1>2. link[c].on
  BY <1>1 DEF Line, Messages, Message
<1>3. f[c] >= 0 /\ Behind(f, c) /\ Ahead(f, n) /\ Clock(n, f[n])
  <2>1. f[c] \in 0..MaxSend
    BY <1>1, <1>2, WhoSends
  <2>2. Behind(f, c) /\ Ahead(f, n) /\ Clock(n, f[n])
    BY <1>1, Spans DEF Line, Clocks, Spread
  <2> QED BY <2>1, <2>2
<1>4. f[1] >= 0 /\ f[1] \in Int /\ f[n] \in Int
  BY <1>1, <1>3, Spans DEF Behind
<1>5. PICK e \in Drift : Cycle + e - Hi(n) <= f[n] - f[1]
  BY <1>3 DEF Ahead
<1>6. /\ e \in Int /\ computeDeltaTime + MaxSend + Airtime + Extra <= Cycle + e
      /\ Hi(n) \in Nat /\ Hi(n) + MaxSend <= computeDeltaTime
  BY Numbers, Spans DEF CycleIsLong, computeDeltaTime
<1>7. ASSUME NEW d \in Drift PROVE f[n] >= WakeAt + d + Airtime
  <2>1. d \in Int /\ d - e < Extra + MaxSend
    BY Numbers DEF ClocksAgree
  <2> QED BY <1>4, <1>5, <1>6, <2>1, Numbers DEF WakeAt
<1>8. ~link[n].on
  BY <1>1, Spans, WhoSends
<1>9. ~Sleeps(n, f[n])
  <2> SUFFICES ASSUME Sleeps(n, f[n]) PROVE FALSE
    OBVIOUS
  <2>1. PICK d \in Drift : f[n] + timer[n] = WakeAt + d
    BY <1>1 DEF Sleeps
  <2>2. timer[n] \in Nat /\ f[n] >= WakeAt + d + Airtime /\ d \in Int /\ WakeAt \in Int
    BY <1>7, Numbers DEF TypeOK, WakeAt
  <2> QED BY <1>4, <2>1, <2>2, Numbers
<1>10. powered[n] /\ Waits(n, f[n])
  BY <1>1, <1>3, <1>8, <1>9 DEF Clock, Sends, Starts
<1>11. PICK d \in Drift : f[n] = WakeAt + d + since[n]
  BY <1>10 DEF Waits
<1>12. since[n] \in Int /\ d \in Int /\ WakeAt \in Int
  BY Numbers DEF TypeOK, WakeAt
<1>13. since[n] >= Airtime
  BY <1>4, <1>7, <1>11, <1>12, Numbers
<1> QED BY <1>10, <1>13

\* How far the reference of the initiator may be: the SYNC started a cycle
\* ago at most.
LEMMA InitiatorIsNear ==
  ASSUME TypeOK, CycleIsLong, NEW f \in [Nodes -> Int], NEW p \in Nodes, NEW c \in 1..p,
         Line(f, p, c)
  PROVE  \E e \in Drift : f[1] <= Cycle + e
<1>1. Clock(1, f[1]) /\ f[1] \in Int
  BY Spans DEF Line, Clocks
<1>2. CASE Sleeps(1, f[1])
  <2>1. PICK e \in Drift : f[1] + timer[1] = Cycle + e
    BY <1>2 DEF Sleeps
  <2>2. timer[1] \in Nat /\ e \in Int
    BY Spans, Numbers DEF TypeOK
  <2> QED BY <1>1, <2>1, <2>2, Numbers
<1>3. CASE Sends(1, f[1])
  <2>1. f[1] \in 0..MaxSend
    BY <1>3, Spans DEF Sends, TypeOK, LinkTypes
  <2>2. 0 \in Drift /\ computeDeltaTime + MaxSend + Airtime + Extra <= Cycle + 0
    BY Numbers DEF CycleIsLong, computeDeltaTime
  <2> QED BY <2>1, <2>2, Numbers
<1>4. CASE Starts(1, f[1])
  <2>1. PICK e \in Drift : f[1] = Cycle + e
    BY <1>4 DEF Starts
  <2>2. f[1] <= Cycle + e
    BY <1>1, <2>1
  <2> QED BY <2>2
<1>5. ~Waits(1, f[1])
  BY DEF Waits
<1> QED BY <1>1, <1>2, <1>3, <1>4, <1>5 DEF Clock

\* Nobody waits until its timeout.
LEMMA NoTimeout ==
  ASSUME TypeOK, ClocksAgree, CycleIsLong, HasDelta,
         NEW f \in [Nodes -> Int], NEW p \in Nodes, NEW c \in 1..p, Line(f, p, c),
         NEW n \in Nodes
  PROVE  ~TimedOut(n)
<1> SUFFICES ASSUME TimedOut(n) PROVE FALSE
  OBVIOUS
<1>1. c \in Nodes /\ c <= p /\ 1 <= c
  BY Spans, Numbers DEF Nodes
<1>2. n <= p /\ Clock(n, f[n])
  BY DEF TimedOut, Line, Clocks, Away, WAIT_SYNC, WAIT_FIRST_SYNC
<1>3. Waits(n, f[n])
  BY <1>2 DEF TimedOut, Clock, Sleeps, Sends, Starts, WAIT_SYNC, SLEEP, PROPAGATE
<1>4. PICK d \in Drift : f[n] = WakeAt + d + since[n]
  BY <1>3 DEF Waits
<1>5. since[n] >= 2 * computeDeltaTime + 2 * Extra
  BY <1>3 DEF TimedOut, SyncTimeout, HasDelta, Waits
<1>6. /\ since[n] \in Int /\ f[n] \in Int /\ f[1] \in Int /\ d \in Int /\ n > 1
      /\ Lo(n) \in Nat /\ Airtime <= Lo(n)
      /\ Hi(n) \in Nat /\ Hi(n) + MaxSend <= computeDeltaTime
  BY <1>3, Spans, Numbers DEF TypeOK, Waits
<1>7. PICK e \in Drift : f[n] <= Cycle + e - Lo(n) + Hi(n)
  <2>1. CASE n <= c
    <3>1. Behind(f, n)
      BY <1>2, <2>1 DEF Line, Spread
    <3>2. PICK e \in Drift : f[1] <= Cycle + e
      BY InitiatorIsNear
    <3>3. e \in Int
      BY Numbers
    <3>4. f[n] <= Cycle + e - Lo(n) + Hi(n)
      BY <1>6, <3>1, <3>2, <3>3, Numbers DEF Behind
    <3> QED BY <3>4
  <2>2. CASE c < n
    <3>1. Ahead(f, n) /\ Behind(f, c) /\ link[c].on
      BY <1>1, <1>2, <2>2, Spans DEF Line, Spread, Messages, Message
    <3>2. f[c] \in 0..MaxSend
      BY <1>1, <3>1, WhoSends
    <3>3. Hi(c) + MaxSend <= Hi(n) /\ Hi(c) \in Nat
      BY <1>1, <2>2, Spans
    <3>4. f[1] <= Hi(n)
      BY <1>6, <3>1, <3>2, <3>3, Numbers DEF Behind
    <3>5. PICK e \in Drift : f[n] - f[1] <= Cycle + e - Lo(n)
      BY <3>1 DEF Ahead
    <3>6. e \in Int
      BY Numbers
    <3>7. f[n] <= Cycle + e - Lo(n) + Hi(n)
      BY <1>6, <3>4, <3>5, <3>6, Numbers
    <3> QED BY <3>7
  <2> QED BY <1>1, <1>6, <2>1, <2>2, Spans
<1>8. e \in Int /\ e - d < Extra + MaxSend
  BY Numbers DEF ClocksAgree
<1> QED BY <1>4, <1>5, <1>6, <1>7, <1>8, Numbers DEF WakeAt

\* The initiator starts a cycle when the SYNC of the last one has reached
\* the whole line.
LEMMA StartsWhenDone ==
  ASSUME TypeOK, CycleIsLong, NEW f \in [Nodes -> Int], NEW p \in Nodes, NEW c \in 1..p,
         Line(f, p, c), Scheduled(1)
  PROVE  c = p /\ Starts(1, f[1])
<1>1. c \in Nodes /\ c <= p /\ 1 <= c /\ c \in Int /\ p \in Int
  BY Spans, Numbers DEF Nodes
<1>2. Starts(1, f[1])
  BY Spans DEF Line, Clocks, Clock, Scheduled, Sleeps, Sends, Waits, PROPAGATE, SLEEP
<1>3. ASSUME c < p PROVE FALSE
  <2>1. link[c].on /\ Behind(f, c)
    BY <1>1, <1>3 DEF Line, Messages, Message, Spread
  <2>2. f[c] \in 0..MaxSend
    BY <1>1, <2>1, WhoSends
  <2>3. PICK e \in Drift : f[1] = Cycle + e
    BY <1>2 DEF Starts
  <2>4. /\ computeDeltaTime + MaxSend + Airtime + Extra <= Cycle + e /\ e \in Int
        /\ Hi(c) + MaxSend <= computeDeltaTime /\ Hi(c) \in Nat
    BY <1>1, Numbers, Spans DEF CycleIsLong, computeDeltaTime
  <2> QED BY <2>1, <2>2, <2>3, <2>4, Numbers DEF Behind
<1> QED BY <1>1, <1>2, <1>3

\* A step that leaves a node alone.
Same(n) ==
  /\ powered'[n] = powered[n] /\ sleepState'[n] = sleepState[n] /\ isSync'[n] = isSync[n]
  /\ since'[n] = since[n] /\ timer'[n] = timer[n]
  /\ link'[n].on = link[n].on /\ link'[n].age = link[n].age

LEMMA SameClock ==
  ASSUME NEW n, NEW t, Same(n)
  PROVE  (Clock(n, t) => Clock(n, t)') /\ (Away(n) => Away(n)')
BY DEF Same, Clock, Sleeps, Sends, Starts, Waits, Away

LEMMA SpreadIsConstant ==
  ASSUME NEW f, NEW p, NEW c, Spread(f, p, c)
  PROVE  Spread(f, p, c)'
BY DEF Spread, Behind, Ahead, Lo, Hi

LEMMA MessagesKept ==
  ASSUME NEW p, NEW c, Messages(p, c), link' = link
  PROVE  Messages(p, c)'
BY DEF Messages, Message, Chain, UpTo

LEMMA LineWake ==
  ASSUME TypeOK, NEW f \in [Nodes -> Int], NEW p \in Nodes, NEW c \in 1..p,
         Line(f, p, c), NEW n \in Nodes, Wake(n)
  PROVE  Line(f, p, c)'
<1>1. n <= p /\ Clock(n, f[n])
  BY DEF Wake, Line, Clocks, Away, SLEEP, WAIT_FIRST_SYNC
<1>2. Sleeps(n, f[n])
  BY <1>1 DEF Wake, Clock, Sends, Starts, Waits, SLEEP, PROPAGATE, WAIT_SYNC
<1>3. f[n] \in Int /\ timer[n] = 0 /\ since'[n] = 0 /\ WakeAt \in Int
  BY <1>2, Numbers DEF Sleeps, Wake, WakeAt
<1>4. PICK e \in Drift : f[n] = (IF n = 1 THEN Cycle ELSE WakeAt) + e
  BY <1>2, <1>3 DEF Sleeps
<1>5. sleepState'[n] = IF n = 1 THEN PROPAGATE ELSE WAIT_SYNC
  BY DEF Wake, Initiator, TypeOK
<1>6. Clock(n, f[n])'
  <2>1. powered'[n] /\ isSync'[n] = isSync[n] /\ ~link'[n].on /\ (isSync[n] => link[n].on)
    BY <1>1, <1>2 DEF Wake, Clock, Sleeps
  <2>2. CASE n = 1
    <3>1. Starts(n, f[n])'
      BY <1>3, <1>4, <1>5, <2>1, <2>2 DEF Starts
    <3> QED BY <1>2, <2>1, <3>1 DEF Clock, Sleeps
  <2>3. CASE n # 1
    <3>1. f[n] = WakeAt + e + 0 /\ n > 1
      BY <1>3, <1>4, <2>3, Spans, Numbers
    <3>2. Waits(n, f[n])'
      BY <1>3, <1>5, <2>1, <2>3, <3>1 DEF Waits, WakeAt, computeDeltaTime
    <3> QED BY <1>2, <2>1, <3>2 DEF Clock, Sleeps
  <2> QED BY <2>2, <2>3
<1>7. \A m \in Nodes : m # n => Same(m)
  BY DEF Wake, Same, TypeOK
<1>8. Clocks(f, p)'
  <2> SUFFICES ASSUME NEW m \in Nodes
               PROVE  IF m <= p THEN Clock(m, f[m])' ELSE Away(m)'
    BY DEF Clocks
  <2>1. CASE m = n
    BY <1>1, <1>6, <2>1
  <2>2. CASE m # n
    BY <1>7, <2>2, SameClock DEF Line, Clocks
  <2> QED BY <2>1, <2>2
<1>9. Spread(f, p, c)'
  BY SpreadIsConstant DEF Line
<1>10. Messages(p, c)'
  BY MessagesKept DEF Line, Wake
<1> QED BY <1>8, <1>9, <1>10 DEF Line

LEMMA LinePowerOn ==
  ASSUME TypeOK, NEW f \in [Nodes -> Int], NEW p \in Nodes, NEW c \in 1..p,
         Line(f, p, c), NEW n \in Nodes, PowerOn(n)
  PROVE  Line(f, p, c)'
<1>1. ~(n <= p) /\ Away(n)
  BY DEF PowerOn, Line, Clocks, Clock
<1>2. ~Initiator(n)
  BY <1>1, Spans DEF Initiator
<1>3. Away(n)'
  BY <1>1, <1>2 DEF PowerOn, Away
<1>4. \A m \in Nodes : m # n => Same(m)
  BY <1>2 DEF PowerOn, Same, TypeOK
<1>5. Clocks(f, p)'
  <2> SUFFICES ASSUME NEW m \in Nodes
               PROVE  IF m <= p THEN Clock(m, f[m])' ELSE Away(m)'
    BY DEF Clocks
  <2>1. CASE m = n
    BY <1>1, <1>3, <2>1
  <2>2. CASE m # n
    BY <1>4, <2>2, SameClock DEF Line, Clocks
  <2> QED BY <2>1, <2>2
<1>6. Spread(f, p, c)'
  BY SpreadIsConstant DEF Line
<1>7. Messages(p, c)'
  BY MessagesKept DEF Line, PowerOn
<1> QED BY <1>5, <1>6, <1>7 DEF Line

\* The sleep that goToSleep asks for ends before the next SYNC is due, and is
\* not cut at zero.
LEMMA LineDone ==
  ASSUME TypeOK, ClocksAgree, CycleIsLong, HasDelta,
         NEW f \in [Nodes -> Int], NEW p \in Nodes, NEW c \in 1..p, Line(f, p, c),
         NEW n \in Nodes, Done(n), ~lost'
  PROVE  Line(f, p, c)'
<1>1. /\ n <= c /\ powered[n] /\ Sends(n, f[n]) /\ f[n] \in 0..MaxSend
      /\ c \in Nodes /\ 1 <= c /\ c <= p /\ n <= p
  <2>1. link[n].on
    BY DEF Done
  <2>2. c \in Nodes /\ 1 <= c /\ c <= p
    BY Spans, Numbers DEF Nodes
  <2>3. /\ n <= c /\ powered[n] /\ Sends(n, f[n]) /\ f[n] \in 0..MaxSend
    BY <2>1, WhoSends
  <2> QED BY <2>2, <2>3, Spans
<1>2. ASSUME c < p PROVE n # c
  <2> SUFFICES ASSUME n = c PROVE FALSE
    OBVIOUS
  <2>1. link[n].on /\ ~link[n].arrived
    BY <1>1, <1>2 DEF Line, Messages, Message
  <2>2. n + 1 \in Nodes /\ c < n + 1 /\ n + 1 <= p /\ n # N
    BY <1>1, <1>2, Spans, Numbers DEF Nodes
  <2>3. powered[n + 1] /\ Waits(n + 1, f[n + 1]) /\ since[n + 1] >= Airtime
    BY <2>2, WhoWaits
  <2>4. Hears(n + 1)
    BY <2>3 DEF Hears, Awake, Waits, WAIT_SYNC, SLEEP
  <2> QED BY <2>1, <2>2, <2>4 DEF Done
<1>3. isSync[n] /\ since[n] = f[n]
  BY <1>1 DEF Sends
<1>4. PICK e \in Drift :
        timer' = [timer EXCEPT ![n] = Max({SleepTime(n, isSync[n], since[n]) + e, 0})]
  BY DEF Done, goToSleep
<1>5. SleepTime(n, isSync[n], since[n]) = (IF n = 1 THEN Cycle ELSE WakeAt) - f[n]
  <2>1. CASE n = 1
    BY <1>3, <2>1 DEF SleepTime, Initiator
  <2>2. CASE n # 1
    <3>1. deltaTime[n] = computeDeltaTime /\ f[n] \in Int
      BY <1>1, <2>2, Spans DEF HasDelta
    <3> QED BY <1>3, <2>2, <3>1, Numbers DEF SleepTime, Initiator, WakeAt
  <2> QED BY <2>1, <2>2
<1>6. timer'[n] = (IF n = 1 THEN Cycle ELSE WakeAt) - f[n] + e
  <2>1. /\ e \in Int /\ f[n] \in 0..MaxSend /\ WakeAt \in Int
        /\ computeDeltaTime + MaxSend + Airtime + Extra <= Cycle + e
    BY <1>1, Numbers DEF CycleIsLong, computeDeltaTime, WakeAt
  <2>2. (IF n = 1 THEN Cycle ELSE WakeAt) - f[n] + e >= 0
    BY <2>1, Numbers DEF WakeAt
  <2>3. timer'[n] = Max({(IF n = 1 THEN Cycle ELSE WakeAt) - f[n] + e, 0})
    BY <1>4, <1>5 DEF TypeOK
  <2> QED BY <2>1, <2>2, <2>3, Numbers, MaxOfTwo
<1>7. Clock(n, f[n])'
  <2>1. sleepState'[n] = SLEEP /\ ~isSync'[n] /\ since'[n] = 0 /\ powered'[n]
    BY <1>1 DEF Done, goToSleep, TypeOK
  <2>2. ~link'[n].on
    BY DEF Done, Idle, TypeOK
  <2>3. f[n] + timer'[n] = (IF n = 1 THEN Cycle ELSE WakeAt) + e
    BY <1>1, <1>6, Numbers DEF WakeAt
  <2>4. Sleeps(n, f[n])'
    BY <2>1, <2>2, <2>3 DEF Sleeps, WakeAt, computeDeltaTime
  <2> QED BY <2>1, <2>4 DEF Clock
<1>8. \A m \in Nodes : m # n => Same(m) /\ link'[m] = link[m]
  BY DEF Done, goToSleep, Same, TypeOK
<1>9. Clocks(f, p)'
  <2> SUFFICES ASSUME NEW m \in Nodes
               PROVE  IF m <= p THEN Clock(m, f[m])' ELSE Away(m)'
    BY DEF Clocks
  <2>1. CASE m = n
    BY <1>1, <1>7, <2>1
  <2>2. CASE m # n
    BY <1>8, <2>2, SameClock DEF Line, Clocks
  <2> QED BY <2>1, <2>2
<1>10. Spread(f, p, c)'
  BY SpreadIsConstant DEF Line
<1>11. Messages(p, c)'
  <2> SUFFICES ASSUME NEW m \in Nodes PROVE Message(link[m], m, p, c)'
    BY DEF Messages
  <2>1. CASE m = n
    <3>1. ~link'[m].on
      BY <2>1 DEF Done, Idle, TypeOK
    <3> QED BY <1>2, <2>1, <3>1 DEF Message
  <2>2. CASE m # n
    <3>1. link'[m] = link[m] /\ Message(link[m], m, p, c)
      BY <1>8, <2>2 DEF Line, Messages
    <3> QED BY <3>1 DEF Message, Chain, UpTo
  <2> QED BY <2>1, <2>2
<1> QED BY <1>9, <1>10, <1>11 DEF Line

\* A cycle starts: every other node is as far ahead as it was behind.
LEMMA LineInitiate ==
  ASSUME TypeOK, CycleIsLong,
         NEW f \in [Nodes -> Int], NEW p \in Nodes, NEW c \in 1..p, Line(f, p, c),
         NEW n \in Nodes, Initiate(n), ~lost'
  PROVE  \E g \in [Nodes -> Int] : Line(g, p, 1)'
<1> DEFINE g == [f EXCEPT ![1] = 0]
<1>1. n = 1 /\ Scheduled(1) /\ forwardSync(1, <<>>, TRUE, since[1], link)
  BY DEF Initiate, Scheduled, Initiator
<1>2. c = p /\ Starts(1, f[1])
  BY <1>1, StartsWhenDone
<1>3. since[1] = 0
  BY <1>2 DEF Starts
<1>4. /\ link' = [link EXCEPT ![1] = Sending(WithReading(1, <<>>))]
      /\ sleepState' = [sleepState EXCEPT ![1] = PROPAGATE]
      /\ isSync' = [isSync EXCEPT ![1] = TRUE]
      /\ since' = [since EXCEPT ![1] = 0]
      /\ timer' = timer /\ powered' = powered
  BY <1>1, <1>3 DEF forwardSync, Initiate
<1>5. /\ link'[1].on /\ ~link'[1].arrived /\ link'[1].age = 0
      /\ link'[1].data = Chain(1, 1)
  <2>1. link'[1] = Sending(WithReading(1, <<>>))
    BY <1>4, Spans DEF TypeOK
  <2>2. WithReading(1, <<>>) \in Seq(Nodes)
    BY Spans, EmptySeq, WithReadingType
  <2> QED BY <2>1, <2>2, SendingFields, ChainStarts, Spans
<1>6. g \in [Nodes -> Int] /\ g[1] = 0 /\ \A m \in Nodes : m # 1 => g[m] = f[m]
  BY Spans
<1> HIDE DEF g
<1>7. Clock(1, g[1])'
  <2>1. powered'[1] /\ sleepState'[1] = PROPAGATE /\ isSync'[1] /\ since'[1] = 0
    BY <1>1, <1>4, Spans DEF Scheduled, TypeOK
  <2>2. Sends(1, g[1])'
    BY <1>5, <1>6, <2>1 DEF Sends
  <2> QED BY <1>5, <2>1, <2>2 DEF Clock
<1>8. \A m \in Nodes : m # 1 => Same(m) /\ link'[m] = link[m]
  BY <1>4 DEF Same, TypeOK
<1>9. Clocks(g, p)'
  <2> SUFFICES ASSUME NEW m \in Nodes
               PROVE  IF m <= p THEN Clock(m, g[m])' ELSE Away(m)'
    BY DEF Clocks
  <2>1. CASE m = 1
    BY <1>7, <2>1, Spans
  <2>2. CASE m # 1
    <3>1. IF m <= p THEN Clock(m, f[m])' ELSE Away(m)'
      BY <1>8, <2>2, SameClock DEF Line, Clocks
    <3>2. g[m] = f[m]
      BY <1>6, <2>2
    <3> QED BY <3>1, <3>2
  <2> QED BY <2>1, <2>2
<1>10. Spread(g, p, 1)
  <2> SUFFICES ASSUME NEW m \in Nodes, m <= p
               PROVE  IF m <= 1 THEN Behind(g, m) ELSE Ahead(g, m)
    BY DEF Spread
  <2>1. CASE m = 1
    BY <1>6, <2>1, Spans DEF Behind
  <2>2. CASE m # 1
    <3>1. Behind(f, m) /\ m > 1
      BY <1>2, <2>2, Spans DEF Line, Spread
    <3>2. PICK e \in Drift : f[1] = Cycle + e
      BY <1>2 DEF Starts
    <3>3. /\ e \in Int /\ f[m] \in Int /\ f[1] \in Int
          /\ Lo(m) \in Int /\ Hi(m) \in Int /\ g[m] = f[m]
      BY <1>6, <2>2, Numbers, Spans
    <3>4. Cycle + e - Hi(m) <= g[m] - g[1] /\ g[m] - g[1] <= Cycle + e - Lo(m)
      BY <1>6, <3>1, <3>2, <3>3, Numbers DEF Behind
    <3>5. Ahead(g, m)
      BY <3>4 DEF Ahead
    <3> QED BY <3>1, <3>5, Spans
  <2> QED BY <2>1, <2>2
<1>11. Messages(p, 1)'
  <2> SUFFICES ASSUME NEW m \in Nodes PROVE Message(link[m], m, p, 1)'
    BY DEF Messages
  <2>1. CASE m = 1
    <3>1. ~(m < 1) /\ link'[m].data = Chain(1, m)
      BY <1>5, <2>1, Spans
    <3>2. link'[m].on /\ ~link'[m].arrived
      BY <1>5, <2>1
    <3> QED BY <3>1, <3>2 DEF Message, Chain, UpTo
  <2>2. CASE m # 1
    <3>1. link'[m] = link[m] /\ Message(link[m], m, p, c) /\ m > 1 /\ ~(m < 1)
      BY <1>8, <2>2, Spans DEF Line, Messages
    <3> QED BY <2>2, <3>1 DEF Message, Chain, UpTo
  <2> QED BY <2>1, <2>2
<1>12. Line(g, p, 1)'
  BY <1>9, <1>10, <1>11, SpreadIsConstant DEF Line
<1> QED BY <1>6, <1>12

\* The SYNC reaches one node more, which waits for it or joins the line.
LEMMA LineReceive ==
  ASSUME TypeOK, ClocksAgree, CycleIsLong,
         NEW f \in [Nodes -> Int], NEW p \in Nodes, NEW c \in 1..p, Line(f, p, c),
         NEW n \in Nodes, Receive(n), ~lost'
  PROVE  \E g \in [Nodes -> Int], q \in Nodes : n <= q /\ Line(g, q, n)'
<1> DEFINE g == [f EXCEPT ![n] = 0]
           q == IF n <= p THEN p ELSE n
           links == [link EXCEPT ![n - 1].arrived = TRUE]
<1>1. /\ c \in Nodes /\ 1 <= c /\ c <= p /\ n > 1 /\ n - 1 \in Nodes
      /\ n \in Int /\ c \in Int /\ p \in Int
      /\ Hi(n) = Hi(n - 1) + MaxSend /\ Lo(n) = Lo(n - 1) + Airtime
  BY Spans, Numbers DEF Nodes, Receive
<1>2. /\ link[n - 1].on /\ ~link[n - 1].arrived /\ link[n - 1].age >= Airtime
      /\ powered[n]
  BY DEF Receive, Hears, Awake
<1>3. n - 1 = c /\ Sends(c, f[c]) /\ f[c] \in 0..MaxSend
  BY <1>1, <1>2, WhoSends
<1>4. f[c] >= Airtime
  BY <1>2, <1>3 DEF Sends
<1>5. n = c + 1 /\ c < n /\ (~(n <= p) => p = c)
  BY <1>1, <1>3
<1>6. TakesSync(n)
  <2>1. CASE n <= p
    BY <1>5, <2>1, WhoWaits DEF Waits, TakesSync
  <2>2. CASE ~(n <= p)
    BY <2>2 DEF Line, Clocks, Away, TakesSync
  <2> QED BY <2>1, <2>2
<1>7. forwardSync(n, link[c].data, TRUE, 0, links)
  BY <1>3, <1>6 DEF Receive
<1>8. /\ link' = [links EXCEPT ![n] = Sending(WithReading(n, link[c].data))]
      /\ sleepState' = [sleepState EXCEPT ![n] = PROPAGATE]
      /\ isSync' = [isSync EXCEPT ![n] = TRUE]
      /\ since' = [since EXCEPT ![n] = 0]
      /\ timer' = timer /\ powered' = powered
  <2> HIDE DEF links
  <2>1. powered' = powered
    BY DEF Receive
  <2> QED BY <1>7, <2>1 DEF forwardSync
<1>9. links \in [Nodes -> LinkTypes] /\ link[c] \in LinkTypes
  BY <1>1 DEF TypeOK, LinkTypes
<1>10. /\ links[c].on = link[c].on /\ links[c].age = link[c].age
       /\ links[c].data = link[c].data /\ links[c].arrived
       /\ \A m \in Nodes : m # c => links[m] = link[m]
  BY <1>1, <1>3, <1>9 DEF TypeOK, LinkTypes
<1> HIDE DEF links
<1>11. /\ link'[n] = Sending(WithReading(n, link[c].data))
       /\ \A m \in Nodes : m # n => link'[m] = links[m]
  BY <1>8, <1>9
<1>12. /\ link'[n].on /\ ~link'[n].arrived /\ link'[n].age = 0
       /\ link'[n].data = Chain(1, n)
  <2>1. link[c].data = Chain(1, n - 1) /\ link[c].data \in Seq(Nodes)
    BY <1>1, <1>2, <1>3, <1>9 DEF Line, Messages, Message, LinkTypes
  <2>2. WithReading(n, Chain(1, n - 1)) = Chain(1, n)
    <3>1. 1 \in 1..(n - 1)
      BY <1>1
    <3> QED BY <1>1, <3>1, ChainGrows
  <2>3. WithReading(n, link[c].data) \in Seq(Nodes)
    BY <2>1, WithReadingType
  <2>4. WithReading(n, link[c].data) = Chain(1, n)
    BY <2>1, <2>2
  <2> QED BY <1>11, <2>3, <2>4, SendingFields, Zenon
<1>13. /\ g \in [Nodes -> Int] /\ g[n] = 0 /\ \A m \in Nodes : m # n => g[m] = f[m]
       /\ q \in Nodes /\ n <= q /\ p <= q /\ \A m \in Nodes : m # n => (m <= q <=> m <= p)
  BY <1>1, <1>5, Spans
<1> HIDE DEF g, q
<1>14. Clock(n, g[n])'
  <2>1. powered'[n] /\ sleepState'[n] = PROPAGATE /\ isSync'[n] /\ since'[n] = 0
    BY <1>2, <1>8 DEF TypeOK
  <2>2. Sends(n, g[n])'
    BY <1>12, <1>13, <2>1 DEF Sends
  <2> QED BY <1>12, <2>1, <2>2 DEF Clock
<1>15. \A m \in Nodes : m # n => Same(m)
  <2> SUFFICES ASSUME NEW m \in Nodes, m # n PROVE Same(m)
    OBVIOUS
  <2>1. link'[m].on = link[m].on /\ link'[m].age = link[m].age
    BY <1>10, <1>11
  <2> QED BY <1>8, <2>1 DEF Same, TypeOK
<1>16. Clocks(g, q)'
  <2> SUFFICES ASSUME NEW m \in Nodes
               PROVE  IF m <= q THEN Clock(m, g[m])' ELSE Away(m)'
    BY DEF Clocks
  <2>1. CASE m = n
    BY <1>13, <1>14, <2>1
  <2>2. CASE m # n
    <3>1. IF m <= p THEN Clock(m, f[m])' ELSE Away(m)'
      BY <1>15, <2>2, SameClock DEF Line, Clocks
    <3>2. g[m] = f[m] /\ (m <= q <=> m <= p)
      BY <1>13, <2>2
    <3> QED BY <3>1, <3>2
  <2> QED BY <2>1, <2>2
<1>17. Spread(g, q, n)
  <2> SUFFICES ASSUME NEW m \in Nodes, m <= q
               PROVE  IF m <= n THEN Behind(g, m) ELSE Ahead(g, m)
    BY DEF Spread
  <2>1. g[1] = f[1]
    BY <1>1, <1>13, Spans
  <2>2. CASE m = n
    <3>1. Behind(f, c)
      BY <1>1 DEF Line, Spread
    <3>2. f[1] \in Int /\ f[c] \in Int /\ Lo(c) \in Int /\ Hi(c) \in Int
      BY <1>1, Spans
    <3>3. Lo(n) <= f[1] - 0 /\ f[1] - 0 <= Hi(n)
      BY <1>1, <1>3, <1>4, <3>1, <3>2, Numbers DEF Behind
    <3>4. Behind(g, m)
      BY <1>13, <2>1, <2>2, <3>3 DEF Behind
    <3> QED BY <1>1, <2>2, <3>4
  <2>3. CASE m # n
    <3>1. m <= p /\ g[m] = f[m] /\ (m <= n <=> m <= c)
      BY <1>1, <1>5, <1>13, <2>3, Spans
    <3>2. IF m <= c THEN Behind(f, m) ELSE Ahead(f, m)
      BY <3>1 DEF Line, Spread
    <3> QED BY <2>1, <3>1, <3>2 DEF Behind, Ahead
  <2> QED BY <2>2, <2>3
<1>18. Messages(q, n)'
  <2> SUFFICES ASSUME NEW m \in Nodes PROVE Message(link[m], m, q, n)'
    BY DEF Messages
  <2>1. CASE m = n
    <3>1. ~(m < n) /\ link'[m].data = Chain(1, m) /\ link'[m].on /\ ~link'[m].arrived
      BY <1>1, <1>12, <2>1
    <3> QED BY <3>1 DEF Message, Chain, UpTo
  <2>2. CASE m # n
    <3>1. Message(link[m], m, p, c) /\ m \in Int
      BY Spans DEF Line, Messages
    <3>2. link'[m].on = link[m].on /\ link'[m].data = link[m].data
      BY <1>10, <1>11, <2>2
    <3>3. m < n /\ link'[m].on => link'[m].arrived
      <4>1. CASE m = c
        BY <1>10, <1>11, <2>2, <4>1
      <4>2. CASE m # c
        BY <1>1, <1>5, <1>10, <1>11, <2>2, <3>1, <4>2 DEF Message
      <4> QED BY <4>1, <4>2
    <3>4. link'[m].on => link'[m].data = Chain(1, m)
      BY <3>1, <3>2 DEF Message
    <3> QED BY <2>2, <3>3, <3>4 DEF Message, Chain, UpTo
  <2> QED BY <2>1, <2>2
<1>19. Line(g, q, n)'
  BY <1>16, <1>17, <1>18, SpreadIsConstant DEF Line
<1> QED BY <1>13, <1>19

\* Time passes for the whole line alike.
LEMMA LineTick ==
  ASSUME TypeOK, CycleIsLong, HasDelta,
         NEW f \in [Nodes -> Int], NEW p \in Nodes, NEW c \in 1..p, Line(f, p, c), Tick
  PROVE  \E g \in [Nodes -> Int] : Line(g, p, c)'
<1> DEFINE g == [n \in Nodes |-> f[n] + 1]
<1>1. g \in [Nodes -> Int] /\ \A n \in Nodes : g[n] = f[n] + 1
  OBVIOUS
<1> HIDE DEF g
<1>2. /\ powered' = powered /\ sleepState' = sleepState /\ isSync' = isSync
      /\ \A n \in Nodes : ~Due(n)
  BY DEF Tick
<1>3. \A n \in Nodes :
        /\ timer'[n] = IF timer[n] > 0 THEN timer[n] - 1 ELSE 0
        /\ since'[n] = IF powered[n] /\ sleepState[n] \in {PROPAGATE, WAIT_SYNC}
                      THEN Min({since[n] + 1, MaxSince}) ELSE 0
  BY DEF Tick
<1>4. ASSUME NEW n \in Nodes
      PROVE  /\ link'[n].on = link[n].on
             /\ link[n].on => /\ link'[n].age = link[n].age + 1
                              /\ link'[n].arrived = link[n].arrived
                              /\ link'[n].data = link[n].data
  <2>1. link[n] \in LinkTypes
    BY DEF TypeOK
  <2>2. CASE link[n].on
    <3>1. link'[n] = [link[n] EXCEPT !.age = @ + 1]
      BY <2>2 DEF Tick
    <3> QED BY <2>1, <2>2, <3>1 DEF LinkTypes
  <2>3. CASE ~link[n].on
    <3>1. link'[n] = Idle
      BY <2>3 DEF Tick
    <3>2. link'[n].on = FALSE
      BY <3>1 DEF Idle
    <3>3. link[n].on = FALSE
      BY <2>1, <2>3 DEF LinkTypes
    <3> QED BY <2>3, <3>2, <3>3, Zenon
  <2> QED BY <2>2, <2>3
<1>5. computeDeltaTime + MaxSend + Airtime + Extra <= Cycle
  <2>1. computeDeltaTime + MaxSend + Airtime + Extra <= Cycle + 0
    BY Numbers DEF CycleIsLong, computeDeltaTime
  <2> QED BY <2>1, Numbers
<1>6. ASSUME NEW n \in Nodes, Clock(n, f[n]) PROVE Clock(n, g[n])'
  <2>1. /\ timer[n] \in Nat /\ since[n] \in Nat /\ f[n] \in Int /\ WakeAt \in Int
        /\ powered[n] /\ powered'[n] /\ sleepState'[n] = sleepState[n]
        /\ isSync'[n] = isSync[n] /\ (isSync[n] => link[n].on)
        /\ link'[n].on = link[n].on /\ g[n] = f[n] + 1
    BY <1>1, <1>2, <1>4, <1>6, Numbers DEF TypeOK, Clock, WakeAt
  <2>2. CASE Sleeps(n, f[n])
    <3>1. timer[n] > 0
      BY <1>2, <2>1, <2>2 DEF Due, Sleeps
    <3>2. PICK e \in Drift : f[n] + timer[n] = (IF n = 1 THEN Cycle ELSE WakeAt) + e
      BY <2>2 DEF Sleeps
    <3>3. g[n] + timer'[n] = (IF n = 1 THEN Cycle ELSE WakeAt) + e
      <4>1. timer'[n] = timer[n] - 1 /\ e \in Int
        BY <1>3, <3>1, Numbers
      <4> QED BY <2>1, <3>2, <4>1, Numbers
    <3>4. since'[n] = 0
      BY <1>3, <2>2 DEF Sleeps, SLEEP, PROPAGATE, WAIT_SYNC
    <3>5. Sleeps(n, g[n])'
      BY <2>1, <2>2, <3>3, <3>4 DEF Sleeps, WakeAt, computeDeltaTime
    <3> QED BY <2>1, <3>5 DEF Clock
  <2>3. CASE Sends(n, f[n])
    <3>1. link[n].age \in 0..MaxSend /\ link[n].age # MaxSend
      BY <1>2, <2>3 DEF Due, Sends, TypeOK, LinkTypes
    <3>2. since[n] + 1 <= MaxSince
      BY <1>5, <2>3, <3>1, Numbers DEF Sends, MaxSince
    <3>3. since'[n] = Min({since[n] + 1, MaxSince})
      BY <1>3, <2>1, <2>3 DEF Sends
    <3>4. since'[n] = since[n] + 1
      BY <2>1, <3>2, <3>3, MinOfTwo, Numbers
    <3>5. Sends(n, g[n])'
      BY <1>4, <2>1, <2>3, <3>4 DEF Sends
    <3> QED BY <2>1, <3>5 DEF Clock
  <2>4. CASE Starts(n, f[n])
    <3>1. Scheduled(n)
      BY <2>1, <2>4 DEF Starts, Scheduled, Initiator
    <3> QED BY <1>2, <3>1 DEF Due
  <2>5. CASE Waits(n, f[n])
    <3>1. ~TimedOut(n) /\ deltaTime[n] = computeDeltaTime
      BY <1>2, <2>1, <2>5 DEF Due, Waits, HasDelta
    <3>2. since[n] < 2 * computeDeltaTime + 2 * Extra
      BY <2>1, <2>5, <3>1, Numbers DEF TimedOut, SyncTimeout, Waits
    <3>3. since[n] + 1 <= MaxSince
      BY <1>5, <2>1, <3>2, Numbers DEF MaxSince
    <3>4. since'[n] = Min({since[n] + 1, MaxSince})
      BY <1>3, <2>1, <2>5 DEF Waits
    <3>5. since'[n] = since[n] + 1
      BY <2>1, <3>3, <3>4, MinOfTwo, Numbers
    <3>6. PICK e \in Drift : f[n] = WakeAt + e + since[n]
      BY <2>5 DEF Waits
    <3>7. e \in Int
      BY Numbers
    <3>8. g[n] = WakeAt + e + since'[n]
      BY <2>1, <3>5, <3>6, <3>7
    <3>9. Waits(n, g[n])'
      BY <2>1, <2>5, <3>8 DEF Waits, WakeAt, computeDeltaTime
    <3> QED BY <2>1, <3>9 DEF Clock
  <2> QED BY <1>6, <2>2, <2>3, <2>4, <2>5 DEF Clock
<1>7. Clocks(g, p)'
  <2> SUFFICES ASSUME NEW n \in Nodes
               PROVE  IF n <= p THEN Clock(n, g[n])' ELSE Away(n)'
    BY DEF Clocks
  <2>1. Away(n) => Away(n)'
    BY <1>2, <1>4 DEF Away
  <2> QED BY <1>6, <2>1 DEF Line, Clocks
<1>8. Spread(g, p, c)
  <2> SUFFICES ASSUME NEW n \in Nodes, n <= p
               PROVE  IF n <= c THEN Behind(g, n) ELSE Ahead(g, n)
    BY DEF Spread
  <2>1. g[1] - g[n] = f[1] - f[n] /\ g[n] - g[1] = f[n] - f[1]
    BY <1>1, Spans
  <2>2. IF n <= c THEN Behind(f, n) ELSE Ahead(f, n)
    BY DEF Line, Spread
  <2> QED BY <2>1, <2>2 DEF Behind, Ahead
<1>9. Messages(p, c)'
  <2> SUFFICES ASSUME NEW n \in Nodes PROVE Message(link[n], n, p, c)'
    BY DEF Messages
  <2>1. Message(link[n], n, p, c)
    BY DEF Line, Messages
  <2> QED BY <1>4, <2>1 DEF Message, Chain, UpTo
<1> QED BY <1>1, <1>7, <1>8, <1>9, SpreadIsConstant DEF Line

\* Nothing happened yet but power on: the first step of the initiator makes
\* it a line of one node.
LEMMA BootStep ==
  ASSUME TypeOK, Boot, Next, ~lost'
  PROVE  Boot' \/ InTime'
<1>1. \A n \in Nodes : ~link[n].on
  BY DEF Boot, Away
<1>2. CASE Tick
  <2>1. ASSUME NEW n \in Nodes PROVE ~link'[n].on
    <3>1. link'[n] = Idle
      BY <1>1, <1>2 DEF Tick
    <3> QED BY <3>1 DEF Idle
  <2>2. powered' = powered /\ sleepState' = sleepState /\ isSync' = isSync
    BY <1>2 DEF Tick
  <2>3. ~powered[1]
    BY <1>2, Spans DEF Tick, Due, Scheduled, Initiator, Boot
  <2>4. since'[1] = 0
    BY <1>2, <2>3, Spans DEF Tick
  <2>5. Boot'
    BY <2>1, <2>2, <2>4, Spans DEF Boot, Away
  <2> QED BY <2>5
<1>3. ASSUME NEW n \in Nodes, NodeStep(n) PROVE Boot' \/ InTime'
  <2>1. CASE PowerOn(n)
    <3>1. Boot'
      <4>1. isSync' = isSync /\ since' = since /\ link' = link /\ powered'[n]
            /\ \A m \in Nodes : m # n => powered'[m] = powered[m]
        BY <2>1 DEF PowerOn, TypeOK
      <4>2. /\ n = 1 => sleepState'[1] = PROPAGATE
            /\ n # 1 => sleepState'[1] = sleepState[1]
            /\ \A m \in Nodes \ {1} : sleepState'[m] = sleepState[m]
        BY <2>1, Spans DEF PowerOn, Initiator, TypeOK
      <4> QED BY <4>1, <4>2, Spans DEF Boot, Away
    <3> QED BY <3>1
  <2>2. ~Wake(n)
    BY DEF Wake, Boot, Away, SLEEP, PROPAGATE, WAIT_FIRST_SYNC
  <2>3. ~PowerOff(n)
    BY DEF PowerOff
  <2>4. CASE Initiate(n)
    <3> DEFINE f == [m \in Nodes |-> 0]
    <3>1. n = 1 /\ powered[1] /\ forwardSync(1, <<>>, TRUE, since[1], link) /\ since[1] = 0
      BY <2>4 DEF Initiate, Scheduled, Initiator, Boot
    <3>2. /\ link' = [link EXCEPT ![1] = Sending(WithReading(1, <<>>))]
          /\ sleepState' = [sleepState EXCEPT ![1] = PROPAGATE]
          /\ isSync' = [isSync EXCEPT ![1] = TRUE]
          /\ since' = [since EXCEPT ![1] = 0] /\ powered' = powered
      BY <2>4, <3>1 DEF forwardSync, Initiate
    <3>3. /\ link'[1].on /\ ~link'[1].arrived /\ link'[1].age = 0
          /\ link'[1].data = Chain(1, 1)
      <4>1. link'[1] = Sending(WithReading(1, <<>>))
        BY <3>2, Spans DEF TypeOK
      <4>2. WithReading(1, <<>>) \in Seq(Nodes)
        BY Spans, EmptySeq, WithReadingType
      <4> QED BY <4>1, <4>2, SendingFields, ChainStarts, Spans
    <3>4. f \in [Nodes -> Int] /\ \A m \in Nodes : f[m] = 0
      OBVIOUS
    <3> HIDE DEF f
    <3>5. Clock(1, 0)'
      <4>1. powered'[1] /\ sleepState'[1] = PROPAGATE /\ isSync'[1] /\ since'[1] = 0
        BY <3>1, <3>2, Spans DEF TypeOK
      <4>2. Sends(1, 0)'
        BY <3>3, <4>1 DEF Sends
      <4> QED BY <3>3, <4>1, <4>2 DEF Clock
    <3>6. \A m \in Nodes : m # 1 => Away(m)' /\ ~link'[m].on
      BY <1>1, <3>2 DEF Boot, Away, TypeOK
    <3>7. Clocks(f, 1)'
      <4> SUFFICES ASSUME NEW m \in Nodes
                   PROVE  IF m <= 1 THEN Clock(m, f[m])' ELSE Away(m)'
        BY DEF Clocks
      <4>1. CASE m = 1
        <5>1. Clock(m, f[m])' /\ m <= 1
          BY <3>4, <3>5, <4>1
        <5> QED BY <5>1
      <4>2. CASE m # 1
        BY <3>6, <4>2, Spans
      <4> QED BY <4>1, <4>2, Spans
    <3>8. Spread(f, 1, 1)
      BY <3>4, Spans DEF Spread, Behind
    <3>9. Messages(1, 1)'
      <4> SUFFICES ASSUME NEW m \in Nodes PROVE Message(link[m], m, 1, 1)'
        BY DEF Messages
      <4>1. CASE m = 1
        <5>1. link'[m].data = Chain(1, m)
          BY <3>3, <4>1
        <5> QED BY <4>1, <5>1 DEF Message, Chain, UpTo
      <4>2. CASE m # 1
        BY <3>6, <4>2 DEF Message
      <4> QED BY <4>1, <4>2
    <3>10. Line(f, 1, 1)'
      BY <3>7, <3>8, <3>9, SpreadIsConstant DEF Line
    <3>11. 1 \in 1..1 /\ 1 \in Nodes
      BY Spans
    <3> QED BY <3>4, <3>10, <3>11 DEF InTime
  <2>5. ~Receive(n)
    <3>1. n > 1 => n - 1 \in Nodes
      BY Numbers DEF Nodes
    <3> QED BY <1>1, <3>1 DEF Receive
  <2>6. ~syncTimeout(n)
    BY DEF syncTimeout, TimedOut, Boot, Away, WAIT_SYNC, PROPAGATE, WAIT_FIRST_SYNC
  <2>7. ~Done(n)
    BY <1>1 DEF Done
  <2> QED BY <1>3, <2>1, <2>2, <2>3, <2>4, <2>5, <2>6, <2>7 DEF NodeStep, Event
<1> QED BY <1>2, <1>3 DEF Next

LEMMA InTimeStep ==
  ASSUME TypeOK, ClocksAgree, CycleIsLong, HasDelta, InTime, Next, ~lost'
  PROVE  InTime'
<1>1. PICK f \in [Nodes -> Int], p \in Nodes : \E c \in 1..p : Line(f, p, c)
  BY DEF InTime
<1>2. PICK c \in 1..p : Line(f, p, c)
  BY <1>1
<1>3. CASE Tick
  <2>1. PICK g \in [Nodes -> Int] : Line(g, p, c)'
    BY <1>2, <1>3, LineTick
  <2> QED BY <2>1 DEF InTime
<1>4. ASSUME NEW n \in Nodes, NodeStep(n) PROVE InTime'
  <2>1. CASE PowerOn(n)
    <3>1. Line(f, p, c)'
      BY <1>2, <2>1, LinePowerOn
    <3> QED BY <3>1 DEF InTime
  <2>2. CASE Wake(n)
    <3>1. Line(f, p, c)'
      BY <1>2, <2>2, LineWake
    <3> QED BY <3>1 DEF InTime
  <2>3. ~PowerOff(n)
    BY DEF PowerOff
  <2>4. CASE Initiate(n)
    <3>1. PICK g \in [Nodes -> Int] : Line(g, p, 1)'
      BY <1>2, <2>4, LineInitiate
    <3>2. 1 \in 1..p
      BY Spans
    <3> QED BY <3>1, <3>2 DEF InTime
  <2>5. CASE Receive(n)
    <3>1. PICK g \in [Nodes -> Int], q \in Nodes : n <= q /\ Line(g, q, n)'
      BY <1>2, <2>5, LineReceive
    <3>2. n \in 1..q
      BY <3>1, Spans
    <3> QED BY <3>1, <3>2 DEF InTime
  <2>6. ~syncTimeout(n)
    BY <1>2, NoTimeout DEF syncTimeout
  <2>7. CASE Done(n)
    <3>1. Line(f, p, c)'
      BY <1>2, <2>7, LineDone
    <3> QED BY <3>1 DEF InTime
  <2> QED BY <1>4, <2>1, <2>2, <2>3, <2>4, <2>5, <2>6, <2>7 DEF NodeStep, Event
<1> QED BY <1>3, <1>4 DEF Next

\* PowerOn computes the tolerance, and only PowerOff forgets it.
LEMMA HasDeltaStep ==
  ASSUME TypeOK, HasDelta, [Next]_vars
  PROVE  HasDelta'
<1>1. CASE UNCHANGED <<powered, deltaTime>>
  BY <1>1 DEF HasDelta, computeDeltaTime
<1>2. ASSUME NEW n \in Nodes, PowerOn(n) PROVE HasDelta'
  <2>1. /\ \A m \in Nodes : m # n => powered'[m] = powered[m] /\ deltaTime'[m] = deltaTime[m]
        /\ n # 1 => deltaTime'[n] = computeDeltaTime
    BY <1>2 DEF PowerOn, Initiator, TypeOK
  <2> QED BY <2>1 DEF HasDelta, computeDeltaTime
<1>3. ASSUME NEW n \in Nodes, PowerOff(n) PROVE HasDelta'
  <2>1. /\ \A m \in Nodes : m # n => powered'[m] = powered[m] /\ deltaTime'[m] = deltaTime[m]
        /\ ~powered'[n]
    BY <1>3 DEF PowerOff, TypeOK
  <2> QED BY <2>1 DEF HasDelta, computeDeltaTime
<1>4. [Next]_vars => \/ UNCHANGED <<powered, deltaTime>>
                    \/ \E n \in Nodes : PowerOn(n) \/ PowerOff(n)
  BY DEF Next, vars, nodeVars, Tick, NodeStep, Event, Wake, Initiate, Receive,
         syncTimeout, Done
<1> QED BY <1>1, <1>2, <1>3, <1>4

\* What was lost is not forgotten.
LEMMA LostStays ==
  ASSUME [Next]_vars, lost
  PROVE  lost'
<1>1. CASE UNCHANGED lost
  BY <1>1
<1>2. CASE Tick
  BY <1>2 DEF Tick
<1>3. ASSUME NEW n \in Nodes, NodeStep(n) PROVE lost'
  BY <1>3 DEF NodeStep, Event, PowerOn, Wake, PowerOff, Initiate, Receive, syncTimeout, Done,
              forwardSync
<1>4. CASE UNCHANGED vars
  BY <1>4 DEF vars
<1> QED BY <1>2, <1>3, <1>4 DEF Next

LEMMA TimeInit == Init => TimeInv
<1> SUFFICES ASSUME Init PROVE TimeInv
  OBVIOUS
<1>1. \A n \in Nodes : /\ ~powered[n] /\ sleepState[n] = WAIT_FIRST_SYNC
                      /\ ~isSync[n] /\ since[n] = 0 /\ link[n] = Idle
  BY DEF Init
<1>2. \A n \in Nodes : ~link[n].on
  BY <1>1 DEF Idle
<1>3. HasDelta
  BY <1>1 DEF HasDelta
<1>4. Boot
  BY <1>1, <1>2, Spans DEF Boot, Away
<1> QED BY <1>3, <1>4 DEF TimeInv

LEMMA TimeStep ==
  ASSUME TypeOK, TimeInv, ClocksAgree, CycleIsLong, [Next]_vars
  PROVE  TimeInv'
<1>1. HasDelta'
  BY HasDeltaStep DEF TimeInv
<1>2. ASSUME ~lost' PROVE Boot' \/ InTime'
  <2>1. ~lost
    BY <1>2, LostStays
  <2>2. CASE UNCHANGED vars
    <3>1. Boot => Boot'
      BY <2>2 DEF vars, nodeVars, Boot, Away
    <3>2. InTime => InTime'
      <4> SUFFICES ASSUME InTime PROVE InTime'
        OBVIOUS
      <4>1. PICK f \in [Nodes -> Int], p \in Nodes : \E c \in 1..p : Line(f, p, c)
        BY DEF InTime
      <4>2. PICK c \in 1..p : Line(f, p, c)
        BY <4>1
      <4>3. \A n \in Nodes : Same(n)
        BY <2>2 DEF vars, nodeVars, Same
      <4>4. Clocks(f, p)'
        BY <4>2, <4>3, SameClock DEF Line, Clocks
      <4>5. Spread(f, p, c)' /\ Messages(p, c)'
        BY <2>2, <4>2, SpreadIsConstant, MessagesKept DEF Line, vars
      <4>6. Line(f, p, c)'
        BY <4>4, <4>5 DEF Line
      <4> QED BY <4>6 DEF InTime
    <3> QED BY <2>1, <3>1, <3>2 DEF TimeInv
  <2>3. CASE Next
    BY <1>2, <2>1, <2>3, BootStep, InTimeStep DEF TimeInv
  <2> QED BY <2>2, <2>3
<1> QED BY <1>1, <1>2 DEF TimeInv

\* The line keeps time: as long as no SYNC is lost the references of its
\* nodes are apart by what the transmissions between them take, and the
\* nodes the SYNC has not reached yet by a cycle more.
THEOREM LineKeepsTime ==
  ASSUME ClocksAgree, CycleIsLong
  PROVE  Spec => []TimeInv
<1>1. TypeOK /\ TimeInv /\ [Next]_vars => TimeInv'
  BY TimeStep
<1> QED BY TypeCorrect, TimeInit, <1>1, PTL DEF Spec

\* deltaTime, Extra and Airtime are enough (computeDeltaTime, goToSleep): as
\* long as no SYNC is lost, whatever the copies each one needs and the errors
\* of the clocks, a node of the line is awake and waits for its SYNC.
THEOREM AwakeInTime ==
  ASSUME ClocksAgree, CycleIsLong
  PROVE  Spec => []AwakeUnlessLost
<1>1. TypeOK /\ TimeInv => AwakeUnlessLost
  <2> SUFFICES ASSUME TypeOK, TimeInv, ~lost,
                      NEW n \in Nodes \ {N}, link[n].on, ~link[n].arrived,
                      sleepState[n + 1] # WAIT_FIRST_SYNC
               PROVE  sleepState[n + 1] = WAIT_SYNC
    BY DEF AwakeUnlessLost, SuccessorAwake
  <2>1. InTime
    BY DEF TimeInv, Boot, Away
  <2>2. PICK f \in [Nodes -> Int], p \in Nodes : \E c \in 1..p : Line(f, p, c)
    BY <2>1 DEF InTime
  <2>3. PICK c \in 1..p : Line(f, p, c)
    BY <2>2
  <2>4. n = c /\ n + 1 \in Nodes
    <3>1. n = c
      BY <2>3, WhoSends
    <3>2. n + 1 \in Nodes
      BY Numbers DEF Nodes
    <3> QED BY <3>1, <3>2
  <2>5. n + 1 <= p
    BY <2>3, <2>4 DEF Line, Clocks, Away
  <2>6. c < n + 1
    BY <2>4, Spans
  <2>7. Waits(n + 1, f[n + 1])
    BY <2>3, <2>4, <2>5, <2>6, WhoWaits
  <2> QED BY <2>7 DEF Waits
<1> QED BY TypeCorrect, LineKeepsTime, <1>1, PTL

\* As long as no SYNC is lost every message has the readings of all the nodes
\* before its sender (sleep.cpp, forwardSync).
THEOREM ReadingsComplete ==
  ASSUME ClocksAgree, CycleIsLong
  PROVE  Spec => []NoneMissing
<1>1. TimeInv => NoneMissing
  <2> SUFFICES ASSUME TimeInv, ~lost, NEW n \in Nodes, link[n].on
               PROVE  link[n].data = SubSeq(UpTo(1, n), 1, Min({n, MaxData}))
    BY DEF NoneMissing
  <2>1. InTime
    BY DEF TimeInv, Boot, Away
  <2>2. PICK f \in [Nodes -> Int], p \in Nodes, c \in 1..N : Line(f, p, c)
    BY <2>1, Numbers DEF InTime, Nodes
  <2>3. link[n].data = Chain(1, n)
    BY <2>2 DEF Line, Messages, Message
  <2>4. n - 1 + 1 = n
    BY Spans
  <2> QED BY <2>3, <2>4 DEF Chain
<1> QED BY LineKeepsTime, <1>1, PTL

\* As long as no SYNC is lost no node waits until its timeout (sleep.cpp,
\* syncTimeout): the window is never too short for a SYNC that comes.
THEOREM NoneTimesOut ==
  ASSUME ClocksAgree, CycleIsLong
  PROVE  Spec => [](~lost => \A n \in Nodes : ~TimedOut(n))
<1>1. TypeOK /\ TimeInv => (~lost => \A n \in Nodes : ~TimedOut(n))
  <2> SUFFICES ASSUME TypeOK, TimeInv, ~lost, NEW n \in Nodes PROVE ~TimedOut(n)
    OBVIOUS
  <2>1. CASE Boot
    BY <2>1 DEF Boot, Away, TimedOut, WAIT_SYNC, PROPAGATE, WAIT_FIRST_SYNC
  <2>2. CASE InTime
    BY <2>2, NoTimeout DEF InTime, TimeInv
  <2> QED BY <2>1, <2>2 DEF TimeInv
<1> QED BY TypeCorrect, LineKeepsTime, <1>1, PTL
=============================================================================
