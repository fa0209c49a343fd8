-------------------------- MODULE RingBufferProofs --------------------------
(***************************************************************************)
(* As the firmware uses it, only adding values, the ring buffer keeps the  *)
(* last Capacity of them in order, for every capacity and every contents   *)
(* of the memory it is given.                                              *)
(***************************************************************************)
EXTENDS RingBuffer, SequenceTheorems, TLAPS

USE CapacityAssumption

\* The indices wrap at most once.
LEMMA Wrap ==
  ASSUME NEW t \in 0..(Capacity - 1), NEW i \in 0..Capacity
  PROVE  (t + i) % Capacity = IF t + i < Capacity THEN t + i ELSE t + i - Capacity
OBVIOUS

\* So do the slots counted from the oldest.
LEMMA SlotWraps ==
  ASSUME tail \in Slots, NEW i \in 0..Capacity
  PROVE  Slot(i) = IF tail + i < Capacity THEN tail + i ELSE tail + i - Capacity
BY Wrap DEF Slot, Slots

\* Adding a value keeps the types and the relation of the indices.
LEMMA EnqueueIndices ==
  ASSUME TypeOK, IndicesAgree, NEW v \in Values, enqueue(v)
  PROVE  TypeOK' /\ IndicesAgree'
<1>1. head \in Slots /\ tail \in Slots /\ count \in 0..Capacity
  BY DEF TypeOK
<1>2. /\ (head + 1) % Capacity = IF head + 1 < Capacity THEN head + 1 ELSE 0
      /\ (tail + 1) % Capacity = IF tail + 1 < Capacity THEN tail + 1 ELSE 0
  <2>1. 1 \in 0..Capacity /\ head \in 0..(Capacity - 1) /\ tail \in 0..(Capacity - 1)
    BY <1>1 DEF Slots
  <2>2. (head + 1) % Capacity = IF head + 1 < Capacity THEN head + 1 ELSE head + 1 - Capacity
    BY <2>1, Wrap
  <2>3. (tail + 1) % Capacity = IF tail + 1 < Capacity THEN tail + 1 ELSE tail + 1 - Capacity
    BY <2>1, Wrap
  <2> QED BY <2>1, <2>2, <2>3
<1>3. TypeOK'
  BY <1>1, <1>2 DEF TypeOK, enqueue, Slots
<1>4. head = IF tail + count < Capacity THEN tail + count ELSE tail + count - Capacity
  BY <1>1, SlotWraps DEF IndicesAgree
<1>5. Slot(count)' = IF tail' + count' < Capacity THEN tail' + count' ELSE tail' + count' - Capacity
  <2>1. tail' \in 0..(Capacity - 1) /\ count' \in 0..Capacity
    BY <1>3 DEF TypeOK, Slots
  <2> QED BY <2>1, Wrap DEF Slot
<1> QED BY <1>1, <1>2, <1>3, <1>4, <1>5 DEF IndicesAgree, enqueue, Slots

\* What a window of slots holds is a sequence of values.
LEMMA WindowType ==
  ASSUME NEW b \in [Slots -> Values], NEW t \in Slots, NEW c \in 0..Capacity,
         NEW w, w = [i \in 1..c |-> b[(t + (i - 1)) % Capacity]]
  PROVE  w \in Seq(Values) /\ Len(w) = c
<1>1. ASSUME NEW i \in 1..c PROVE b[(t + (i - 1)) % Capacity] \in Values
  <2>1. t \in 0..(Capacity - 1) /\ i - 1 \in 0..Capacity
    BY DEF Slots
  <2>2. (t + (i - 1)) % Capacity \in Slots
    BY <2>1, Wrap DEF Slots
  <2> QED BY <2>2
<1> QED BY <1>1

\* The contents are a sequence of count values.
LEMMA ContentsType ==
  ASSUME TypeOK
  PROVE  Contents \in Seq(Values) /\ Len(Contents) = count
<1>1. count \in Nat /\ \A i \in 1..count : Slot(i - 1) \in Slots
  BY SlotWraps DEF TypeOK, Slots
<1>2. \A i \in 1..count : buffer[Slot(i - 1)] \in Values
  BY <1>1 DEF TypeOK
<1> QED BY <1>1, <1>2 DEF Contents

\* The window after a value is added, slot by slot.
LEMMA EnqueueContents ==
  ASSUME TypeOK, IndicesAgree, NEW v \in Values, enqueue(v)
  PROVE  Contents' = IF Len(Contents) < Capacity THEN Append(Contents, v)
                                                 ELSE Append(Tail(Contents), v)
<1>1. /\ head \in Slots /\ tail \in Slots /\ count \in 0..Capacity
      /\ buffer \in [Slots -> Values] /\ buffer' = [buffer EXCEPT ![head] = v]
  BY DEF TypeOK, enqueue
<1>2. /\ tail' \in Slots /\ count' \in 0..Capacity
      /\ Contents' \in Seq(Values) /\ Len(Contents') = count'
  <2>1. buffer' \in [Slots -> Values] /\ tail' \in Slots /\ count' \in 0..Capacity
    BY EnqueueIndices DEF TypeOK
  <2> QED BY <2>1, WindowType DEF Contents, Slot
<1>3. Contents \in Seq(Values) /\ Len(Contents) = count
  BY ContentsType
<1>4. head = Slot(count)
  BY DEF IndicesAgree
<1>5. CASE count # Capacity
  <2>1. tail' = tail /\ count' = count + 1
    BY <1>5 DEF enqueue
  <2>2. ASSUME NEW i \in 1..(count + 1) PROVE Contents'[i] = Append(Contents, v)[i]
    <3>1. Slot(i - 1)' = Slot(i - 1)
      BY <2>1 DEF Slot
    <3>2. CASE i = count + 1
      <4>1. Contents'[i] = buffer'[head]
        BY <1>4, <2>1, <3>1, <3>2, <1>1 DEF Contents
      <4>2. buffer'[head] = v
        BY <1>1
      <4>3. Append(Contents, v)[count + 1] = v
        BY <1>3
      <4> QED BY <3>2, <4>1, <4>2, <4>3
    <3>3. CASE i \in 1..count
      <4>1. Slot(i - 1) # head /\ Slot(i - 1) \in Slots
        BY <1>1, <1>4, <1>5, <3>3, SlotWraps DEF Slots
      <4>2. Contents'[i] = buffer'[Slot(i - 1)]
        BY <1>1, <2>1, <3>1 DEF Contents
      <4>3. Contents[i] = buffer[Slot(i - 1)]
        BY <3>3 DEF Contents
      <4>4. buffer'[Slot(i - 1)] = buffer[Slot(i - 1)]
        BY <1>1, <4>1
      <4>5. Append(Contents, v)[i] = Contents[i]
        BY <1>3, <3>3
      <4> QED BY <4>2, <4>3, <4>4, <4>5
    <3>4. i = count + 1 \/ i \in 1..count
      BY <1>1
    <3> QED BY <3>2, <3>3, <3>4, Zenon
  <2>3. Append(Contents, v) \in Seq(Values) /\ Len(Append(Contents, v)) = count + 1
    BY <1>3
  <2>4. Contents' = Append(Contents, v)
    BY <1>2, <2>1, <2>2, <2>3, SeqEqual
  <2> QED BY <1>1, <1>3, <1>5, <2>4
<1>6. CASE count = Capacity
  <2>1. tail' = (tail + 1) % Capacity /\ count' = count /\ head = tail
    BY <1>1, <1>4, <1>6, SlotWraps DEF enqueue, Slots
  <2>2. tail' = IF tail + 1 < Capacity THEN tail + 1 ELSE tail + 1 - Capacity
    <3>1. 1 \in 0..Capacity /\ tail \in 0..(Capacity - 1)
      BY <1>1 DEF Slots
    <3> QED BY <2>1, <3>1, Wrap
  <2>3. Tail(Contents) \in Seq(Values) /\ Len(Tail(Contents)) = count - 1
    BY <1>3, <1>6
  <2>4. ASSUME NEW i \in 1..count PROVE Contents'[i] = Append(Tail(Contents), v)[i]
    <3>1. Slot(i - 1)' = IF tail' + (i - 1) < Capacity THEN tail' + (i - 1) ELSE tail' + (i - 1) - Capacity
      <4>1. tail' \in 0..(Capacity - 1) /\ (i - 1) \in 0..Capacity
        BY <1>1, <1>2 DEF Slots
      <4> QED BY <4>1, Wrap DEF Slot
    <3>2. Contents'[i] = buffer'[Slot(i - 1)']
      BY <2>1 DEF Contents
    <3>3. CASE i = count
      <4>1. Slot(i - 1)' = head
        BY <1>1, <1>6, <2>1, <2>2, <3>1, <3>3 DEF Slots
      <4> QED BY <1>1, <2>3, <3>2, <3>3, <4>1
    <3>4. CASE i # count
      <4>1. Slot(i) = IF tail + i < Capacity THEN tail + i ELSE tail + i - Capacity
        BY <1>1, <1>6, SlotWraps
      <4>2. Slot(i - 1)' = Slot(i) /\ Slot(i) # head /\ Slot(i) \in Slots
        BY <1>1, <1>6, <2>1, <2>2, <3>1, <3>4, <4>1 DEF Slots
      <4>3. Contents[i + 1] = buffer[Slot(i)]
        BY <1>1, <3>4 DEF Contents
      <4>4. Append(Tail(Contents), v)[i] = Contents[i + 1]
        BY <1>1, <1>3, <2>3, <3>4
      <4> QED BY <1>1, <3>2, <4>2, <4>3, <4>4
    <3> QED BY <3>3, <3>4
  <2>5. Append(Tail(Contents), v) \in Seq(Values) /\ Len(Append(Tail(Contents), v)) = count
    BY <1>1, <1>6, <2>3
  <2>6. Contents' = Append(Tail(Contents), v)
    BY <1>2, <2>1, <2>4, <2>5, SeqEqual
  <2> QED BY <1>3, <1>6, <2>6
<1> QED BY <1>5, <1>6

---------------------------------------------------------------------------
\* The constructor establishes the relation of the indices.
LEMMA InitIndices == Init => TypeOK /\ IndicesAgree
<1> SUFFICES ASSUME Init PROVE TypeOK /\ IndicesAgree
  OBVIOUS
<1>1. /\ buffer \in [Slots -> Values] /\ head \in Slots /\ tail \in Slots
      /\ count \in 0..Capacity /\ taken \in Values \union {Empty}
  BY DEF Init, Slots
<1>2. found \in BOOLEAN
  BY Zenon DEF Init
<1>3. Slot(0) = 0
  BY <1>1, SlotWraps DEF Init
<1> QED BY <1>1, <1>2, <1>3 DEF Init, TypeOK, IndicesAgree

\* head is always the slot after the newest value (RingBuffer.cpp:24-32).
THEOREM IndicesInvariant == AddSpec => [](TypeOK /\ IndicesAgree)
<1>1. Init => TypeOK /\ IndicesAgree
  BY InitIndices
<1>2. TypeOK /\ IndicesAgree /\ [\E value \in Values : enqueue(value)]_vars
        => (TypeOK /\ IndicesAgree)'
  <2>1. ASSUME TypeOK, IndicesAgree, UNCHANGED vars PROVE TypeOK' /\ IndicesAgree'
    BY <2>1 DEF vars, TypeOK, IndicesAgree, Slot
  <2> QED BY <2>1, EnqueueIndices
<1> QED BY <1>1, <1>2, PTL DEF AddSpec

\* As long as values are only added the buffer holds the last Capacity of
\* them, oldest first: the sequence the layers above take it for.
THEOREM KeepsLastValues == AddSpec => ImplementsHistory
<1>1. Init => History!Init
  <2> SUFFICES ASSUME Init PROVE Contents = <<>>
    BY DEF Init, History!Init
  <2>1. Contents \in Seq(Values) /\ Len(Contents) = 0
    BY InitIndices, ContentsType DEF Init
  <2> QED BY <2>1, EmptySeq
<1>2. TypeOK /\ IndicesAgree /\ [\E value \in Values : enqueue(value)]_vars
        => [History!Next]_<<Contents, taken, found>>
  <2>1. ASSUME TypeOK, IndicesAgree, NEW v \in Values, enqueue(v) PROVE History!Next
    <3>1. History!Enqueue(v)
      BY <2>1, EnqueueContents DEF enqueue, History!Enqueue
    <3> QED BY <3>1 DEF History!Next
  <2>2. ASSUME UNCHANGED vars PROVE UNCHANGED <<Contents, taken, found>>
    BY <2>2 DEF vars, Contents, Slot
  <2> QED BY <2>1, <2>2
<1> QED BY <1>1, <1>2, IndicesInvariant, PTL DEF AddSpec, ImplementsHistory, History!Spec
=============================================================================
