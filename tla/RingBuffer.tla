----------------------------- MODULE RingBuffer -----------------------------
(***************************************************************************)
(* The circular buffer of 16-bit values in which the medium access and the *)
(* transport layer keep the identifiers they received last                 *)
(* (src/firmware/src/utils/RingBuffer.cpp).                                *)
(***************************************************************************)
EXTENDS Integers, Sequences

CONSTANTS
  Capacity,  \* the size given to the constructor
  Values,    \* the values stored
  Empty      \* 255, what dequeue returns when there is nothing to return

ASSUME CapacityAssumption == Capacity \in Nat \ {0}

VARIABLES buffer, head, tail, count,
  taken, found   \* what the last dequeue and the last remove returned

vars == <<buffer, head, tail, count, taken, found>>

Slots == 0..(Capacity - 1)

\* The i-th slot from the oldest value on.
Slot(i) == (tail + i) % Capacity

\* The constructor leaves the slots uninitialised.
Init ==
  /\ buffer \in [Slots -> Values]
  /\ head = 0 /\ tail = 0 /\ count = 0
  /\ taken = Empty /\ found = FALSE

enqueue(value) ==
  /\ buffer' = [buffer EXCEPT ![head] = value]
  /\ head' = (head + 1) % Capacity
  /\ \/ count = Capacity /\ tail' = (tail + 1) % Capacity /\ count' = count
     \/ count # Capacity /\ tail' = tail /\ count' = count + 1
  /\ UNCHANGED <<taken, found>>

dequeue ==
  /\ \/ count = 0 /\ taken' = Empty /\ UNCHANGED <<tail, count>>
     \/ /\ count # 0
        /\ taken' = buffer[tail]
        /\ tail' = (tail + 1) % Capacity
        /\ count' = count - 1
  /\ UNCHANGED <<buffer, head, found>>

\* Mutant: one slot too few is looked at.
containsAllButLast(value) == \E i \in 0..(count - 2) : buffer[Slot(i)] = value

contains(value) == \E i \in 0..(count - 1) : buffer[Slot(i)] = value

\* Mutant: every value moves one slot, however many were removed before it.
ShiftedByOne(value) ==
  LET After[i \in 0..count] ==
        IF i = 0 THEN [buf |-> buffer, shift |-> 0]
        ELSE LET s == After[i - 1]  idx == Slot(i - 1) IN
             IF s.buf[idx] = value THEN [s EXCEPT !.shift = @ + 1]
             ELSE IF s.shift > 0
                  THEN [s EXCEPT !.buf[(idx - 1 + Capacity) % Capacity] = s.buf[idx]]
                  ELSE s
  IN After[count]

\* The loop of remove: the slots and the number of values found so far, after
\* each of the count iterations.
Shifted(value) ==
  LET After[i \in 0..count] ==
        IF i = 0 THEN [buf |-> buffer, shift |-> 0]
        ELSE LET s == After[i - 1]  idx == Slot(i - 1) IN
             IF s.buf[idx] = value THEN [s EXCEPT !.shift = @ + 1]
             ELSE [s EXCEPT !.buf[(idx - s.shift + Capacity) % Capacity] = s.buf[idx]]
  IN After[count]

remove(value) ==
  /\ \/ count = 0 /\ found' = FALSE /\ UNCHANGED <<buffer, head, count>>
     \/ /\ count # 0
        /\ LET s == Shifted(value) IN
           /\ buffer' = s.buf
           /\ count' = count - s.shift
           /\ head' = (tail + count - s.shift) % Capacity
           /\ found' = (s.shift > 0)
  /\ UNCHANGED <<tail, taken>>

Next == dequeue \/ \E value \in Values : enqueue(value) \/ remove(value)

Spec == Init /\ [][Next]_vars

\* mac.cpp:347 and transport.cpp:211 are the only uses that change a buffer.
AddSpec == Init /\ [][\E value \in Values : enqueue(value)]_vars

---------------------------------------------------------------------------
(* Properties. *)

\* The indices stay within the slots and the count within the capacity.
TypeOK ==
  /\ buffer \in [Slots -> Values]
  /\ head \in Slots /\ tail \in Slots /\ count \in 0..Capacity
  /\ taken \in Values \union {Empty} /\ found \in BOOLEAN

\* The next value is written just after the newest one; a full buffer and an
\* empty one, which head and tail do not tell apart, differ in count.
IndicesAgree == head = Slot(count)

\* The values kept, oldest first.
Contents == [i \in 1..count |-> buffer[Slot(i - 1)]]

\* The buffer keeps the last Capacity values put in and not taken out, oldest
\* first, whatever the slots held before and however the indices wrap.
History == INSTANCE RingHistory WITH ring <- Contents
ImplementsHistory == History!Spec

\* contains sees the value just added, and none that was removed: the slots
\* outside the window never count.
ContainsTracks ==
  [][\A value \in Values :
       /\ enqueue(value) => contains(value)'
       /\ remove(value) => ~contains(value)']_vars
=============================================================================
