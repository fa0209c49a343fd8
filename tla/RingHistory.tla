---------------------------- MODULE RingHistory ----------------------------
(***************************************************************************)
(* What a ring buffer promises (RingBuffer.cpp:1-6): it keeps the last     *)
(* Capacity values put in and not taken out, oldest first.                 *)
(***************************************************************************)
EXTENDS Integers, Sequences

CONSTANTS Capacity, Values, Empty

VARIABLES
  ring,    \* the values kept, oldest first
  taken,   \* what the last dequeue returned
  found    \* what the last remove returned

Init == ring = <<>> /\ taken = Empty /\ found = FALSE

Enqueue(v) ==
  /\ ring' = IF Len(ring) < Capacity THEN Append(ring, v) ELSE Append(Tail(ring), v)
  /\ UNCHANGED <<taken, found>>

Dequeue ==
  /\ \/ ring = <<>> /\ taken' = Empty /\ ring' = ring
     \/ ring # <<>> /\ taken' = Head(ring) /\ ring' = Tail(ring)
  /\ UNCHANGED found

Remove(v) ==
  /\ ring' = SelectSeq(ring, LAMBDA w : w # v)
  /\ found' = (\E i \in DOMAIN ring : ring[i] = v)
  /\ UNCHANGED taken

Next == Dequeue \/ \E v \in Values : Enqueue(v) \/ Remove(v)

Spec == Init /\ [][Next]_<<ring, taken, found>>

\* The uses the firmware makes: it only adds values.
AddSpec == Init /\ [][\E v \in Values : Enqueue(v)]_<<ring, taken, found>>
=============================================================================
