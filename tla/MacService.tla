----------------------------- MODULE MacService -----------------------------
(***************************************************************************)
(* What the medium access layer promises its upper layer (mac.h): a frame  *)
(* it takes is reported sent or failed once, in the order of the calls; it *)
(* is reported sent only when its receiver has it; and the receiver's      *)
(* upper layer gets it, possibly after the sender gave it up, and never    *)
(* again before RingSize others. A node that gives up may also be handed   *)
(* the acknowledgement that comes too late, as one frame more.             *)
(***************************************************************************)
EXTENDS Integers, Sequences

CONSTANTS Nodes, Ids, RingSize

VARIABLES
  accepted,   \* frames each node has taken, in order
  outcomes,   \* results it has reported, in order
  delivered,  \* <<sender, id>> of the frames it has handed up
  handedUp    \* identifiers of all it has handed up, in order

vars == <<accepted, outcomes, delivered, handedUp>>

Frames == [rx : Nodes, id : Ids]

Unsettled(n) == Len(outcomes[n]) < Len(accepted[n])

NextToSettle(n) == accepted[n][Len(outcomes[n]) + 1]

Has(m, id) == \E k \in DOMAIN handedUp[m] : handedUp[m][k] = id

Recent(m, id) ==
  \E k \in DOMAIN handedUp[m] :
    k > Len(handedUp[m]) - RingSize /\ handedUp[m][k] = id

Init ==
  /\ accepted = [n \in Nodes |-> <<>>]
  /\ outcomes = [n \in Nodes |-> <<>>]
  /\ delivered = [n \in Nodes |-> {}]
  /\ handedUp = [n \in Nodes |-> <<>>]

Accept(n, f) ==
  /\ f.rx # n
  /\ accepted' = [accepted EXCEPT ![n] = Append(@, f)]

\* The callback that reports a result may hand over the next frame.
Settle(n, ok) ==
  /\ Unsettled(n)
  /\ ok => <<n, NextToSettle(n).id>> \in delivered[NextToSettle(n).rx]
  /\ outcomes' = [outcomes EXCEPT ![n] =
       Append(@, [rx |-> NextToSettle(n).rx, id |-> NextToSettle(n).id, ok |-> ok])]
  /\ UNCHANGED accepted \/ \E f \in Frames : Accept(n, f)
  /\ UNCHANGED <<delivered, handedUp>>

HandUp(m, id) ==
  /\ ~Recent(m, id)
  /\ handedUp' = [handedUp EXCEPT ![m] = Append(@, id)]

Deliver(n, f) ==
  /\ \E i \in DOMAIN accepted[n] : accepted[n][i] = f
  /\ HandUp(f.rx, f.id)
  /\ delivered' = [delivered EXCEPT ![f.rx] = @ \union {<<n, f.id>>}]
  /\ UNCHANGED <<accepted, outcomes>>

\* m is handed the acknowledgement of a frame n has been handed.
Echo(m, n, id) ==
  /\ Has(n, id)
  /\ HandUp(m, id)
  /\ UNCHANGED <<accepted, outcomes, delivered>>

Next ==
  \E n \in Nodes :
    \/ \E f \in Frames : Accept(n, f) /\ UNCHANGED <<outcomes, delivered, handedUp>>
    \/ \E ok \in BOOLEAN : Settle(n, ok)
    \/ \E f \in Frames : Deliver(n, f)
    \/ \E m \in Nodes, id \in Ids : Echo(m, n, id)

Spec == Init /\ [][Next]_vars
=============================================================================
