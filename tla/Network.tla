------------------------------ MODULE Network ------------------------------
(***************************************************************************)
(* What the routing layers of a network promise together: a packet is made *)
(* once, travels, and ends once: lost, handed to the upper layer of its    *)
(* destination, or sent to the server by a gateway, which then may hand it *)
(* to its own upper layer to have it acknowledged.                         *)
(***************************************************************************)
CONSTANTS Nodes, WanNodes, Packets, Dsts, Unmade

VARIABLES
  dst,      \* of every packet that was made
  state,    \* "none", "travels" or "ended"
  handed,   \* the nodes whose upper layer has got each packet
  uplinked  \* the packets the server has got

vars == <<dst, state, handed, uplinked>>

Init ==
  /\ dst = [p \in Packets |-> Unmade]
  /\ state = [p \in Packets |-> "none"]
  /\ handed = [p \in Packets |-> {}]
  /\ uplinked = {}

Same(p) ==
  dst'[p] = dst[p] /\ state'[p] = state[p] /\ handed'[p] = handed[p]

NotUplinked(p) == p \in uplinked' <=> p \in uplinked

\* A packet a gateway makes may be with the server at once.
Make(p) ==
  /\ state[p] = "none" /\ state'[p] \in {"travels", "ended"}
  /\ dst'[p] \in Dsts /\ handed'[p] = {}
  /\ state'[p] = "travels" => NotUplinked(p)

Lose(p) ==
  /\ state[p] = "travels" /\ state'[p] = "ended"
  /\ dst'[p] = dst[p] /\ handed'[p] = {} /\ NotUplinked(p)

Hand(p) ==
  /\ state[p] = "travels" /\ state'[p] = "ended"
  /\ dst'[p] = dst[p] /\ handed'[p] = {dst[p]} /\ NotUplinked(p)

\* An uplink that is not acknowledged may have reached the server all the same.
Uplink(p) ==
  /\ state[p] = "travels" /\ state'[p] = "ended"
  /\ dst'[p] = dst[p]
  /\ p \notin uplinked
  /\ \E n \in WanNodes : handed'[p] \in {{}, {n}} /\ (handed'[p] = {n} => p \in uplinked')

\* Each packet on its own, several at once when an uplink brings an answer back.
Step(p) == (Same(p) /\ NotUplinked(p)) \/ Make(p) \/ Lose(p) \/ Hand(p) \/ Uplink(p)

Next == \A p \in Packets : Step(p)

Spec == Init /\ [][Next]_vars
=============================================================================
