------------------------------ MODULE RouteMap ------------------------------
(***************************************************************************)
(* What a routing table promises: a next hop, or none, for every           *)
(* destination, changed for one destination at a time or taken all         *)
(* together, and a copy of them that survives restarts. The copy is behind *)
(* only when the storage fails, or when no route is left.                  *)
(***************************************************************************)
CONSTANTS Dsts, Hops, NoRoute, SaveMayFail

VARIABLES
  routes,  \* the next hop of every destination
  stored   \* what a restart goes back to

vars == <<routes, stored>>

NoRoutes == [d \in Dsts |-> NoRoute]

Init == routes \in [Dsts -> Hops \union {NoRoute}] /\ stored = routes

\* The empty table need not be stored, and a failing storage keeps what it has.
Change(d, h) ==
  /\ routes' = [routes EXCEPT ![d] = h]
  /\ \/ stored' = routes'
     \/ (SaveMayFail \/ routes' = NoRoutes) /\ UNCHANGED stored

Clear ==
  /\ routes' = NoRoutes
  /\ \/ stored' = NoRoutes
     \/ SaveMayFail /\ UNCHANGED stored

Restart == routes' = stored /\ UNCHANGED stored

Next ==
  \/ \E d \in Dsts, h \in Hops \union {NoRoute} : Change(d, h)
  \/ Clear
  \/ Restart

Spec == Init /\ [][Next]_vars
=============================================================================
