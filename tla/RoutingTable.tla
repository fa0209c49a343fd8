---------------------------- MODULE RoutingTable ----------------------------
(***************************************************************************)
(* The static routing table: an array in memory, written whole to the      *)
(* non-volatile storage by every operation that changes it                 *)
(* (src/firmware/src/routing_table.cpp). A crash within an operation leaves *)
(* what a crash before or after its write leaves, so restarts between      *)
(* operations are enough. Memory for the array does not run out.           *)
(***************************************************************************)
EXTENDS Integers, Sequences

CONSTANTS
  Dsts,        \* destinations
  Hops,        \* next hops
  NoRoute,     \* NODE_ADDRESS_NULL
  SaveMayFail  \* TRUE: the storage may refuse a write or an erasure

ASSUME RoutingTableAssumption == NoRoute \notin Hops /\ SaveMayFail \in BOOLEAN

Entry == [dst : Dsts, nextHop : Hops]

VARIABLES
  table,   \* RoutingTable, RoutingTableSize entries of it
  nvs,     \* what the key "routingTable" of the storage holds
  unsaved, \* history: the last write or erasure of the table failed
  told     \* history: and its caller was told so, by the last answer it got

vars == <<table, nvs, unsaved, told>>

---------------------------------------------------------------------------
Without(s, i) == SubSeq(s, 1, i - 1) \o SubSeq(s, i + 1, Len(s))

\* Mutant: the entries after the one removed are not moved, the last is lost.
WithoutLast(s, i) == SubSeq(s, 1, Len(s) - 1)

\* Mutant: the entries after the one removed move two places.
WithoutTwo(s, i) == SubSeq(s, 1, i - 1) \o SubSeq(s, i + 2, Len(s))

\* The entries after the one removed move one place to the front.
Removed(s, i) == Without(s, i)

_getIndexInRoutingTable(s, d) == {i \in DOMAIN s : s[i].dst = d}

Lookup(s, d) ==
  LET I == _getIndexInRoutingTable(s, d) IN
  IF I = {} THEN NoRoute ELSE s[CHOOSE i \in I : \A j \in I : i <= j].nextHop

RoutingTable_getRoute(d) == Lookup(table, d)

HasRoute(d) == _getIndexInRoutingTable(table, d) # {}

\* Preferences.putBytes writes nothing for no bytes, and the count it returns
\* is then the one expected.
_saveTableToNVS(s) ==
  \/ nvs' = (IF s = <<>> THEN nvs ELSE s) /\ unsaved' = FALSE /\ told' = FALSE
  \/ SaveMayFail /\ s # <<>> /\ UNCHANGED nvs /\ unsaved' = TRUE /\ told' = TRUE

---------------------------------------------------------------------------
\* Mutant: no look for an entry the destination already has.
AddUnchecked(d, h) ==
  /\ table' = Append(table, [dst |-> d, nextHop |-> h])
  /\ Len(table) < 4
  /\ _saveTableToNVS(table')

RoutingTable_addRoute(d, h) ==
  /\ ~HasRoute(d)
  /\ table' = Append(table, [dst |-> d, nextHop |-> h])
  /\ _saveTableToNVS(table')

RoutingTable_removeRoute(d) ==
  /\ HasRoute(d)
  /\ \E i \in _getIndexInRoutingTable(table, d) : table' = Removed(table, i)
  /\ _saveTableToNVS(table')

\* The result of preferences.remove is not looked at: the answer is TRUE.
RoutingTable_clear ==
  /\ table' = <<>> /\ told' = FALSE
  /\ \/ nvs' = <<>> /\ unsaved' = FALSE
     \/ SaveMayFail /\ nvs # <<>> /\ UNCHANGED nvs /\ unsaved' = TRUE

\* Mutant: the new next hop stays in memory.
UpdateInMemory(d, h) ==
  /\ \E i \in _getIndexInRoutingTable(table, d) :
       table[i].nextHop # h /\ table' = [table EXCEPT ![i].nextHop = h]
  /\ UNCHANGED <<nvs, unsaved, told>>

ChangeHop(d, h) ==
  /\ \E i \in _getIndexInRoutingTable(table, d) :
       table[i].nextHop # h /\ table' = [table EXCEPT ![i].nextHop = h]
  /\ _saveTableToNVS(table')

\* No change is needed: the answer is TRUE and nothing is written.
KeepHop(d, h) ==
  /\ HasRoute(d) /\ RoutingTable_getRoute(d) = h
  /\ told' = FALSE
  /\ UNCHANGED <<table, nvs, unsaved>>

RoutingTable_updateRoute(d, h) ==
  RoutingTable_addRoute(d, h) \/ ChangeHop(d, h) \/ KeepHop(d, h)

\* RoutingTable_deinit, or the end of power, then RoutingTable_init.
Restart ==
  /\ table' = nvs
  /\ unsaved' = FALSE /\ told' = FALSE
  /\ UNCHANGED nvs

Init == table = <<>> /\ nvs = <<>> /\ unsaved = FALSE /\ told = FALSE

Next ==
  \/ \E d \in Dsts :
       \/ \E h \in Hops : RoutingTable_updateRoute(d, h)
       \/ RoutingTable_removeRoute(d)
  \/ RoutingTable_clear
  \/ Restart

Spec == Init /\ [][Next]_vars

---------------------------------------------------------------------------
(* Properties. *)

\* The table and its copy are sequences of entries, and told is set only while
\* the copy is behind.
TypeOK ==
  /\ table \in Seq(Entry) /\ nvs \in Seq(Entry)
  /\ unsaved \in BOOLEAN /\ told \in BOOLEAN
  /\ told => unsaved

OnePerDst(s) == \A i, j \in DOMAIN s : s[i].dst = s[j].dst => i = j

\* tfe.tex:728, routing_table.cpp:83-86: a destination has one route at most, in
\* memory and in what any restart brings back.
OneRoutePerDestination == OnePerDst(table) /\ OnePerDst(nvs)

\* routing_table.cpp:98-105: as long as there is a route and no write has
\* failed, a restart finds the table as it is.
RoutesSurvive == table # <<>> /\ ~unsaved => nvs = table

SetsOnly(d, h) ==
  /\ RoutingTable_getRoute(d)' = h
  /\ \A e \in Dsts \ {d} : RoutingTable_getRoute(e)' = RoutingTable_getRoute(e)

\* routing_table.cpp:83-167: a route that is set is the one found from then on,
\* and one that is removed is not found, whatever else the array holds; no
\* other route moves.
CallsTakeEffect ==
  [][\A d \in Dsts :
       /\ RoutingTable_removeRoute(d) => SetsOnly(d, NoRoute)
       /\ \A h \in Hops : RoutingTable_updateRoute(d, h) => SetsOnly(d, h)]_vars

\* tfe.tex:757: a restart finds the table as it is, the empty one as well.
TableSurvives == ~unsaved => nvs = table

\* routing_table.cpp:180-182: while the table differs from its copy because a
\* write failed, the last answer to an application was that it had.
FailureIsTold == unsaved => told

\* routing_table.h:42: the answer to RoutingTable_clear is TRUE only if the
\* table could be erased: a restart then brings no route back.
ClearTellsFailure == [][RoutingTable_clear /\ ~told' => nvs' = <<>>]_vars

\* Every operation changes the route of one destination, or takes them all, and
\* what is stored follows the table unless the storage fails or the table is
\* empty.
Map == INSTANCE RouteMap WITH
  routes <- [d \in Dsts |-> Lookup(table, d)],
  stored <- [d \in Dsts |-> Lookup(nvs, d)]

ImplementsRouteMap == Map!Spec
=============================================================================
