------------------------- MODULE RoutingTableProofs -------------------------
(***************************************************************************)
(* For every set of destinations and next hops, and storage that may       *)
(* refuse writes: a destination never has two routes, a restart changes    *)
(* nothing while there is a route and no write has failed, and the array   *)
(* implements the function of RouteMap. The array operations are reduced   *)
(* to what they do to Lookup, which uniqueness makes independent of order. *)
(***************************************************************************)
EXTENDS RoutingTable, SequenceTheorems, TLAPS

USE RoutingTableAssumption

Valid(s) == s \in Seq(Entry) /\ OnePerDst(s)

IInv ==
  /\ Valid(table) /\ Valid(nvs)
  /\ unsaved \in BOOLEAN /\ told \in BOOLEAN /\ (told => unsaved)
  /\ RoutesSurvive

---------------------------------------------------------------------------
(* What a look in a table finds. *)

\* The only entry of a destination is the one found.
LEMMA LookupFound ==
  ASSUME NEW s, Valid(s), NEW i \in DOMAIN s
  PROVE  Lookup(s, s[i].dst) = s[i].nextHop
<1> DEFINE I == _getIndexInRoutingTable(s, s[i].dst)
<1>1. I = {i}
  BY DEF _getIndexInRoutingTable, Valid, OnePerDst
<1>2. (CHOOSE k \in {i} : \A j \in {i} : k <= j) = i
  <2>1. i \in Nat
    BY DEF Valid
  <2>2. \A j \in {i} : i <= j
    BY <2>1
  <2> QED BY <2>2
<1>3. Lookup(s, s[i].dst) =
        IF I = {} THEN NoRoute ELSE s[CHOOSE k \in I : \A j \in I : k <= j].nextHop
  BY DEF Lookup
<1> HIDE DEF I
<1> QED BY <1>1, <1>2, <1>3

\* A destination without entry has no route.
LEMMA LookupMissing ==
  ASSUME NEW s, NEW d, \A i \in DOMAIN s : s[i].dst # d
  PROVE  Lookup(s, d) = NoRoute
<1>1. _getIndexInRoutingTable(s, d) = {}
  BY DEF _getIndexInRoutingTable
<1> QED BY <1>1 DEF Lookup

\* Two tables hold the same entry, or none, for a destination.
SameEntry(s, t, d) ==
  /\ \A i \in DOMAIN s : s[i].dst = d => \E j \in DOMAIN t : t[j] = s[i]
  /\ \A j \in DOMAIN t : t[j].dst = d => \E i \in DOMAIN s : s[i] = t[j]

\* They then agree on its route.
LEMMA LookupSame ==
  ASSUME NEW s, Valid(s), NEW t, Valid(t), NEW d, SameEntry(s, t, d)
  PROVE  Lookup(s, d) = Lookup(t, d)
<1>1. CASE \E i \in DOMAIN s : s[i].dst = d
  <2>1. PICK i \in DOMAIN s : s[i].dst = d
    BY <1>1
  <2>2. PICK j \in DOMAIN t : t[j] = s[i]
    BY <2>1 DEF SameEntry
  <2>3. Lookup(s, d) = s[i].nextHop
    BY <2>1, LookupFound
  <2>4. Lookup(t, d) = t[j].nextHop
    BY <2>1, <2>2, LookupFound
  <2> QED BY <2>2, <2>3, <2>4
<1>2. CASE ~\E i \in DOMAIN s : s[i].dst = d
  <2>1. \A j \in DOMAIN t : t[j].dst # d
    BY <1>2 DEF SameEntry
  <2> QED BY <1>2, <2>1, LookupMissing
<1> QED BY <1>1, <1>2

---------------------------------------------------------------------------
(* What the array operations do to it. *)

Appended(s, d, h) == Append(s, [dst |-> d, nextHop |-> h])
Changed(s, i, h) == [s EXCEPT ![i].nextHop = h]

\* A new entry at the end gives one destination its route.
LEMMA AppendRoute ==
  ASSUME NEW s, Valid(s), NEW d \in Dsts, NEW h \in Hops,
         _getIndexInRoutingTable(s, d) = {},
         NEW t, t = Appended(s, d, h)
  PROVE  /\ Valid(t)
         /\ Lookup(t, d) = h
         /\ \A e : e # d => Lookup(t, e) = Lookup(s, e)
<1> DEFINE new == [dst |-> d, nextHop |-> h]
<1>0. \A i \in DOMAIN s : s[i].dst # d
  BY DEF _getIndexInRoutingTable
<1>1. s \in Seq(Entry) /\ new \in Entry
  BY DEF Valid, Entry
<1>2. /\ t \in Seq(Entry) /\ Len(t) = Len(s) + 1
      /\ t[Len(t)] = new /\ \A i \in DOMAIN s : t[i] = s[i]
  BY <1>1 DEF Appended
<1>3. DOMAIN s = 1..Len(s) /\ DOMAIN t = 1..(Len(s) + 1) /\ Len(s) \in Nat
  BY <1>1, <1>2
<1>4. Valid(t)
  <2>1. ASSUME NEW i \in DOMAIN t, NEW j \in DOMAIN t, t[i].dst = t[j].dst
        PROVE  i = j
    <3>1. CASE i \in DOMAIN s /\ j \in DOMAIN s
      BY <1>2, <2>1, <3>1 DEF Valid, OnePerDst
    <3>2. CASE i \notin DOMAIN s /\ j \notin DOMAIN s
      BY <1>3, <2>1, <3>2
    <3>3. CASE i \in DOMAIN s /\ j \notin DOMAIN s
      BY <1>0, <1>2, <1>3, <2>1, <3>3
    <3>4. CASE i \notin DOMAIN s /\ j \in DOMAIN s
      BY <1>0, <1>2, <1>3, <2>1, <3>4
    <3> QED BY <3>1, <3>2, <3>3, <3>4
  <2> QED BY <1>2, <2>1 DEF Valid, OnePerDst
<1>5. Lookup(t, d) = h
  <2>1. Len(t) \in DOMAIN t
    BY <1>2, <1>3
  <2>2. Lookup(t, t[Len(t)].dst) = t[Len(t)].nextHop
    BY <1>4, <2>1, LookupFound
  <2>3. t[Len(t)].dst = d /\ t[Len(t)].nextHop = h
    BY <1>2
  <2> QED BY <2>2, <2>3
<1>6. ASSUME NEW e, e # d PROVE Lookup(t, e) = Lookup(s, e)
  <2>1. \A i \in DOMAIN t : t[i].dst = e => \E j \in DOMAIN s : s[j] = t[i]
    BY <1>2, <1>3, <1>6
  <2>2. \A j \in DOMAIN s : s[j].dst = e => \E i \in DOMAIN t : t[i] = s[j]
    BY <1>2, <1>3
  <2>3. SameEntry(t, s, e)
    BY <2>1, <2>2 DEF SameEntry
  <2> QED BY <1>4, <2>3, LookupSame
<1> QED BY <1>4, <1>5, <1>6

\* Where the entries of a sequence are once one of them is taken out.
LEMMA RemovedEntries ==
  ASSUME NEW s \in Seq(Entry), NEW i \in DOMAIN s
  PROVE  /\ Removed(s, i) \in Seq(Entry)
         /\ Len(Removed(s, i)) = Len(s) - 1
         /\ \A k \in 1..(Len(s) - 1) :
              Removed(s, i)[k] = IF k < i THEN s[k] ELSE s[k + 1]
<1> DEFINE f == SubSeq(s, 1, i - 1)
           g == SubSeq(s, i + 1, Len(s))
<1>1. Len(s) \in Nat /\ i \in 1..Len(s) /\ \A k \in 1..Len(s) : s[k] \in Entry
  OBVIOUS
<1>2. /\ f \in Seq(Entry) /\ Len(f) = i - 1
      /\ \A k \in 1..(i - 1) : f[k] = s[k]
  <2>1. \A k \in 1..(i - 1) : s[k] \in Entry
    BY <1>1
  <2>2. 1 \in Int /\ i - 1 \in Int
    BY <1>1
  <2>3. /\ SubSeq(s, 1, i - 1) \in Seq(Entry)
        /\ Len(SubSeq(s, 1, i - 1)) = IF 1 <= i - 1 THEN i - 1 - 1 + 1 ELSE 0
        /\ \A k \in 1..(i - 1 - 1 + 1) : SubSeq(s, 1, i - 1)[k] = s[1 + k - 1]
    BY <2>1, <2>2, SubSeqProperties
  <2> QED BY <1>1, <2>3
<1>3. /\ g \in Seq(Entry) /\ Len(g) = Len(s) - i
      /\ \A k \in 1..(Len(s) - i) : g[k] = s[i + k]
  <2>1. \A k \in (i + 1)..Len(s) : s[k] \in Entry
    BY <1>1
  <2>2. i + 1 \in Int /\ Len(s) \in Int
    BY <1>1
  <2>3. /\ SubSeq(s, i + 1, Len(s)) \in Seq(Entry)
        /\ Len(SubSeq(s, i + 1, Len(s))) = IF i + 1 <= Len(s) THEN Len(s) - (i + 1) + 1 ELSE 0
        /\ \A k \in 1..(Len(s) - (i + 1) + 1) :
             SubSeq(s, i + 1, Len(s))[k] = s[i + 1 + k - 1]
    BY <2>1, <2>2, SubSeqProperties
  <2> QED BY <1>1, <2>3
<1> HIDE DEF f, g
<1>4. /\ f \o g \in Seq(Entry) /\ Len(f \o g) = Len(f) + Len(g)
      /\ \A k \in 1..(Len(f) + Len(g)) :
           (f \o g)[k] = IF k <= Len(f) THEN f[k] ELSE g[k - Len(f)]
  BY <1>2, <1>3, ConcatProperties
<1>5. ASSUME NEW k \in 1..(Len(s) - 1)
      PROVE  (f \o g)[k] = IF k < i THEN s[k] ELSE s[k + 1]
  <2>1. CASE k < i
    BY <1>1, <1>2, <1>3, <1>4, <2>1
  <2>2. CASE ~(k < i)
    <3>1. k - (i - 1) \in 1..(Len(s) - i) /\ i + (k - (i - 1)) = k + 1
      BY <1>1, <2>2
    <3>2. (f \o g)[k] = g[k - (i - 1)]
      <4>1. k \in 1..(Len(f) + Len(g)) /\ ~(k <= Len(f)) /\ Len(f) = i - 1
        BY <1>1, <1>2, <1>3, <2>2
      <4> QED BY <1>4, <4>1
    <3> QED BY <1>3, <2>2, <3>1, <3>2
  <2> QED BY <2>1, <2>2
<1>6. Removed(s, i) = f \o g
  BY DEF Removed, Without, f, g
<1>7. Len(f \o g) = Len(s) - 1
  BY <1>1, <1>2, <1>3, <1>4
<1> QED BY <1>4, <1>5, <1>6, <1>7

\* Taking an entry out takes the route of its destination, and no other.
LEMMA RemoveRoute ==
  ASSUME NEW s, Valid(s), NEW i \in DOMAIN s, NEW t, t = Removed(s, i)
  PROVE  /\ Valid(t)
         /\ Lookup(t, s[i].dst) = NoRoute
         /\ \A e : e # s[i].dst => Lookup(t, e) = Lookup(s, e)
<1>1. s \in Seq(Entry) /\ Len(s) \in Nat /\ DOMAIN s = 1..Len(s)
  BY DEF Valid
<1>2. /\ t \in Seq(Entry) /\ DOMAIN t = 1..(Len(s) - 1)
      /\ \A k \in DOMAIN t : t[k] = IF k < i THEN s[k] ELSE s[k + 1]
  <2>1. /\ t \in Seq(Entry) /\ Len(t) = Len(s) - 1
        /\ \A k \in 1..(Len(s) - 1) : t[k] = IF k < i THEN s[k] ELSE s[k + 1]
    BY <1>1, RemovedEntries
  <2>2. DOMAIN t = 1..(Len(s) - 1)
    BY <2>1
  <2> QED BY <2>1, <2>2
<1> DEFINE src(k) == IF k < i THEN k ELSE k + 1
<1>3. \A k \in DOMAIN t : src(k) \in DOMAIN s /\ src(k) # i /\ t[k] = s[src(k)]
  BY <1>1, <1>2
<1>4. \A j, k \in DOMAIN t : src(j) = src(k) => j = k
  BY <1>1, <1>2
<1>5. \A j \in DOMAIN s : j # i => \E k \in DOMAIN t : src(k) = j
  <2>1. ASSUME NEW j \in DOMAIN s, j # i PROVE \E k \in DOMAIN t : src(k) = j
    <3>1. CASE j < i
      BY <1>1, <1>2, <2>1, <3>1
    <3>2. CASE j > i
      <4>1. j - 1 \in DOMAIN t /\ src(j - 1) = j
        BY <1>1, <1>2, <2>1, <3>2
      <4> QED BY <4>1
    <3> QED BY <1>1, <2>1, <3>1, <3>2
  <2> QED BY <2>1
<1> HIDE DEF src
<1>6. OnePerDst(s)
  BY DEF Valid
<1>7. Valid(t)
  BY <1>2, <1>3, <1>4, <1>6 DEF Valid, OnePerDst
<1>8. Lookup(t, s[i].dst) = NoRoute
  <2>1. \A k \in DOMAIN t : t[k].dst # s[i].dst
    BY <1>3, <1>6 DEF OnePerDst
  <2> QED BY <2>1, LookupMissing
<1>9. ASSUME NEW e, e # s[i].dst PROVE Lookup(t, e) = Lookup(s, e)
  <2>1. \A k \in DOMAIN t : \E j \in DOMAIN s : s[j] = t[k]
    BY <1>3
  <2>2. \A j \in DOMAIN s : s[j].dst = e => \E k \in DOMAIN t : t[k] = s[j]
    BY <1>3, <1>5, <1>9
  <2>3. SameEntry(t, s, e)
    BY <2>1, <2>2 DEF SameEntry
  <2> QED BY <1>7, <2>3, LookupSame
<1> QED BY <1>7, <1>8, <1>9

\* A new next hop in an entry changes the route of its destination only.
LEMMA ChangeRoute ==
  ASSUME NEW s, Valid(s), NEW i \in DOMAIN s, NEW h \in Hops,
         NEW t, t = Changed(s, i, h)
  PROVE  /\ Valid(t)
         /\ Lookup(t, s[i].dst) = h
         /\ \A e : e # s[i].dst => Lookup(t, e) = Lookup(s, e)
<1>1. s \in Seq(Entry) /\ OnePerDst(s) /\ \A j \in DOMAIN s : s[j] \in Entry
  BY DEF Valid
<1>2. /\ DOMAIN t = DOMAIN s /\ t[i] = [s[i] EXCEPT !.nextHop = h]
      /\ \A j \in DOMAIN s : j # i => t[j] = s[j]
  BY <1>1 DEF Changed
<1>3. t[i] \in Entry /\ t[i].nextHop = h /\ t[i].dst = s[i].dst
  BY <1>1, <1>2 DEF Entry
<1>4. \A j \in DOMAIN t : t[j] \in Entry /\ t[j].dst = s[j].dst
  BY <1>1, <1>2, <1>3
<1>5. t \in Seq(Entry)
  <2>1. i \in 1..Len(s) /\ [s[i] EXCEPT !.nextHop = h] \in Entry
    BY <1>1, <1>2, <1>3
  <2>2. t = [s EXCEPT ![i] = [s[i] EXCEPT !.nextHop = h]]
    BY DEF Changed
  <2> QED BY <1>1, <2>1, <2>2, ExceptSeq
<1>6. Valid(t)
  BY <1>1, <1>2, <1>4, <1>5 DEF Valid, OnePerDst
<1>7. Lookup(t, s[i].dst) = h
  <2>1. i \in DOMAIN t
    BY <1>2
  <2>2. Lookup(t, t[i].dst) = t[i].nextHop
    BY <1>6, <2>1, LookupFound
  <2> QED BY <1>3, <2>2
<1>8. ASSUME NEW e, e # s[i].dst PROVE Lookup(t, e) = Lookup(s, e)
  <2>1. \A j \in DOMAIN t : t[j].dst = e => \E k \in DOMAIN s : s[k] = t[j]
    BY <1>2, <1>3, <1>8
  <2>2. \A k \in DOMAIN s : s[k].dst = e => \E j \in DOMAIN t : t[j] = s[k]
    BY <1>2, <1>8
  <2>3. SameEntry(t, s, e)
    BY <2>1, <2>2 DEF SameEntry
  <2> QED BY <1>6, <2>3, LookupSame
<1> QED BY <1>6, <1>7, <1>8

---------------------------------------------------------------------------
(* The invariant. *)

\* The copy is valid when the table written to it is.
LEMMA SaveKeepsValid ==
  ASSUME IInv, Valid(table'), _saveTableToNVS(table')
  PROVE  IInv'
<1>1. CASE nvs' = (IF table' = <<>> THEN nvs ELSE table') /\ unsaved' = FALSE /\ told' = FALSE
  BY <1>1 DEF IInv, RoutesSurvive
<1>2. CASE UNCHANGED nvs /\ unsaved' = TRUE /\ told' = TRUE
  BY <1>2 DEF IInv, RoutesSurvive
<1> QED BY <1>1, <1>2 DEF _saveTableToNVS

\* The empty table is valid.
LEMMA EmptyValid == Valid(<<>>)
<1>1. <<>> \in Seq(Entry) /\ DOMAIN <<>> = {}
  OBVIOUS
<1> QED BY <1>1 DEF Valid, OnePerDst

\* What every change of one route does to the routes of the table.
LEMMA ChangeOne ==
  ASSUME IInv, NEW d \in Dsts,
         \/ \E h \in Hops : RoutingTable_addRoute(d, h) \/ ChangeHop(d, h)
         \/ RoutingTable_removeRoute(d)
  PROVE  /\ Valid(table') /\ _saveTableToNVS(table')
         /\ \E h \in Hops \union {NoRoute} :
              /\ Lookup(table', d) = h
              /\ \A e : e # d => Lookup(table', e) = Lookup(table, e)
<1>1. Valid(table)
  BY DEF IInv
<1>2. CASE \E h \in Hops : RoutingTable_addRoute(d, h)
  <2>1. PICK h \in Hops : RoutingTable_addRoute(d, h)
    BY <1>2
  <2>2. _getIndexInRoutingTable(table, d) = {}
    BY <2>1 DEF RoutingTable_addRoute, HasRoute
  <2>3. table' = Appended(table, d, h) /\ _saveTableToNVS(table')
    BY <2>1 DEF RoutingTable_addRoute, Appended
  <2>4. /\ Valid(table') /\ Lookup(table', d) = h
        /\ \A e : e # d => Lookup(table', e) = Lookup(table, e)
    BY <1>1, <2>2, <2>3, AppendRoute
  <2> QED BY <2>3, <2>4
<1>3. CASE \E h \in Hops : ChangeHop(d, h)
  <2>1. PICK h \in Hops : ChangeHop(d, h)
    BY <1>3
  <2>2. PICK i \in DOMAIN table : table[i].dst = d /\ table' = Changed(table, i, h)
    BY <2>1 DEF ChangeHop, _getIndexInRoutingTable, Changed
  <2>3. /\ Valid(table') /\ Lookup(table', table[i].dst) = h
        /\ \A e : e # table[i].dst => Lookup(table', e) = Lookup(table, e)
    BY <1>1, <2>2, ChangeRoute
  <2> QED BY <2>1, <2>2, <2>3 DEF ChangeHop
<1>4. CASE RoutingTable_removeRoute(d)
  <2>1. PICK i \in DOMAIN table : table[i].dst = d /\ table' = Removed(table, i)
    BY <1>4 DEF RoutingTable_removeRoute, _getIndexInRoutingTable
  <2>2. /\ Valid(table') /\ Lookup(table', d) = NoRoute
        /\ \A e : e # d => Lookup(table', e) = Lookup(table, e)
    BY <1>1, <2>1, RemoveRoute
  <2> QED BY <1>4, <2>2 DEF RoutingTable_removeRoute
<1> QED BY <1>2, <1>3, <1>4

\* Every step keeps the invariant.
LEMMA InvariantKept ==
  ASSUME IInv, [Next]_vars
  PROVE  IInv'
<1>1. ASSUME NEW d \in Dsts,
             \/ \E h \in Hops : RoutingTable_addRoute(d, h) \/ ChangeHop(d, h)
             \/ RoutingTable_removeRoute(d)
      PROVE  IInv'
  BY <1>1, ChangeOne, SaveKeepsValid
<1>2. ASSUME NEW d \in Dsts, NEW h \in Hops, KeepHop(d, h)
      PROVE  IInv'
  BY <1>2 DEF IInv, KeepHop, RoutesSurvive
<1>3. CASE RoutingTable_clear
  <2>1. nvs' \in {<<>>, nvs} /\ table' = <<>> /\ unsaved' \in BOOLEAN /\ told' = FALSE
    BY <1>3 DEF RoutingTable_clear
  <2> QED BY <2>1, EmptyValid DEF IInv, RoutesSurvive
<1>4. CASE Restart
  BY <1>4 DEF IInv, Restart, RoutesSurvive
<1>5. CASE UNCHANGED vars
  BY <1>5 DEF IInv, vars, RoutesSurvive
<1> QED BY <1>1, <1>2, <1>3, <1>4, <1>5 DEF Next, RoutingTable_updateRoute

\* The invariant holds in every behavior.
THEOREM TableInvariant == Spec => []IInv
<1>1. Init => IInv
  BY EmptyValid DEF Init, IInv, RoutesSurvive
<1>2. IInv /\ [Next]_vars => IInv'
  BY InvariantKept
<1> QED BY <1>1, <1>2, PTL DEF Spec

\* tfe.tex:728: a destination never has two routes, whatever is added, removed,
\* refused by the storage and brought back by restarts.
THEOREM OneRoute == Spec => []OneRoutePerDestination
<1>1. IInv => OneRoutePerDestination
  BY DEF IInv, Valid, OneRoutePerDestination
<1> QED BY <1>1, TableInvariant, PTL

\* routing_table.cpp:98-105: while there is a route and no write has failed, a
\* restart changes nothing.
THEOREM Survival == Spec => []RoutesSurvive
<1>1. IInv => RoutesSurvive
  BY DEF IInv
<1> QED BY <1>1, TableInvariant, PTL

\* routing_table.cpp:83-167: after a call the route asked for is the one found,
\* or none is, and every other route is as it was.
THEOREM CallsSetRoutes == Spec => CallsTakeEffect
<1>1. ASSUME IInv, NEW d \in Dsts, RoutingTable_removeRoute(d)
      PROVE  SetsOnly(d, NoRoute)
  <2>1. PICK i \in DOMAIN table : table[i].dst = d /\ table' = Removed(table, i)
    BY <1>1 DEF RoutingTable_removeRoute, _getIndexInRoutingTable
  <2>2. Valid(table)
    BY <1>1 DEF IInv
  <2>3. /\ Lookup(table', d) = NoRoute
        /\ \A e : e # d => Lookup(table', e) = Lookup(table, e)
    BY <2>1, <2>2, RemoveRoute
  <2> QED BY <2>3 DEF SetsOnly, RoutingTable_getRoute
<1>2. ASSUME IInv, NEW d \in Dsts, NEW h \in Hops, RoutingTable_updateRoute(d, h)
      PROVE  SetsOnly(d, h)
  <2>1. Valid(table)
    BY <1>2 DEF IInv
  <2>2. CASE RoutingTable_addRoute(d, h)
    <3>1. table' = Appended(table, d, h) /\ _getIndexInRoutingTable(table, d) = {}
      BY <2>2 DEF RoutingTable_addRoute, Appended, HasRoute
    <3>2. /\ Lookup(table', d) = h
          /\ \A e : e # d => Lookup(table', e) = Lookup(table, e)
      BY <2>1, <3>1, AppendRoute
    <3> QED BY <3>2 DEF SetsOnly, RoutingTable_getRoute
  <2>3. CASE ChangeHop(d, h)
    <3>1. PICK i \in DOMAIN table : table[i].dst = d /\ table' = Changed(table, i, h)
      BY <2>3 DEF ChangeHop, _getIndexInRoutingTable, Changed
    <3>2. /\ Lookup(table', d) = h
          /\ \A e : e # d => Lookup(table', e) = Lookup(table, e)
      BY <2>1, <3>1, ChangeRoute
    <3> QED BY <3>2 DEF SetsOnly, RoutingTable_getRoute
  <2>4. CASE KeepHop(d, h)
    BY <2>4 DEF KeepHop, SetsOnly, RoutingTable_getRoute
  <2> QED BY <1>2, <2>2, <2>3, <2>4 DEF RoutingTable_updateRoute
<1>3. IInv /\ [Next]_vars =>
        [\A d \in Dsts :
           /\ RoutingTable_removeRoute(d) => SetsOnly(d, NoRoute)
           /\ \A h \in Hops : RoutingTable_updateRoute(d, h) => SetsOnly(d, h)]_vars
  BY <1>1, <1>2
<1> QED BY <1>3, TableInvariant, PTL DEF Spec, CallsTakeEffect

---------------------------------------------------------------------------
(* The array implements the function. *)

\* A route is a next hop or none.
LEMMA LookupType ==
  ASSUME NEW s, Valid(s), NEW d
  PROVE  Lookup(s, d) \in Hops \union {NoRoute}
<1>1. CASE \E i \in DOMAIN s : s[i].dst = d
  <2>1. PICK i \in DOMAIN s : s[i].dst = d
    BY <1>1
  <2>2. s[i] \in Entry
    BY DEF Valid
  <2> QED BY <2>1, <2>2, LookupFound DEF Entry
<1>2. CASE ~\E i \in DOMAIN s : s[i].dst = d
  BY <1>2, LookupMissing
<1> QED BY <1>1, <1>2

\* The routes of a table, as the function the abstract module speaks of.
Routes(s) == [d \in Dsts |-> Lookup(s, d)]

\* The empty table has none.
LEMMA EmptyRoutes == Routes(<<>>) = Map!NoRoutes
<1>1. \A d \in Dsts : Lookup(<<>>, d) = NoRoute
  <2>1. ASSUME NEW d \in Dsts PROVE \A i \in DOMAIN <<>> : <<>>[i].dst # d
    OBVIOUS
  <2> QED BY <2>1, LookupMissing
<1> QED BY <1>1 DEF Routes, Map!NoRoutes

\* A change of one destination is a change of the function.
LEMMA ChangeMaps ==
  ASSUME IInv, NEW d \in Dsts,
         \/ \E h \in Hops : RoutingTable_addRoute(d, h) \/ ChangeHop(d, h)
         \/ RoutingTable_removeRoute(d)
  PROVE  \E h \in Hops \union {NoRoute} : Map!Change(d, h)
<1>1. PICK h \in Hops \union {NoRoute} :
        /\ Lookup(table', d) = h
        /\ \A e : e # d => Lookup(table', e) = Lookup(table, e)
  BY ChangeOne
<1>2. Routes(table') = [Routes(table) EXCEPT ![d] = h]
  BY <1>1 DEF Routes
<1>3. nvs' = table' \/ (nvs' = nvs /\ (SaveMayFail \/ table' = <<>>))
  BY ChangeOne DEF _saveTableToNVS
<1>4. \/ Routes(nvs') = Routes(table')
      \/ (SaveMayFail \/ Routes(table') = Map!NoRoutes) /\ Routes(nvs') = Routes(nvs)
  BY <1>3, EmptyRoutes
<1>5. Map!Change(d, h)
  BY <1>2, <1>4 DEF Map!Change, Routes
<1> QED BY <1>5

\* Every step is a step of the abstract table or leaves it alone.
LEMMA StepMaps ==
  ASSUME IInv, [Next]_vars
  PROVE  [Map!Next]_(Map!vars)
<1>1. ASSUME NEW d \in Dsts,
             \/ \E h \in Hops : RoutingTable_addRoute(d, h) \/ ChangeHop(d, h)
             \/ RoutingTable_removeRoute(d)
      PROVE  Map!Next
  BY <1>1, ChangeMaps DEF Map!Next
<1>2. ASSUME UNCHANGED <<table, nvs>> PROVE UNCHANGED Map!vars
  BY <1>2 DEF Map!vars
<1>3. ASSUME NEW d \in Dsts, NEW h \in Hops, KeepHop(d, h)
      PROVE  UNCHANGED Map!vars
  BY <1>2, <1>3 DEF KeepHop
<1>4. CASE RoutingTable_clear
  <2>1. /\ Routes(table') = Map!NoRoutes
        /\ \/ Routes(nvs') = Map!NoRoutes
           \/ SaveMayFail /\ Routes(nvs') = Routes(nvs)
    BY <1>4, EmptyRoutes DEF RoutingTable_clear
  <2> QED BY <2>1 DEF Map!Next, Map!Clear, Routes
<1>5. CASE Restart
  BY <1>5 DEF Restart, Map!Next, Map!Restart
<1>6. CASE UNCHANGED vars
  BY <1>2, <1>6 DEF vars
<1> QED BY <1>1, <1>3, <1>4, <1>5, <1>6 DEF Next, RoutingTable_updateRoute

\* routing_table.cpp:71-177: the array with its linear search, shifts and copy
\* in the storage is a function from destinations to next hops.
THEOREM TableImplementsRouteMap == Spec => ImplementsRouteMap
<1>1. Init => Map!Init
  <2>1. Routes(<<>>) \in [Dsts -> Hops \union {NoRoute}]
    BY EmptyValid, LookupType DEF Routes
  <2> QED BY <2>1 DEF Init, Map!Init, Routes
<1>2. IInv /\ [Next]_vars => [Map!Next]_(Map!vars)
  BY StepMaps
<1> QED BY <1>1, <1>2, TableInvariant, PTL DEF Spec, ImplementsRouteMap, Map!Spec
=============================================================================
