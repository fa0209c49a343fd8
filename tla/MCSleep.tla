------------------------------ MODULE MCSleep ------------------------------
(* SleepChain on a line of three nodes. *)
EXTENDS SleepChain

\* Clocks that are exact, and clocks that may be late by one unit.
Exact == {0}
Late  == {0, 1}
=============================================================================
