---------------------------- MODULE MCTransport ----------------------------
(* Transport on small instances. *)
EXTENDS Transport, TLC

CONSTANTS a, b, c

\* The gateway reaches its other end through LoRaWAN.
GatewayUplinks == {<<b, Gateway>>}

\* It reaches the two other nodes through the server as well.
DetourUplinks == GatewayUplinks \union {<<b, a>>, <<b, c>>}

\* Segments are told apart by their identifiers only.
IDSymmetry == Permutations(IDs)
=============================================================================
