----------------------------- MODULE MCRouting -----------------------------
(* Routing on small networks. *)
EXTENDS Routing, TLC

CONSTANTS a, b, g, p, q, r, s

\* a - b - g, where g is the gateway.
Line ==
  (a :> (a :> NoRoute @@ b :> b @@ g :> b @@ Gateway :> b)) @@
  (b :> (a :> a @@ b :> NoRoute @@ g :> g @@ Gateway :> g)) @@
  (g :> (a :> b @@ b :> b @@ g :> NoRoute @@ Gateway :> Gateway))

Lines == {Line}

SomeTraffic == {<<a, Gateway, p>>, <<g, a, p>>, <<g, Gateway, q>>}

\* b forgets the gateway, or sends back to a what is for it; the gateway sends
\* through the server what is for a.
SomeUpdates == {<<b, Gateway, NoRoute>>, <<b, Gateway, a>>, <<g, a, Gateway>>}
=============================================================================
