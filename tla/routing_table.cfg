SPECIFICATION Spec
CONSTANTS
  Dsts = {d1, d2, d3}
  Hops = {h1, h2}
  NoRoute = NoRoute
  SaveMayFail = TRUE
INVARIANTS OneRoutePerDestination RoutesSurvive
PROPERTIES ImplementsRouteMap CallsTakeEffect
