\* Safety: two line addresses, three contexts.
SPECIFICATION Spec
CONSTANTS
  Lines = {l1, l2}
  NoLine = NoLine
  Contexts = {k1, k2, k3}
  NoContext = NoContext
  Stale = Stale
SYMMETRY Symmetry
INVARIANTS
  MessageReachesItsLine
  StatusIsBacked
  WaitsAreServed
  HandlesAreClosed
PROPERTIES
  ImplementsFeed
  ImplementsSession
