SPECIFICATION Spec
CONSTANTS
  Lines = {l1}
  NoLine = NoLine
  Contexts = {k1, k2}
  NoContext = NoContext
  Stale = Stale
INVARIANT
  DisconnectedMeansNone
