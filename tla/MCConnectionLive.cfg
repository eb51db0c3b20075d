\* Liveness: one line address, two contexts.
SPECIFICATION Spec
CONSTANTS
  Lines = {l1}
  NoLine = NoLine
  Contexts = {k1, k2}
  NoContext = NoContext
  Stale = Stale
PROPERTIES
  CloseReturns
  MessagesEnd
  ContextsEnd
