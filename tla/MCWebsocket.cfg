SPECIFICATION Spec
INVARIANTS
  OnlyLateListenerKills
  ThreadsEndFirst
PROPERTIES
  ClosedStaysClosed
  CloserEnds
  Reopens
  ImplementsFeed
CHECK_DEADLOCK FALSE
