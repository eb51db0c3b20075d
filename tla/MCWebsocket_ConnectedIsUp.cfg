SPECIFICATION Spec
INVARIANT
  ConnectedIsUp
CHECK_DEADLOCK FALSE
