\* Two clients, two starts, reports that may fail; safety and liveness.
SPECIFICATION FairSpec
CONSTANTS
  Callers = {c1, c2}
  MaxStarts = 2
  ScmMayFail = TRUE
INVARIANTS
  RunningIsListening
  StoppedIsQuiet
  FailedStartNeverRuns
PROPERTIES
  StatusesInOrder
  StopEnds
  RemoverEnds
  CtrlCStops
CHECK_DEADLOCK FALSE
