\* Safety: two calls, two channels, messages of up to two call objects.
SPECIFICATION Spec
CONSTANTS
  Calls = {c1, c2}
  NoCall = NoCall
  Channels = {s1, s2}
  NoChannel = NoChannel
  MaxObjects = 2
SYMMETRY Symmetry
INVARIANTS
  HeldCallIsCurrent
  ProviderReportsACall
  InboundLeavesOutbound
  AnsweredInTime
  DialingIsWatched
  WatchdogWithinLine
PROPERTIES
  OnlyFailedCallsAreLost
  ImplementsSession
