SPECIFICATION Spec
CONSTANTS
  Calls = {c1, c2}
  NoCall = NoCall
  Channels = {s1, s2}
  NoChannel = NoChannel
  MaxObjects = 2
INVARIANT
  HangupIsForThisCall
