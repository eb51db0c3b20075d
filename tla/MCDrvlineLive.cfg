\* Liveness: two calls, no channel (hangups are not what is asked), messages of one
\* call object.
SPECIFICATION Spec
CONSTANTS
  Calls = {c1, c2}
  NoCall = NoCall
  Channels = {}
  NoChannel = NoChannel
  MaxObjects = 1
PROPERTIES
  DialingEnds
  OperationsReturn
  LineCallSpec
