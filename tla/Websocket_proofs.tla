--------------------------- MODULE Websocket_proofs ---------------------------
(***************************************************************************)
(* Proofs about Websocket.                                                  *)
(*                                                                          *)
(* While the service is up, three facts make the properties inductive: what *)
(* the network thread has left of reconnectThread when it assigns it        *)
(* (ListenerInv), what is left of the threads at each place of the closer   *)
(* (CloserInv), and what the connection is when no network thread runs      *)
(* (NetworkInv).  A place the closer reaches with another reconnect thread  *)
(* than it left there is reached only with late set (LateInv).              *)
(***************************************************************************)
EXTENDS Websocket, TLAPS

ListenerInv ==
  /\ network = "assign" /\ ~Destroyed => reconnect = "none"
  /\ reconnect = "stray" => Destroyed

CloserInv ==
  /\ closer \in {"test", "join", "delete", "client", "done"} => ding = "ended"
  /\ Destroyed => reconnect \in {"none", "stray"}

NetworkInv ==
  /\ network \notin {"run", "message"} => connection \in {"none", "closed"}
  /\ Destroyed => connection \notin {"opening", "open"}
  /\ connection = "closing" => Destroyed
  /\ closer = "none" => connection = "none" /\ network = "none" /\ reconnect = "none"

LateInv ==
  \/ late = "yes"
  \/ /\ reconnect # "stray"
     /\ closer = "join" => reconnect # "none"
     /\ closer = "delete" => reconnect = "none"

WebsocketInv ==
  /\ OnlyLateListenerKills
  /\ service = "up" => ListenerInv /\ CloserInv /\ NetworkInv /\ LateInv

-----------------------------------------------------------------------------
LEMMA Initially == Init => TypeOK /\ WebsocketInv
  BY DEF Init, TypeOK, WebsocketInv, OnlyLateListenerKills, ListenerInv, CloserInv, NetworkInv,
         LateInv, Destroyed

\* Each step keeps the types.
LEMMA TypeStep == TypeOK /\ [Next]_vars => TypeOK'
<1> SUFFICES ASSUME TypeOK, [Next]_vars PROVE TypeOK'
  OBVIOUS
<1> USE DEF TypeOK, vars
<1>1. CASE ConnectToWebsocket
  BY <1>1 DEF ConnectToWebsocket, Connect
<1>2. CASE CloseWebsocket
  BY <1>2 DEF CloseWebsocket, Closer
<1>3. CASE DingThread
  BY <1>3 DEF DingThread, DingTests, DingEmits
<1>4. CASE NetworkThread \/ Receive
  BY <1>4 DEF NetworkThread, Receive, Opens, Fails, ProcessMessage, Ends, EndsUnopened,
              ListenerJoins, ListenerAssigns, Network, Dies
<1>5. CASE ReconnectThread
  BY <1>5 DEF ReconnectThread, ReconnectTests, Reconnects, Connect, Dies
<1>6. CASE CloserThread
  BY <1>6 DEF CloserThread, JoinDing, TestReconnect, JoinReconnect, DeleteContext, DeleteClient,
              Closer, Dies
<1>7. CASE UNCHANGED vars
  BY <1>7
<1>8. QED
  BY <1>1, <1>2, <1>3, <1>4, <1>5, <1>6, <1>7 DEF Next

\* Each step keeps what is left of the threads as the closer and the listener rely on.
LEMMA InvStep == TypeOK /\ WebsocketInv /\ [Next]_vars => WebsocketInv'
<1> SUFFICES ASSUME TypeOK, WebsocketInv, [Next]_vars PROVE WebsocketInv'
  OBVIOUS
<1> USE DEF TypeOK, vars, WebsocketInv, OnlyLateListenerKills, ListenerInv, CloserInv, NetworkInv,
            LateInv, Destroyed, terminating
<1>1. CASE UNCHANGED vars
  BY <1>1
<1>2. CASE Next
  <2> service = "up"
    BY <1>2 DEF Next
  <2>1. CASE ConnectToWebsocket
    BY <2>1 DEF ConnectToWebsocket, Connect
  <2>2. CASE CloseWebsocket
    BY <2>2 DEF CloseWebsocket, Closer
  <2>3. CASE DingThread
    BY <2>3 DEF DingThread, DingTests, DingEmits
  <2>4. CASE Receive \/ Opens \/ Fails \/ ProcessMessage \/ Ends \/ EndsUnopened
    BY <2>4 DEF Receive, Opens, Fails, ProcessMessage, Ends, EndsUnopened, Network
  <2>5. CASE ListenerJoins
    BY <2>5 DEF ListenerJoins, Network, Dies
  <2>6. CASE ListenerAssigns
    BY <2>6 DEF ListenerAssigns, Network
  <2>7. CASE ReconnectTests
    BY <2>7 DEF ReconnectTests, Dies
  <2>8. CASE Reconnects
    BY <2>8 DEF Reconnects, Connect
  <2>9. CASE JoinDing \/ TestReconnect
    BY <2>9 DEF JoinDing, TestReconnect, Closer
  <2>10. CASE JoinReconnect
    BY <2>10 DEF JoinReconnect, Closer, Dies
  <2>11. CASE DeleteContext
    BY <2>11 DEF DeleteContext, Closer, Dies
  <2>12. CASE DeleteClient
    BY <2>12 DEF DeleteClient, Closer
  <2>13. QED
    BY <1>2, <2>1, <2>2, <2>3, <2>4, <2>5, <2>6, <2>7, <2>8, <2>9, <2>10, <2>11, <2>12
    DEF Next, NetworkThread, ReconnectThread, CloserThread
<1>3. QED
  BY <1>1, <1>2

LEMMA Invariant == Spec => [](TypeOK /\ WebsocketInv)
<1>1. TypeOK /\ WebsocketInv /\ [Next]_vars => (TypeOK /\ WebsocketInv)'
  BY TypeStep, InvStep
<1>2. QED
  BY <1>1, Initially, PTL DEF Spec

-----------------------------------------------------------------------------
\* The variables keep their types.
THEOREM TypeCorrect == Spec => []TypeOK
  BY Invariant, PTL

\* The threads of a websocket end the process only when the connection ends while
\* CloseWebsocket is closing it.
THEOREM KilledByLateListener == Spec => []OnlyLateListenerKills
<1>1. WebsocketInv => OnlyLateListenerKills
  BY DEF WebsocketInv
<1>2. QED
  BY <1>1, Invariant, PTL

\* The ding thread has ended when the client is deleted, and so has every reconnect thread
\* that the close listener did not begin while CloseWebsocket ran.
THEOREM ThreadsEnded == Spec => []ThreadsEndFirst
<1>1. TypeOK /\ WebsocketInv => ThreadsEndFirst
  BY DEF TypeOK, WebsocketInv, CloserInv, LateInv, ThreadsEndFirst, Destroyed
<1>2. QED
  BY <1>1, Invariant, PTL

\* A closed websocket is not opened again.
THEOREM StaysClosed == Spec => ClosedStaysClosed
<1> DEFINE Stays ==
      connection' = "opening" => closer \notin {"client", "done"} \/ connection = "opening"
<1>1. TypeOK /\ WebsocketInv /\ [Next]_vars => [Stays]_vars
  <2> SUFFICES ASSUME TypeOK, WebsocketInv, Next, connection' = "opening", connection # "opening"
               PROVE closer \notin {"client", "done"}
    OBVIOUS
  <2> service = "up"
    BY DEF Next
  <2>1. ConnectToWebsocket \/ Reconnects
    BY DEF Next, ConnectToWebsocket, CloseWebsocket, DingThread, DingTests, DingEmits,
           NetworkThread, Receive, Opens, Fails, ProcessMessage, Ends, EndsUnopened, ListenerJoins,
           ListenerAssigns, ReconnectThread, ReconnectTests, Reconnects, CloserThread, JoinDing,
           TestReconnect, JoinReconnect, DeleteContext, DeleteClient
  <2>2. QED
    BY <2>1 DEF ConnectToWebsocket, Reconnects, WebsocketInv, CloserInv, Destroyed
<1>2. QED
  BY <1>1, Invariant, PTL DEF Spec, ClosedStaysClosed

-----------------------------------------------------------------------------
(* Who waits for whom, and for how long *)

LEMMA WaitsStep == TypeOK /\ WebsocketInv /\ WaitsAreServed /\ [Next]_vars => WaitsAreServed'
<1> SUFFICES ASSUME TypeOK, WebsocketInv, WaitsAreServed, Next PROVE WaitsAreServed'
  BY DEF WaitsAreServed, vars, Destroyed
<1> service = "up"
  BY DEF Next
<1> USE DEF TypeOK, WaitsAreServed, WebsocketInv, ListenerInv, CloserInv, NetworkInv, Destroyed,
            terminating
<1>1. CASE ConnectToWebsocket \/ CloseWebsocket \/ DingThread
  BY <1>1 DEF ConnectToWebsocket, Connect, CloseWebsocket, Closer, DingThread, DingTests, DingEmits
<1>2. CASE NetworkThread \/ Receive
  BY <1>2 DEF NetworkThread, Receive, Opens, Fails, ProcessMessage, Ends, EndsUnopened,
              ListenerJoins, ListenerAssigns, Network, Dies
<1>3. CASE ReconnectThread
  BY <1>3 DEF ReconnectThread, ReconnectTests, Reconnects, Connect, Dies
<1>4. CASE JoinDing \/ TestReconnect \/ JoinReconnect
  BY <1>4 DEF JoinDing, TestReconnect, JoinReconnect, Closer, Dies
<1>5. CASE DeleteContext \/ DeleteClient
  BY <1>5 DEF DeleteContext, DeleteClient, Closer, Dies
<1> QED
  BY <1>1, <1>2, <1>3, <1>4, <1>5 DEF Next, CloserThread

LEMMA Waits == Spec => []WaitsAreServed
<1>1. Init => WaitsAreServed
  BY DEF Init, WaitsAreServed, Destroyed
<1> QED
  BY <1>1, WaitsStep, Invariant, PTL DEF Spec

\* No thread of a websocket waits for one that may not go on without it.
THEOREM NobodyInACircle == Spec => []WaitsAreServed
  BY Waits

\* The parts of Left are numbers, as long as a websocket is there.
LEMMA LeftTypes ==
  ASSUME TypeOK
  PROVE  /\ CloserLeft[closer] \in 0..5 /\ DingLeft[ding] \in 0..2
         /\ ReconnectLeft[reconnect] \in 0..10 /\ NetworkLeft \in 0..8
         /\ reconnect \notin {"started", "connect"} => ReconnectLeft[reconnect] \in 0..1
         /\ network = "none" => NetworkLeft = 0
<1>1. /\ CloserLeft[closer] \in 0..5 /\ DingLeft[ding] \in 0..2
      /\ ReconnectLeft[reconnect] \in 0..10
      /\ reconnect \notin {"started", "connect"} => ReconnectLeft[reconnect] \in 0..1
  BY DEF TypeOK, CloserLeft, DingLeft, ReconnectLeft
<1>2. NetworkLeft \in 0..8 /\ (network = "none" => NetworkLeft = 0)
  <2>1. network \in {"none", "run", "message", "listener", "assign"}
    BY DEF TypeOK
  <2> QED
    BY <2>1 DEF NetworkLeft
<1> QED
  BY <1>1, <1>2

\* Each step of a websocket that is being closed is work done, or a message's.
LEMMA ClosingStep ==
  ASSUME TypeOK, TypeOK', WebsocketInv, WaitsAreServed, Next, terminating
  PROVE  \/ Left' \in 0..(Left - 1) /\ Left \in 0..17
         \/ {network, network'} = {"run", "message"} /\ Left' = Left
<1> DEFINE Message == {network, network'} = {"run", "message"} /\ Left' = Left
<1>up. service = "up"
  BY DEF Next
<1>n. /\ CloserLeft[closer] \in 0..5 /\ DingLeft[ding] \in 0..2
      /\ ReconnectLeft[reconnect] \in 0..10 /\ NetworkLeft \in 0..8
      /\ reconnect \notin {"started", "connect"} => ReconnectLeft[reconnect] \in 0..1
      /\ network = "none" => NetworkLeft = 0
  BY LeftTypes
<1>m. /\ CloserLeft[closer'] \in 0..5 /\ DingLeft[ding'] \in 0..2
      /\ ReconnectLeft[reconnect'] \in 0..10 /\ NetworkLeft' \in 0..8
  <2>1. /\ CloserLeft[closer'] \in 0..5 /\ DingLeft[ding'] \in 0..2
        /\ ReconnectLeft[reconnect'] \in 0..10
    BY DEF TypeOK, CloserLeft, DingLeft, ReconnectLeft
  <2>2. network' \in {"none", "run", "message", "listener", "assign"}
    BY DEF TypeOK
  <2> QED
    BY <2>1, <2>2 DEF NetworkLeft
<1>b. Left \in 0..17
  BY <1>n, <1>up DEF WaitsAreServed, Left
<1>w. Left' \in Nat
  BY <1>m DEF Left
<1> SUFFICES Left' < Left \/ Message
  BY <1>b, <1>w
<1> USE DEF terminating
\* The threads' own steps.
<1>1. CASE DingThread
  <2>1. UNCHANGED <<closer, reconnect, network, connection>> /\ DingLeft[ding'] < DingLeft[ding]
    BY <1>1 DEF DingThread, DingTests, DingEmits, DingLeft
  <2>2. NetworkLeft' = NetworkLeft
    BY <2>1 DEF NetworkLeft
  <2> QED
    BY <2>1, <2>2, <1>n, <1>m DEF Left
<1>2. CASE Receive \/ ProcessMessage
  <2>1. /\ UNCHANGED <<closer, ding, reconnect, connection>>
        /\ {network, network'} = {"run", "message"}
    BY <1>2 DEF Receive, ProcessMessage, Network
  <2>2. NetworkLeft' = NetworkLeft
    BY <2>1 DEF NetworkLeft
  <2> QED
    BY <2>1, <2>2 DEF Left
<1>3. CASE Opens \/ Fails \/ Ends \/ EndsUnopened
  <2>1. UNCHANGED <<closer, ding, reconnect>> /\ NetworkLeft' < NetworkLeft
    BY <1>3 DEF Opens, Fails, Ends, EndsUnopened, Network, NetworkLeft
  <2> QED
    BY <2>1, <1>n, <1>m DEF Left
\* The close listener and the thread it begins, which connects anew at most once.
<1>4. CASE ListenerJoins
  <2>1. /\ UNCHANGED <<closer, ding>> /\ NetworkLeft' = 3 /\ NetworkLeft = 4
        /\ reconnect' = reconnect \/ (reconnect = "ended" /\ reconnect' = "none")
    BY <1>4 DEF ListenerJoins, Network, NetworkLeft
  <2>2. ReconnectLeft[reconnect'] <= ReconnectLeft[reconnect]
    BY <2>1, <1>n DEF ReconnectLeft
  <2> QED
    BY <2>1, <2>2, <1>n, <1>m DEF Left
<1>5. CASE ListenerAssigns
  <2>1. /\ UNCHANGED <<closer, ding>> /\ NetworkLeft' = 0 /\ NetworkLeft = 3
        /\ reconnect' \in {"stray", "started"}
    BY <1>5 DEF ListenerAssigns, Network, NetworkLeft
  <2>2. ReconnectLeft[reconnect'] \in {1, 2}
    BY <2>1 DEF ReconnectLeft
  <2> QED
    BY <2>1, <2>2, <1>n, <1>m DEF Left
<1>6. CASE ReconnectTests
  <2>1. /\ UNCHANGED <<closer, ding, connection, network>>
        /\ \/ reconnect = "started" /\ reconnect' = "ended"
           \/ reconnect = "stray" /\ reconnect' = "none"
    BY <1>6 DEF ReconnectTests
  <2>2. NetworkLeft' = NetworkLeft /\ ReconnectLeft[reconnect'] < ReconnectLeft[reconnect]
    BY <2>1 DEF NetworkLeft, ReconnectLeft
  <2> QED
    BY <2>1, <2>2, <1>n, <1>m DEF Left
<1>7. CASE Reconnects
  <2>1. /\ UNCHANGED <<closer, ding>> /\ reconnect = "connect" /\ reconnect' = "ended"
        /\ NetworkLeft = 0 /\ NetworkLeft' = 8
    BY <1>7 DEF Reconnects, Connect, NetworkLeft
  <2>2. ReconnectLeft[reconnect] = 10 /\ ReconnectLeft[reconnect'] = 1
    BY <2>1 DEF ReconnectLeft
  <2> QED
    BY <2>1, <2>2, <1>n, <1>m DEF Left
\* The closer's steps, and the deletion, which makes the connection end.
<1>8. CASE CloserThread
  <2>1. UNCHANGED <<ding, network>> /\ CloserLeft[closer'] < CloserLeft[closer]
    BY <1>8 DEF CloserThread, JoinDing, TestReconnect, JoinReconnect, DeleteContext, DeleteClient,
                Closer, CloserLeft
  <2>2. reconnect' = reconnect \/ (reconnect = "ended" /\ reconnect' = "none")
    BY <1>8 DEF CloserThread, JoinDing, TestReconnect, JoinReconnect, DeleteContext, DeleteClient
  <2>3. ReconnectLeft[reconnect'] <= ReconnectLeft[reconnect]
    BY <2>2, <1>n DEF ReconnectLeft
  <2>4. connection' = connection \/ connection' = "closing"
    BY <1>8 DEF CloserThread, JoinDing, TestReconnect, JoinReconnect, DeleteContext, DeleteClient
  <2>5. NetworkLeft' <= NetworkLeft
    <3>1. network \in {"none", "run", "message", "listener", "assign"} /\ network' = network
      BY <2>1 DEF TypeOK
    <3> QED
      BY <2>4, <3>1 DEF NetworkLeft
  <2> QED
    BY <2>1, <2>3, <2>5, <1>n, <1>m DEF Left
<1>9. CASE ConnectToWebsocket \/ CloseWebsocket
  BY <1>9 DEF ConnectToWebsocket, CloseWebsocket, Closer
<1> QED
  BY <1>1, <1>2, <1>3, <1>4, <1>5, <1>6, <1>7, <1>8, <1>9
  DEF Next, NetworkThread, ReconnectThread

\* CloseWebsocket takes 17 steps of the four threads at most, besides the messages that come
\* in before the client is deleted: the safety half of CloserEnds.
THEOREM ClosingIsBounded == Spec => ClosingRunsOut
<1> DEFINE RunsOut == terminating =>
                        \/ Left' \in 0..(Left - 1) /\ Left \in 0..17
                        \/ {network, network'} = {"run", "message"} /\ Left' = Left
<1>1. (TypeOK /\ WebsocketInv /\ WaitsAreServed) /\ TypeOK' /\ [Next]_vars => [RunsOut]_vars
  BY ClosingStep
<1> QED
  BY <1>1, Invariant, Waits, PTL DEF Spec, ClosingRunsOut

-----------------------------------------------------------------------------
(* What takes a websocket down *)

\* A step of a websocket that has not been closed: the closer is where it was.
LEMMA DownStep ==
  ASSUME TypeOK, WebsocketInv, WaitsAreServed, Next
  PROVE  /\ ConnectedIsUp /\ ~ConnectedIsUp' => Fails
         /\ ~ConnectedIsUp /\ closer' = "handle" => ~ConnectedIsUp'
<1> DEFINE Down == /\ ConnectedIsUp /\ ~ConnectedIsUp' => Fails
                   /\ ~ConnectedIsUp /\ closer' = "handle" => ~ConnectedIsUp'
<1>up. service = "up"
  BY DEF Next
<1> USE <1>up DEF TypeOK, ConnectedIsUp, WebsocketInv, NetworkInv, ListenerInv, WaitsAreServed,
                  Destroyed, terminating
<1>1. CASE ConnectToWebsocket \/ CloseWebsocket \/ DingThread
  BY <1>1 DEF ConnectToWebsocket, Connect, CloseWebsocket, Closer, DingThread, DingTests, DingEmits
<1>2. CASE Fails
  <2>1. closer' = closer /\ connection = "opening"
    BY <1>2 DEF Fails
  <2> QED
    BY <1>2, <2>1
<1>3. CASE Opens \/ Receive \/ ProcessMessage \/ Ends \/ EndsUnopened
  BY <1>3 DEF Opens, Receive, ProcessMessage, Ends, EndsUnopened, Network
<1>4. CASE ListenerJoins \/ ListenerAssigns
  BY <1>4 DEF ListenerJoins, ListenerAssigns, Network
<1>5. CASE ReconnectThread
  BY <1>5 DEF ReconnectThread, ReconnectTests, Reconnects, Connect
<1>6. CASE CloserThread
  BY <1>6 DEF CloserThread, JoinDing, TestReconnect, JoinReconnect, DeleteContext, DeleteClient,
              Closer
<1> QED
  BY <1>1, <1>2, <1>3, <1>4, <1>5, <1>6 DEF Next, NetworkThread

\* A websocket goes down under its context by OnFailListener alone, and for good.
THEOREM DownByFailure == Spec => OnlyFailureTakesDown
<1> DEFINE Down == /\ ConnectedIsUp /\ ~ConnectedIsUp' => Fails
                   /\ ~ConnectedIsUp /\ closer' = "handle" => ~ConnectedIsUp'
<1>1. (TypeOK /\ WebsocketInv /\ WaitsAreServed) /\ [Next]_vars => [Down]_vars
  BY DownStep
<1> QED
  BY <1>1, Invariant, Waits, PTL DEF Spec, OnlyFailureTakesDown

-----------------------------------------------------------------------------
(* Websocket implements Feed *)

LEMMA FeedInit == Init => TheFeed!Init
  BY DEF Init, TheFeed!Init, phase, message

LEMMA FeedStep == TypeOK /\ WebsocketInv /\ [Next]_vars => [TheFeed!Next]_TheFeed!vars
<1> SUFFICES ASSUME TypeOK, WebsocketInv, [Next]_vars PROVE [TheFeed!Next]_TheFeed!vars
  OBVIOUS
<1> USE DEF TypeOK, vars, WebsocketInv, NetworkInv, CloserInv, Destroyed, phase, message,
            TheFeed!Next, TheFeed!vars
<1>1. CASE UNCHANGED vars
  BY <1>1
<1>2. CASE Next
  <2> service = "up"
    BY <1>2 DEF Next
  <2>1. CASE ConnectToWebsocket
    BY <2>1 DEF ConnectToWebsocket, Connect, TheFeed!ConnectToWebsocket
  <2>2. CASE CloseWebsocket
    BY <2>2 DEF CloseWebsocket, Closer, TheFeed!CloseWebsocket
  <2>3. CASE DingThread
    BY <2>3 DEF DingThread, DingTests, DingEmits
  <2>4. CASE Receive
    BY <2>4 DEF Receive, Network, TheFeed!Receive
  <2>5. CASE ProcessMessage
    BY <2>5 DEF ProcessMessage, Network, TheFeed!ProcessMessage
  <2>6. CASE Opens \/ Fails \/ Ends \/ EndsUnopened
    BY <2>6 DEF Opens, Fails, Ends, EndsUnopened, Network
  <2>7. CASE ListenerJoins \/ ListenerAssigns
    BY <2>7 DEF ListenerJoins, ListenerAssigns, Network, Dies, TheFeed!ServiceEnds
  <2>8. CASE ReconnectTests
    BY <2>8 DEF ReconnectTests, Dies, TheFeed!ServiceEnds
  <2>9. CASE Reconnects
    BY <2>9 DEF Reconnects, Connect
  <2>10. CASE JoinDing \/ TestReconnect
    BY <2>10 DEF JoinDing, TestReconnect, Closer
  <2>11. CASE JoinReconnect
    BY <2>11 DEF JoinReconnect, Closer, Dies, TheFeed!ServiceEnds
  <2>12. CASE DeleteContext
    BY <2>12 DEF DeleteContext, Closer, Dies, TheFeed!StopWebsocket, TheFeed!ServiceEnds
  <2>13. CASE DeleteClient
    BY <2>13 DEF DeleteClient, Closer, TheFeed!DeleteWebsocket
  <2>14. QED
    BY <1>2, <2>1, <2>2, <2>3, <2>4, <2>5, <2>6, <2>7, <2>8, <2>9, <2>10, <2>11, <2>12, <2>13
    DEF Next, NetworkThread, ReconnectThread, CloserThread
<1>3. QED
  BY <1>1, <1>2

\* The websocket, its threads in every interleaving, is what the service relies on.
THEOREM IsAFeed == Spec => ImplementsFeed
<1>1. TheFeed!Spec <=> TheFeed!Init /\ [][TheFeed!Next]_TheFeed!vars
  BY DEF TheFeed!Spec
<1>2. QED
  BY <1>1, FeedInit, FeedStep, Invariant, PTL DEF Spec, ImplementsFeed
=============================================================================
