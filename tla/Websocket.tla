------------------------------ MODULE Websocket ------------------------------
(***************************************************************************)
(* The life of one websocket (nuacomsrv/WebsocketAPI.cpp): the client of the *)
(* socket library h, the ding thread, the reconnect thread and the thread   *)
(* that closes it.                                                          *)
(*                                                                          *)
(* The library calls listeners on its network thread; connect waits for a   *)
(* network thread that is ending and does nothing while one is at work, and *)
(* the client's destructor closes the connection, close listener included,  *)
(* and waits for the network thread.  When the connection has ended the     *)
(* close listener waits for the last reconnect thread and begins another.   *)
(* No lock protects the members: CloseWebsocket tests, joins and destroys   *)
(* reconnectThread while the close listener may assign it.  A thread object *)
(* destroyed unjoined, joined twice, or assigned when its context is freed, *)
(* is undefined or ends the process: then service is "dead".                *)
(***************************************************************************)
EXTENDS Naturals

VARIABLES
  closer,      \* CloseWebsocket: "none" before ConnectToWebsocket, "handle" before it is
               \* called, then where it is
  ding,        \* dingThread: "none", at its "test", in its "sleep" or "ended"
  reconnect,   \* reconnectThread: "none" to join, where it is, or "stray" in no object
  connection,  \* of the client: "none", "opening", "open", "closing" or "closed"
  network,     \* the network thread: "none", or where it is
  service,     \* "up", or "dead" by a misuse of a thread
  late         \* history: the close listener ran when CloseWebsocket did

vars == <<closer, ding, reconnect, connection, network, service, late>>

terminating == closer \notin {"none", "handle"}

Init ==
  /\ closer = "none" /\ ding = "none" /\ reconnect = "none"
  /\ connection = "none" /\ network = "none"
  /\ service = "up" /\ late = "no"

Dies == service' = "dead"

-----------------------------------------------------------------------------
(* ConnectToWebsocket *)

\* The connect of h: on a client whose connection is closed and its thread ended.
Connect == network = "none" /\ connection' = "opening" /\ network' = "run"

ConnectToWebsocket ==
  /\ closer = "none" /\ Connect
  /\ closer' = "handle" /\ ding' = "test"
  /\ UNCHANGED <<reconnect, service, late>>

\* The ding thread tests terminating, sleeps six seconds and sends its ding.
DingTests ==
  /\ ding = "test" /\ ding' = IF terminating THEN "ended" ELSE "sleep"
  /\ UNCHANGED <<closer, reconnect, connection, network, service, late>>

DingEmits ==
  /\ ding = "sleep" /\ ding' = "test"
  /\ UNCHANGED <<closer, reconnect, connection, network, service, late>>

DingThread == DingTests \/ DingEmits

-----------------------------------------------------------------------------
(* The network thread *)

Network(from, to) == network = from /\ network' = to

Opens ==
  /\ connection = "opening" /\ Network("run", "run")
  /\ connection' = "open"
  /\ UNCHANGED <<closer, ding, reconnect, service, late>>

\* OnFailListener does nothing, and the thread ends.
Fails ==
  /\ connection = "opening" /\ Network("run", "none")
  /\ connection' = "closed"
  /\ UNCHANGED <<closer, ding, reconnect, service, late>>

\* room_Calls: ProcessMessage is called.
Receive ==
  /\ connection = "open" /\ Network("run", "message")
  /\ UNCHANGED <<closer, ding, reconnect, connection, service, late>>

ProcessMessage ==
  /\ Network("message", "run")
  /\ UNCHANGED <<closer, ding, reconnect, connection, service, late>>

\* The other side, or the client's destructor, ends the connection.
Ends ==
  /\ connection \in {"open", "closing"} /\ Network("run", "listener")
  /\ connection' = "closed"
  /\ UNCHANGED <<closer, ding, reconnect, service, late>>

\* A client that is destroyed before it was open may end without its listener.
EndsUnopened ==
  /\ connection = "closing" /\ Network("run", "none")
  /\ connection' = "closed"
  /\ UNCHANGED <<closer, ding, reconnect, service, late>>

Destroyed == closer \in {"client", "done"}

\* Mutant: the close listener does not join the thread before.
ListenerJoins_unjoined ==
  /\ Network("listener", "assign")
  /\ UNCHANGED <<closer, ding, reconnect, connection, service, late>>

\* The close listener joins the reconnect thread there is; CloseWebsocket may be
\* joining it at the same time.
ListenerJoins ==
  /\ Network("listener", "assign")
  /\ IF reconnect = "none" \/ Destroyed THEN UNCHANGED <<reconnect, service>>
     ELSE /\ reconnect = "ended"
          /\ reconnect' = "none"
          /\ service' = service \/ (closer = "join" /\ Dies)
  /\ late' = IF terminating THEN "yes" ELSE late
  /\ UNCHANGED <<closer, ding, connection>>

\* It assigns a new one; in a context whose members are destroyed, to no object.
ListenerAssigns ==
  /\ Network("assign", "none")
  /\ reconnect' = IF Destroyed THEN "stray" ELSE "started"
  /\ service' = IF reconnect \in {"none", "stray"} THEN service ELSE "dead"
  /\ late' = IF terminating THEN "yes" ELSE late
  /\ UNCHANGED <<closer, ding, connection>>

-----------------------------------------------------------------------------
(* The reconnect thread *)

\* Mutant: terminating is not tested.
ReconnectTests_untested ==
  /\ reconnect \in {"started", "stray"}
  /\ reconnect' = "connect"
  /\ UNCHANGED <<closer, ding, connection, network, service, late>>

\* One that was begun in the destructor may read terminating of freed memory.
ReconnectTests ==
  /\ \/ /\ reconnect = "started"
        /\ reconnect' = IF terminating THEN "ended" ELSE "connect"
        /\ UNCHANGED service
     \/ /\ reconnect = "stray" /\ reconnect' = "none"
        /\ service' = service \/ (closer = "done" /\ Dies)
  /\ UNCHANGED <<closer, ding, connection, network, late>>

\* Mutant: the thread ends before it connects.
Reconnects_not ==
  /\ reconnect = "connect" /\ reconnect' = "ended"
  /\ UNCHANGED <<closer, ding, connection, network, service, late>>

Reconnects ==
  /\ reconnect = "connect" /\ reconnect' = "ended"
  /\ Connect
  /\ UNCHANGED <<closer, ding, service, late>>

-----------------------------------------------------------------------------
(* CloseWebsocket *)

Closer(from, to) == closer = from /\ closer' = to

CloseWebsocket ==
  /\ Closer("handle", "ding")
  /\ UNCHANGED <<ding, reconnect, connection, network, service, late>>

\* Mutant: the ding thread is not waited for.
JoinDing_not ==
  /\ Closer("ding", "test")
  /\ UNCHANGED <<ding, reconnect, connection, network, service, late>>

JoinDing ==
  /\ ding = "ended" /\ Closer("ding", "test")
  /\ UNCHANGED <<ding, reconnect, connection, network, service, late>>

\* Mutant: the reconnect thread is not joined.
TestReconnect_not ==
  /\ Closer("test", "delete")
  /\ UNCHANGED <<ding, reconnect, connection, network, service, late>>

\* reconnectThread.joinable
TestReconnect ==
  /\ Closer("test", IF reconnect = "none" THEN "delete" ELSE "join")
  /\ UNCHANGED <<ding, reconnect, connection, network, service, late>>

\* join; when the close listener has joined it, it may throw.
JoinReconnect ==
  /\ Closer("join", "delete")
  /\ IF reconnect = "none" THEN UNCHANGED reconnect /\ (service' = service \/ Dies)
     ELSE reconnect = "ended" /\ reconnect' = "none" /\ UNCHANGED service
  /\ UNCHANGED <<ding, connection, network, late>>

\* delete: the threads' objects, and then the client, which closes its connection.
DeleteContext ==
  /\ Closer("delete", "client")
  /\ IF reconnect # "none" THEN Dies /\ UNCHANGED connection
     ELSE /\ UNCHANGED service
          /\ connection' = IF network \in {"run", "message"} THEN "closing" ELSE connection
  /\ UNCHANGED <<ding, reconnect, network, late>>

\* Mutant: the client's network thread is left alone.
DeleteClient_early ==
  /\ Closer("client", "done")
  /\ UNCHANGED <<ding, reconnect, connection, network, service, late>>

DeleteClient ==
  /\ network = "none" /\ Closer("client", "done")
  /\ UNCHANGED <<ding, reconnect, connection, network, service, late>>

-----------------------------------------------------------------------------
NetworkThread ==
  \/ Opens \/ Fails \/ ProcessMessage \/ Ends \/ EndsUnopened \/ ListenerJoins \/ ListenerAssigns

\* What the network thread does on without the other side.
NetworkGoesOn ==
  \/ ProcessMessage \/ (connection = "closing" /\ (Ends \/ EndsUnopened))
  \/ ListenerJoins \/ ListenerAssigns

ReconnectThread == ReconnectTests \/ Reconnects

CloserThread ==
  JoinDing \/ TestReconnect \/ JoinReconnect \/ DeleteContext \/ DeleteClient

Next ==
  /\ service = "up"
  /\ \/ ConnectToWebsocket \/ CloseWebsocket
     \/ DingThread \/ NetworkThread \/ Receive \/ ReconnectThread \/ CloserThread

\* The service's own threads run on; nothing is assumed of the other side.
Fairness ==
  /\ WF_vars(service = "up" /\ DingThread)
  /\ WF_vars(service = "up" /\ NetworkGoesOn)
  /\ WF_vars(service = "up" /\ ReconnectThread)
  /\ WF_vars(service = "up" /\ CloserThread)

Spec == Init /\ [][Next]_vars /\ Fairness

-----------------------------------------------------------------------------
(* Properties *)

\* The variables keep their types, and there is a ding thread with every handle.
TypeOK ==
  /\ closer \in {"none", "handle", "ding", "test", "join", "delete", "client", "done"}
  /\ ding \in {"none", "test", "sleep", "ended"}
  /\ closer # "none" => ding # "none"
  /\ reconnect \in {"none", "started", "connect", "ended", "stray"}
  /\ connection \in {"none", "opening", "open", "closing", "closed"}
  /\ network \in {"none", "run", "message", "listener", "assign"}
  /\ service \in {"up", "dead"} /\ late \in {"no", "yes"}

\* The service dies of its threads only when the connection ends while CloseWebsocket
\* is closing it: a connection that comes and goes any number of times, and any close
\* of it that no close listener falls into, is safe without a lock.
OnlyLateListenerKills == service = "dead" => late = "yes"

\* When the client is being deleted the context's own threads have ended: the ding thread
\* always, and every reconnect thread unless the close listener ran while CloseWebsocket
\* did: then the destructor's listener may leave one in no object, that outlives the
\* context and reads its freed memory.
ThreadsEndFirst ==
  closer \in {"client", "done"} /\ service = "up" =>
    /\ ding = "ended"
    /\ reconnect = "none" \/ (reconnect = "stray" /\ late = "yes")

\* A closed websocket stays closed: the reconnect thread does not open it again under
\* or after the destructor, although it reads terminating without a lock.
ClosedStaysClosed ==
  [][connection' = "opening" => closer \notin {"client", "done"} \/ connection = "opening"]_vars

\* CloseWebsocket comes to its end, or the process does: the threads that join one
\* another, the closer, the reconnect thread, the network thread and its listener,
\* never wait in a circle.
CloserEnds == closer = "ding" ~> closer = "done" \/ service = "dead"

\* A connection that has ended is opened again, each time, unless it is being closed.
Reopens == network = "listener" ~> connection = "opening" \/ terminating

\* Nobody waits in a circle: the close listener never waits for a reconnect thread, and a
\* reconnect thread never for the network thread, as the one is at work only when the
\* other is not; and when the client's destructor waits, the connection is ending.
WaitsAreServed ==
  service = "up" =>
    /\ network = "listener" => Destroyed \/ reconnect \in {"none", "ended"}
    /\ reconnect \in {"started", "connect"} => network = "none"
    /\ Destroyed /\ network \in {"run", "message"} => connection = "closing"

\* What the four threads still have to do once CloseWebsocket is called: the network thread
\* may have to end, call its listener and begin one more reconnect thread.
CloserLeft ==
  [none |-> 0, handle |-> 0, ding |-> 5, test |-> 4, join |-> 3, delete |-> 2, client |-> 1,
   done |-> 0]
DingLeft == [none |-> 0, sleep |-> 2, test |-> 1, ended |-> 0]
ReconnectLeft == [none |-> 0, connect |-> 10, started |-> 2, stray |-> 1, ended |-> 1]
NetworkLeft ==
  CASE network = "none" -> 0
    [] network = "assign" -> 3
    [] network = "listener" -> 4
    [] network \in {"run", "message"} ->
         IF connection = "opening" THEN 8 ELSE IF connection = "open" THEN 6 ELSE 5
Left == CloserLeft[closer] + DingLeft[ding] + ReconnectLeft[reconnect] + NetworkLeft

\* Closing is in steps that run out, 17 at most: none of the threads brings work back for
\* another, whatever the other side does, but for messages that come in between.
ClosingRunsOut ==
  [][terminating =>
       \/ Left' \in 0..(Left - 1) /\ Left \in 0..17
       \/ {network, network'} = {"run", "message"} /\ Left' = Left]_vars

\* What the service relies on of a websocket: see Feed.
phase ==
  IF service = "dead" \/ closer \in {"none", "done"} THEN "none"
  ELSE IF closer = "handle" THEN "open"
  ELSE IF closer = "client" THEN "stopping" ELSE "closing"

message == IF service = "up" /\ network = "message" THEN "with" ELSE "none"

TheFeed == INSTANCE Feed

ImplementsFeed == TheFeed!Spec

-----------------------------------------------------------------------------
\* config.cpp:109: the tray says "Nuacom TAPI status has changed to connected" when the
\* context has its websocket: then that is open, or about to be.  A connection that
\* could not be opened calls OnFailListener, which does nothing.
ConnectedIsUp ==
  closer = "handle" =>
    \/ connection \in {"opening", "open"}
    \/ network # "none" \/ reconnect \in {"started", "connect"}

\* Only a connection that could not be opened takes a websocket down while the context has
\* it, one that was opened and ended never; and what is down stays down until it is closed.
OnlyFailureTakesDown ==
  [][/\ ConnectedIsUp /\ ~ConnectedIsUp' => Fails
     /\ ~ConnectedIsUp /\ closer' = "handle" => ~ConnectedIsUp']_vars
=============================================================================
