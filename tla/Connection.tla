----------------------------- MODULE Connection -----------------------------
(***************************************************************************)
(* The service's connection contexts (nuacomsrv/Server.cpp) between the     *)
(* line object that asked for one and the websocket that feeds it           *)
(* (nuacomsrv/WebsocketAPI.cpp).                                            *)
(*                                                                          *)
(* A line object connects under the provider lock of TAPI (NONREENTRANT),   *)
(* by an RPC that makes a ConnectionContext.  Its websocket has a network   *)
(* thread of its own; for each message that thread opens the line through   *)
(* TAPI, sends the message to the line object with lineDevSpecific, which   *)
(* needs the provider lock, and closes the line.  Whoever closes the line   *)
(* last makes TAPI call TSPI_lineClose, and with it Disconnect, which       *)
(* deletes the context at once and leaves the websocket to a thread of its  *)
(* own.  TAPISRV and the service may each die and be started again.         *)
(*                                                                          *)
(* What a line object does with calls is in Drvline; TAPI, the RPC run time *)
(* and the websocket library are modelled as the code uses them.            *)
(***************************************************************************)
EXTENDS Naturals

CONSTANTS
  Lines,    \* addresses of line objects (DRVLINE), reused by the heap
  NoLine,
  Contexts, \* bound: contexts and websockets in the service at a time
  NoContext, Stale  \* a line's m_hConn: none, or one from a service that is gone

ASSUME ConnectionAssumption ==
  /\ NoLine \notin Lines
  /\ "app" \notin Contexts /\ "leaked" \notin Contexts
  /\ NoContext \notin Contexts /\ Stale \notin Contexts /\ NoContext # Stale

VARIABLES
  \* TAPISRV
  line,      \* the line object there is
  handles,   \* who has the line open: "app", a context's thread, "leaked"
  lock,      \* the provider lock: "free", or what TAPI is calling under it
  hConn,     \* the line object's m_hConn; bConnected is hConn # NoContext
  \* the service
  g_bConnected,
  state,     \* per context: where in its life
  callback,  \* per context: hCallback, the line object it belongs to
  orphan,    \* contexts whose client process died
  ws,        \* per context: its websocket
  net,       \* per context: where the websocket's network thread is
  this       \* per context: the object that SendString is in, see SendOpen

tapiVars == <<line, handles, lock, hConn>>
contextVars == <<g_bConnected, state, callback, orphan>>
vars == <<tapiVars, contextVars, ws, net, this>>

Init ==
  /\ line = NoLine /\ handles = {} /\ lock = "free" /\ hConn = NoContext
  /\ g_bConnected = FALSE
  /\ state = [c \in Contexts |-> "free"]
  /\ callback = [c \in Contexts |-> NoLine]
  /\ orphan = {}
  /\ ws = [c \in Contexts |-> "none"]
  /\ net = [c \in Contexts |-> "idle"]
  /\ this = [c \in Contexts |-> c]

\* The ConnectionContext object exists.
Allocated(c) == state[c] \in {"new", "live"}

-----------------------------------------------------------------------------
(* TAPI: opening and closing the line *)

\* TSPI_lineOpen is called for the first opener only.
OpenLine(opener) ==
  /\ lock = "free"
  /\ handles' = handles \cup {opener}
  /\ IF line = NoLine THEN line' \in Lines ELSE UNCHANGED line
  /\ UNCHANGED <<lock, hConn>>

\* TSPI_lineClose is called for the last.
CloseLine(opener) ==
  /\ lock = "free"
  /\ handles' = handles \ {opener}
  /\ lock' = IF handles' = {} THEN "close" ELSE "free"
  /\ UNCHANGED <<line, hConn>>

AppOpen ==
  /\ "app" \notin handles
  /\ OpenLine("app")
  /\ UNCHANGED <<contextVars, ws, net, this>>

AppClose ==
  /\ "app" \in handles
  /\ CloseLine("app")
  /\ UNCHANGED <<contextVars, ws, net, this>>

-----------------------------------------------------------------------------
(* ConnectToServer, from TSPI_lineMakeCall of a line not yet connected *)

AppMakeCall ==
  /\ "app" \in handles /\ lock = "free" /\ hConn = NoContext
  /\ lock' = "connect"
  /\ UNCHANGED <<line, handles, hConn, contextVars, ws, net, this>>

\* No configuration (the context is lost) or no session token (it is deleted).
ConnectFails ==
  /\ lock = "connect" /\ ~\E c \in Contexts : state[c] = "new" /\ c \notin orphan
  /\ lock' = "free"
  /\ UNCHANGED <<line, handles, hConn, contextVars, ws, net, this>>

\* Mutant: the context gets another handle in the place of hCallback.
ConnectToServer_swapped(c, ConnectToWS) ==
  /\ lock = "connect" /\ state[c] = "free"
  /\ ~\E k \in Contexts : state[k] = "new" /\ k \notin orphan
  /\ state' = [state EXCEPT ![c] = "new"]
  /\ callback' = [callback EXCEPT ![c] = c]
  /\ ws' = [ws EXCEPT ![c] = IF ConnectToWS THEN "open" ELSE "none"]
  /\ UNCHANGED <<tapiVars, g_bConnected, orphan, net, this>>

ConnectToServer(c, ConnectToWS) ==
  /\ lock = "connect" /\ state[c] = "free"
  /\ ~\E k \in Contexts : state[k] = "new" /\ k \notin orphan
  /\ state' = [state EXCEPT ![c] = "new"]
  /\ callback' = [callback EXCEPT ![c] = line]
  /\ ws' = [ws EXCEPT ![c] = IF ConnectToWS THEN "open" ELSE "none"]
  /\ UNCHANGED <<tapiVars, g_bConnected, orphan, net, this>>

\* Mutant: the flag is set with or without a websocket.
ConnectReturns_always(c) ==
  /\ state[c] = "new"
  /\ state' = [state EXCEPT ![c] = "live"]
  /\ g_bConnected' = TRUE
  /\ IF c \in orphan THEN UNCHANGED tapiVars
     ELSE lock' = "free" /\ hConn' = c /\ UNCHANGED <<line, handles>>
  /\ UNCHANGED <<callback, orphan, ws, net, this>>

\* The websocket may already be feeding the line when the flag is set and the
\* handle goes back to the client, if that is still there.
ConnectReturns(c) ==
  /\ state[c] = "new"
  /\ state' = [state EXCEPT ![c] = "live"]
  /\ g_bConnected' = (g_bConnected \/ ws[c] = "open")
  /\ IF c \in orphan THEN UNCHANGED tapiVars
     ELSE lock' = "free" /\ hConn' = c /\ UNCHANGED <<line, handles>>
  /\ UNCHANGED <<callback, orphan, ws, net, this>>

-----------------------------------------------------------------------------
(* Disconnect: the websocket is left to CloseWebsocketAsync, the context      *)
(* deleted, and then the flag cleared.                                        *)

\* Mutant: CloseWebsocket is called, not CloseWebsocketAsync.
Disconnect_sync(c) ==
  /\ state[c] = "live" /\ net[c] = "idle"
  /\ state' = [state EXCEPT ![c] = "dropping"]
  /\ ws' = [ws EXCEPT ![c] = IF @ = "open" THEN "closing" ELSE @]
  /\ UNCHANGED <<g_bConnected, callback, orphan, net, this>>

\* Mutant: the websocket is not closed.
Disconnect_left(c) ==
  /\ state[c] = "live"
  /\ state' = [state EXCEPT ![c] = "dropping"]
  /\ UNCHANGED <<g_bConnected, callback, orphan, ws, net, this>>

Disconnect(c) ==
  /\ state[c] = "live"
  /\ state' = [state EXCEPT ![c] = "dropping"]
  /\ ws' = [ws EXCEPT ![c] = IF @ = "open" THEN "closing" ELSE @]
  /\ UNCHANGED <<g_bConnected, callback, orphan, net, this>>

DisconnectReturns(c) ==
  /\ state[c] = "dropping"
  /\ state' = [state EXCEPT ![c] = IF ws[c] = "none" THEN "free" ELSE "gone"]
  /\ g_bConnected' = FALSE
  /\ hConn' = IF hConn = c THEN NoContext ELSE hConn
  /\ orphan' = orphan \ {c}
  /\ UNCHANGED <<line, handles, lock, callback, ws, net, this>>

TSPI_lineClose ==
  /\ lock = "close" /\ hConn \in Contexts
  /\ Disconnect(hConn)
  /\ UNCHANGED tapiVars

\* Mutant: the line object goes whether it has disconnected or not.
Disconnected_assumed == TRUE

\* There is nothing to disconnect, it is done, or the RPC failed.
Disconnected == hConn \notin Contexts

\* The line object is deleted, and the lineClose that led to it returns.
DeleteLine ==
  /\ lock = "close" /\ Disconnected
  /\ line' = NoLine /\ lock' = "free" /\ hConn' = NoContext
  /\ net' = [c \in Contexts |-> IF net[c] = "closing" THEN "idle" ELSE net[c]]
  /\ UNCHANGED <<handles, contextVars, ws, this>>

-----------------------------------------------------------------------------
(* The websocket's network thread: room_Calls, ConnectionContext::ProcessMessage *)
(* and SendString.  The library may call it until the websocket is stopped, the  *)
(* context being deleted or not.                                                 *)

NetStep(c, from, to) == net[c] = from /\ net' = [net EXCEPT ![c] = to]

Receive(c) ==
  /\ ws[c] \in {"open", "closing"}
  /\ NetStep(c, "idle", "message")
  /\ UNCHANGED <<tapiVars, contextVars, ws, this>>

\* Mutant: the session of a context is not shut down with it.
HasTapi_kept(c) == state[c] # "free" /\ c \notin orphan

\* m_appHandle is a session with the TAPISRV there is: the destructor shuts it down.
HasTapi(c) == Allocated(c) /\ c \notin orphan

\* The session that lineOpen finds in the context; when that is freed memory, it may be
\* that of a context made since in the same place.
HasSession(c, k) == HasTapi(k) /\ (k = c \/ ~Allocated(c))

\* lineOpen, which needs the provider lock.
SendOpen(c) ==
  /\ NetStep(c, "message", "opened")
  /\ OpenLine(c)
  /\ \E k \in Contexts : HasSession(c, k) /\ this' = [this EXCEPT ![c] = k]
  /\ UNCHANGED <<contextVars, ws>>

\* lineOpen fails: without a session always, if the service does not die of it
\* (ServiceRestart).
SendOpenFails(c) ==
  /\ NetStep(c, "message", "idle")
  /\ UNCHANGED <<tapiVars, contextVars, ws, this>>

\* malloc fails, and the line handle is never closed.
SendLeaks(c) ==
  /\ NetStep(c, "opened", "idle")
  /\ handles' = (handles \ {c}) \cup {"leaked"}
  /\ this' = [this EXCEPT ![c] = c]
  /\ UNCHANGED <<line, lock, hConn, contextVars, ws>>

\* lineDevSpecific, which carries hCallback to TSPI_lineDevSpecific.
SendMessage(c) ==
  /\ NetStep(c, "opened", "delivering")
  /\ lock = "free" /\ lock' = "message"
  /\ UNCHANGED <<line, handles, hConn, contextVars, ws, this>>

\* Mutant: the handle is not closed when lineDevSpecific fails.
SendMessageFails_leaks(c) ==
  /\ NetStep(c, "opened", "idle")
  /\ UNCHANGED <<tapiVars, contextVars, ws, this>>

\* lineDevSpecific returns an error, and the line is closed.
SendMessageFails(c) ==
  /\ NetStep(c, "opened", "sent")
  /\ UNCHANGED <<tapiVars, contextVars, ws, this>>

\* No reply in 300 seconds, or lineGetMessage fails, or another message has the request's
\* number: the line is closed although its message may be with the line object still.
WaitForReply(c) ==
  /\ NetStep(c, "delivering", "sent")
  /\ UNCHANGED <<tapiVars, contextVars, ws, this>>

\* TSPI_lineDevSpecific returns, to a service that waits for the reply, has given it up or
\* is gone.
MessageReturns ==
  /\ lock = "message"
  /\ lock' = IF handles = {} THEN "close" ELSE "free"
  /\ net' = [c \in Contexts |-> IF net[c] = "delivering" THEN "sent" ELSE net[c]]
  /\ UNCHANGED <<line, handles, hConn, contextVars, ws, this>>

\* lineClose; the last one waits for TSPI_lineClose.
SendClose(c) ==
  /\ CloseLine(c)
  /\ NetStep(c, "sent", IF handles' = {} THEN "closing" ELSE "idle")
  /\ this' = [this EXCEPT ![c] = c]
  /\ UNCHANGED <<contextVars, ws>>

-----------------------------------------------------------------------------
(* CloseWebsocket, on the thread CloseWebsocketAsync began: the ding thread is  *)
(* joined, then the client is deleted, which ends its network thread.           *)

StopWebsocket(c) ==
  /\ ws[c] = "closing"
  /\ ws' = [ws EXCEPT ![c] = "stopping"]
  /\ UNCHANGED <<tapiVars, contextVars, net, this>>

\* Mutant: the websocket is deleted and its network thread not waited for.
CloseWebsocket_early(c) ==
  /\ ws[c] = "stopping" /\ state[c] = "gone"
  /\ ws' = [ws EXCEPT ![c] = "none"]
  /\ state' = [state EXCEPT ![c] = "free"]
  /\ UNCHANGED <<tapiVars, g_bConnected, callback, orphan, net, this>>

CloseWebsocket(c) ==
  /\ ws[c] = "stopping" /\ net[c] = "idle" /\ state[c] = "gone"
  /\ ws' = [ws EXCEPT ![c] = "none"]
  /\ state' = [state EXCEPT ![c] = "free"]
  /\ UNCHANGED <<tapiVars, g_bConnected, callback, orphan, net, this>>

-----------------------------------------------------------------------------
(* A process dies and is started again. *)

\* The service keeps the contexts; TAPI calls its threads are in fail.
TapiRestart ==
  /\ line' = NoLine /\ handles' = {} /\ lock' = "free" /\ hConn' = NoContext
  /\ orphan' = {c \in Contexts : state[c] \in {"new", "live", "dropping"}}
  /\ net' = [c \in Contexts |-> IF net[c] = "message" THEN "message" ELSE "idle"]
  /\ this' = [c \in Contexts |-> c]
  /\ UNCHANGED <<g_bConnected, state, callback, ws>>

\* PCONTEXT_HANDLE_TYPE_rundown, at some time after the client's death.
Rundown(c) ==
  /\ c \in orphan
  /\ Disconnect(c)
  /\ UNCHANGED tapiVars

\* RPCs in progress fail; TAPI closes the line handles the service had.
ServiceRestart ==
  /\ \E c \in Contexts : state[c] # "free"
  /\ handles' = handles \cap {"app"}
  /\ hConn' = IF hConn = NoContext THEN NoContext ELSE Stale
  /\ lock' = CASE lock = "message" -> "message"
               [] lock \in {"free", "connect"} /\ (line = NoLine \/ handles' # {}) -> "free"
               [] OTHER -> "close"
  /\ g_bConnected' = FALSE
  /\ state' = [c \in Contexts |-> "free"]
  /\ orphan' = {}
  /\ ws' = [c \in Contexts |-> "none"]
  /\ net' = [c \in Contexts |-> "idle"]
  /\ this' = [c \in Contexts |-> c]
  /\ UNCHANGED <<line, callback>>

-----------------------------------------------------------------------------
\* A message that gets on: a call of TAPI gets the provider lock, or lineOpen finds no session.
NoSession(c) == SendOpenFails(c) /\ ~\E k \in Contexts : HasSession(c, k)
SendProceeds(c) == SendOpen(c) \/ NoSession(c) \/ SendMessage(c) \/ SendClose(c)

SendFails(c) == SendOpenFails(c) \/ SendLeaks(c) \/ SendMessageFails(c) \/ WaitForReply(c)

Send(c) == SendProceeds(c) \/ SendFails(c)

Rpc ==
  \/ ConnectFails \/ MessageReturns \/ TSPI_lineClose \/ DeleteLine
  \/ \E c \in Contexts :
       \/ \E ConnectToWS \in BOOLEAN : ConnectToServer(c, ConnectToWS)
       \/ ConnectReturns(c) \/ DisconnectReturns(c)

Next ==
  \/ AppOpen \/ AppClose \/ AppMakeCall \/ Rpc \/ TapiRestart \/ ServiceRestart
  \/ \E c \in Contexts :
       Receive(c) \/ Send(c) \/ StopWebsocket(c) \/ CloseWebsocket(c) \/ Rundown(c)

\* A started RPC, close or message is carried on with; the provider lock, when it is free
\* again and again, is in the end given to a thread waiting for it.  No call of TAPI has to
\* fail, no reply to be late: a thread that waits for the lock is not helped out by that.
Fairness ==
  /\ WF_vars(Rpc)
  /\ \A c \in Contexts :
       SF_vars(SendProceeds(c)) /\ WF_vars(StopWebsocket(c)) /\ WF_vars(CloseWebsocket(c))

Spec == Init /\ [][Next]_vars /\ Fairness

-----------------------------------------------------------------------------
(* Properties *)

TypeOK ==
  /\ line \in Lines \cup {NoLine}
  /\ handles \subseteq {"app", "leaked"} \cup Contexts
  /\ lock \in {"free", "connect", "message", "close"}
  /\ hConn \in Contexts \cup {NoContext, Stale}
  /\ g_bConnected \in BOOLEAN
  /\ state \in [Contexts -> {"free", "new", "live", "dropping", "gone"}]
  /\ callback \in [Contexts -> Lines \cup {NoLine}]
  /\ orphan \subseteq Contexts
  /\ ws \in [Contexts -> {"none", "open", "closing", "stopping"}]
  /\ net \in [Contexts -> {"idle", "message", "opened", "delivering", "sent", "closing"}]
  /\ this \in [Contexts -> Contexts]

\* The pointer a context sends with each message, hCallback, is the line object
\* there is, as long as the context exists: the line disconnects before it goes.
ContextHasItsLine ==
  \A c \in Contexts : Allocated(c) /\ c \notin orphan => line # NoLine /\ callback[c] = line

\* GetConnectionStatus does not report a connection when no context with a
\* websocket is left, but for the moment Disconnect takes.
StatusIsBacked ==
  g_bConnected => \E c \in Contexts : \/ state[c] = "live" /\ ws[c] = "open"
                                      \/ state[c] = "dropping"

\* A message is sent on a line that is there and stays so until its lineClose, whatever
\* the application closes meanwhile; and the pointer that it carries, which
\* TSPI_lineDevSpecific takes for a line object, is that line's: also when a restart or
\* a new line has put another object in the place, and when the context is freed memory.
Sending(c) == net[c] \in {"opened", "delivering", "sent"}

MessageReachesItsLine ==
  \A c \in Contexts :
    Sending(c) => line # NoLine /\ lock # "close" /\ callback[this[c]] = line

\* A context's place in the service is given up with its websocket ended: no
\* network thread is left that would call into it.
FreeContextIsQuiet ==
  \A c \in Contexts : state[c] = "free" => ws[c] = "none" /\ net[c] = "idle"

\* A client has one context, and the handle it disconnects is of that: it names the very
\* line object that is being closed, up to the moment Disconnect returns, although places
\* of line objects and of contexts are used again and older clients' contexts linger.
OneContextPerLine ==
  /\ \A c, d \in Contexts \ orphan : Allocated(c) /\ Allocated(d) => c = d
  /\ hConn \in Contexts => callback[hConn] = line

\* Nobody waits in a circle: the thread in lineDevSpecific waits for a provider that is in
\* its message, the one in the last lineClose for one that is closing the line; that waits
\* for a context that its own RPC, or nobody's, deletes; and a websocket whose context is
\* gone has a thread that closes it.
WaitsAreServed ==
  /\ \A c \in Contexts : net[c] = "delivering" => lock = "message"
  /\ \A c \in Contexts : net[c] = "closing" => lock = "close"
  /\ \A c, d \in Contexts : {net[c], net[d]} \subseteq {"delivering", "closing"} => c = d
  /\ lock = "close" /\ hConn \in Contexts => state[hConn] \in {"live", "dropping"}
  /\ \A c \in Contexts : state[c] = "gone" => ws[c] \in {"closing", "stopping"}
  /\ \A c \in Contexts : ws[c] = "stopping" => state[c] \in {"dropping", "gone"}

\* Once the client is being deleted its network thread has one message to finish and no
\* other begins: the thread that closes the websocket waits for five steps at most.
NetLeft == [message |-> 5, opened |-> 4, delivering |-> 3, sent |-> 2, closing |-> 1, idle |-> 0]

StoppedWebsocketDrains ==
  [][\A c \in Contexts : ws[c] = "stopping" =>
       net'[c] = net[c] \/ NetLeft[net'[c]] < NetLeft[net[c]]]_vars

\* The line handle that SendString opens is in use by it, or is closed, whichever call of
\* TAPI failed and whatever came too late; only a failed malloc leaks it.
HandlesAreClosed == \A c \in Contexts : c \in handles => Sending(c)

\* TSPI_lineClose returns, and with it the provider lock, even when the message
\* thread of the context it deletes is the one that waits for it.
CloseReturns == (lock = "close") ~> (lock # "close")

\* Every message gets to its end and every context disconnected is given up.
MessagesEnd == \A c \in Contexts : (net[c] # "idle") ~> (net[c] = "idle")
ContextsEnd == \A c \in Contexts : (state[c] = "gone") ~> (state[c] # "gone")

\* The websocket of every context lives as Feed says, and as Websocket keeps it:
\* whatever happens to contexts and lines, it is closed once, and a message that is
\* on its way to the line is awaited before its websocket goes.
FeedOf(c) ==
  INSTANCE Feed WITH phase <- ws[c], message <- IF net[c] = "idle" THEN "none" ELSE "with"

FeedStep(c) == FeedOf(c)!Next \/ UNCHANGED FeedOf(c)!vars

ImplementsFeed == (\A c \in Contexts : FeedOf(c)!Init) /\ [][\A c \in Contexts : FeedStep(c)]_vars

\* The line and its context behave as Session says, and as Drvline takes them to.
S == INSTANCE Session WITH
       line    <- IF line = NoLine THEN "none" ELSE "there",
       session <- CASE lock = "close" \/ hConn = NoContext -> "none"
                    [] lock # "close" /\ hConn = Stale -> "lost"
                    [] lock # "close" /\ hConn \in Contexts -> "live",
       busy    <- IF lock \in {"message", "close"} THEN lock ELSE "free"

ImplementsSession == S!Spec

-----------------------------------------------------------------------------
\* config.cpp:111 tells the user "Nuacom TAPI status has changed to
\* disconnected" when g_bConnected is cleared: then no context is connected.
\* A rundown of an earlier client's context clears it under a later one.
DisconnectedMeansNone ==
  ~g_bConnected => \A c \in Contexts : ~(state[c] = "live" /\ ws[c] = "open" /\ c \notin orphan)

\* Only the rundown of an earlier client's context makes the flag say "disconnected"
\* of a client whose websocket is open.
OnlyRundownMisleads ==
  [][DisconnectedMeansNone /\ ~DisconnectedMeansNone'
       => \E c \in orphan : DisconnectReturns(c)]_vars
=============================================================================
