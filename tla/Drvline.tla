------------------------------- MODULE Drvline -------------------------------
(***************************************************************************)
(* One line device of the TAPI service provider (nuacom/nuacom.cpp): the    *)
(* DRVLINE object, the TSPI entry points that act on it, the messages the   *)
(* service forwards to it and its watchdog thread.                          *)
(*                                                                          *)
(* Two threads run here.  TAPI declares the provider NONREENTRANT           *)
(* (nuacom.cpp:1128), so all entry points, message delivery included        *)
(* (TSPI_lineDevSpecific), run one at a time: pc is the place the current   *)
(* one has reached, "idle" between two of them.  The watchdog thread runs   *)
(* at any time: wd is the place it has reached.  A handler is cut into      *)
(* steps only where the watchdog can come between.                          *)
(*                                                                          *)
(* A remote call (rpcw) returns, with any result the service can give.      *)
(* Time is abstract: the watchdog's timeout may end at any moment.          *)
(***************************************************************************)
EXTENDS Naturals

CONSTANTS
  Calls,      \* TAPI's call handles (HTAPICALL)
  NoCall,     \* the NULL handle
  Channels,   \* SIP channels the PBX names in a message
  NoChannel,  \* the empty channel, or none in the message
  MaxObjects  \* bound: call objects in one message

ASSUME ConstantsAssumption ==
  /\ NoCall \notin Calls
  /\ NoChannel \notin Channels
  /\ MaxObjects \in Nat \ {0}

VARIABLES
  gbHandleIncomingCalls,  \* the registry's setting, read when the DLL is loaded
  \* the DRVLINE object
  open,          \* the object exists
  htCall, dwCallState, bIncomingCall, bConnected, localChannel, msgData,
  event,         \* m_hEvent is set
  \* the threads
  pc, objects,   \* entry point in progress, call objects it still has to read
  wd,            \* the watchdog thread
  \* the environment
  held,          \* calls TAPI has given an application and not yet closed
  ctx,           \* this line's context in the service
  \* history: what the properties compare with, read by no action
  hangup,        \* what the last hangup request named
  origin,        \* how the current call came to be
  ownChannel,    \* localChannel was learnt during the current call
  answered       \* a report came while the watchdog was still waiting

callVars == <<htCall, bIncomingCall, held, origin>>
dataVars == <<localChannel, ownChannel, msgData>>
linkVars == <<gbHandleIncomingCalls, open, bConnected, ctx>>
wdVars   == <<wd, answered>>
vars == <<callVars, dataVars, linkVars, wdVars, hangup, dwCallState, event, pc, objects>>

Directions == {"inbound", "outbound"}
Statuses   == {"ringing", "connected", "completed", "other"}
Messages   == [direction: Directions, status: Statuses]
NoData     == [direction |-> "outbound", status |-> "none"]

CallStates == {"none", "dialing", "ringback", "connected", "disconnected", "idle"}

-----------------------------------------------------------------------------
(* The DLL is loaded, with the setting that the registry then has; the line   *)
(* object is as DRVLINE::DRVLINE leaves it.                                   *)

Init ==
  /\ gbHandleIncomingCalls \in BOOLEAN
  /\ open = FALSE
  /\ htCall = NoCall /\ dwCallState = "none" /\ event = FALSE
  /\ bIncomingCall = FALSE /\ bConnected = FALSE
  /\ localChannel = NoChannel /\ msgData = NoData
  /\ pc = "idle" /\ objects = 0 /\ wd = "none"
  /\ held = {} /\ ctx = "none"
  /\ hangup = "none" /\ origin = "none"
  /\ ownChannel = FALSE /\ answered = FALSE

\* SetCallState stores the state and reports it to TAPI, both under mtx.
SetCallState(state) == dwCallState' = state

\* Mutant: no join.
Joined_never == TRUE

\* wdThread.join() returns: the thread has ended or was never started.
Joined == wd \in {"none", "done"}

WatchdogRunning == wd \notin {"none", "done"}

WatchdogKilling == wd \in {"disconnect", "hangup", "end"}

TSPI_lineOpen ==
  /\ pc = "idle" /\ ~open
  /\ open' = TRUE
  /\ UNCHANGED <<callVars, dataVars, gbHandleIncomingCalls, bConnected, ctx, wdVars,
                 dwCallState, event, pc, objects, hangup>>

-----------------------------------------------------------------------------
(* TSPI_lineMakeCall *)

\* A line already connected asks nobody; otherwise the service makes a context.
ConnectToServer ==
  \/ bConnected /\ UNCHANGED <<bConnected, ctx>>
  \/ ~bConnected /\ bConnected' = TRUE /\ ctx' = "live"

\* Mutant: no check.
AnotherCall_unchecked == FALSE

\* "Check to see if there's already another call"
AnotherCall == htCall # NoCall

\* Refused with LINEERR_CALLUNAVAIL, failed to connect, or sent to the service.
TSPI_lineMakeCall(c) ==
  /\ pc = "idle" /\ open /\ c # htCall
  /\ \/ AnotherCall /\ UNCHANGED vars
     \/ ~AnotherCall /\ ~bConnected /\ UNCHANGED vars
     \/ /\ ~AnotherCall
        /\ ConnectToServer
        /\ htCall' = c
        /\ origin' = "made"
        /\ pc' = "rpc"
        /\ UNCHANGED <<gbHandleIncomingCalls, open, bIncomingCall, held, dataVars, wdVars,
                       dwCallState, event, objects, hangup>>

\* The service's answer to MakeCall and the completion that follows.
MakeCallReply ==
  /\ pc = "rpc"
  /\ \/ /\ ctx = "live"
        /\ held' = held \cup {htCall}
        /\ \/ pc' = "dial"
           \/ pc' = "end"        \* accepted, but the status is not "success"
     \/ /\ pc' = "idle"          \* RPC error or refused: htCall keeps the handle
        /\ UNCHANGED held
  /\ UNCHANGED <<htCall, bIncomingCall, origin, dataVars, linkVars, wdVars,
                 dwCallState, event, objects, hangup>>

Dial ==
  /\ pc = "dial"
  /\ SetCallState("dialing")
  /\ answered' = FALSE
  /\ pc' = "start"
  /\ UNCHANGED <<callVars, dataVars, linkVars, wd, event, objects, hangup>>

\* Mutant: a watchdog still running is kept.
StartWatchdogThread_kept ==
  /\ pc = "start"
  /\ wd' = IF Joined THEN "reset" ELSE wd
  /\ pc' = "idle"
  /\ UNCHANGED <<callVars, dataVars, linkVars, answered, dwCallState, event, objects, hangup>>

\* Mutant: a line starts its watchdog once.
StartWatchdogThread_once ==
  /\ pc = "start"
  /\ wd' = IF wd = "none" THEN "reset" ELSE wd
  /\ pc' = "idle"
  /\ UNCHANGED <<callVars, dataVars, linkVars, answered, dwCallState, event, objects, hangup>>

\* Joins the previous watchdog, if any, before it starts the next.
StartWatchdogThread ==
  /\ pc = "start" /\ Joined
  /\ wd' = "reset"
  /\ pc' = "idle"
  /\ UNCHANGED <<callVars, dataVars, linkVars, answered, dwCallState, event, objects, hangup>>

-----------------------------------------------------------------------------
(* TSPI_lineDrop, TSPI_lineCloseCall, TSPI_lineClose *)

\* The hangup the service is sent names a channel this call was seen on, one
\* that only an earlier call was seen on, or none.
DropActiveCall ==
  hangup' = CASE htCall = NoCall -> hangup
              [] htCall # NoCall /\ localChannel = NoChannel -> "empty"
              [] htCall # NoCall /\ localChannel # NoChannel ->
                   IF ownChannel THEN "own" ELSE "stale"

TSPI_lineDrop ==
  /\ pc = "idle" /\ held # {}
  /\ DropActiveCall
  /\ pc' = "end"
  /\ UNCHANGED <<callVars, dataVars, linkVars, wdVars, dwCallState, event, objects>>

ReportIdle ==
  /\ pc = "end"
  /\ SetCallState("idle")
  /\ pc' = "idle"
  /\ UNCHANGED <<callVars, dataVars, linkVars, wdVars, event, objects, hangup>>

TSPI_lineCloseCall(c) ==
  /\ pc = "idle" /\ c \in held
  /\ held' = held \ {c}
  /\ DropActiveCall
  /\ pc' = "release"
  /\ UNCHANGED <<htCall, bIncomingCall, origin, dataVars, linkVars, wdVars, dwCallState,
                 event, objects>>

\* Mutant: the handle is kept.
ReleaseCall_kept ==
  /\ pc = "release"
  /\ bIncomingCall' = FALSE /\ msgData' = NoData
  /\ origin' = "none" /\ ownChannel' = FALSE
  /\ pc' = "idle"
  /\ UNCHANGED <<htCall, held, localChannel, linkVars, wdVars, dwCallState, event, objects,
                 hangup>>

ReleaseCall ==
  /\ pc = "release"
  /\ htCall' = NoCall /\ bIncomingCall' = FALSE /\ msgData' = NoData
  /\ origin' = "none" /\ ownChannel' = FALSE
  /\ pc' = "idle"
  /\ UNCHANGED <<held, localChannel, linkVars, wd, answered, dwCallState, event, objects, hangup>>

\* Mutant: the line's context is left in the service.
TSPI_lineClose_left ==
  /\ pc = "idle" /\ open /\ held = {}
  /\ pc' = "join"
  /\ UNCHANGED <<linkVars, callVars, dataVars, wdVars, dwCallState, event, objects, hangup>>

\* TAPI closes the calls of a line before the line itself.
TSPI_lineClose ==
  /\ pc = "idle" /\ open /\ held = {}
  /\ ctx' = "none"
  /\ pc' = "join"
  /\ UNCHANGED <<gbHandleIncomingCalls, open, bConnected, callVars, dataVars, wdVars,
                 dwCallState, event, objects, hangup>>

\* The members go, and no entry point is in progress.
LineGone ==
  /\ open' = FALSE
  /\ htCall' = NoCall /\ dwCallState' = "none" /\ event' = FALSE
  /\ bIncomingCall' = FALSE /\ bConnected' = FALSE
  /\ localChannel' = NoChannel /\ msgData' = NoData
  /\ origin' = "none" /\ ownChannel' = FALSE /\ answered' = FALSE
  /\ pc' = "idle"

\* The destructor joins the watchdog, then the members go.
DestroyLine ==
  /\ pc = "join" /\ Joined
  /\ LineGone
  /\ wd' = IF wd = "done" THEN "none" ELSE wd
  /\ UNCHANGED <<gbHandleIncomingCalls, held, ctx, objects, hangup>>

-----------------------------------------------------------------------------
(* Messages: TSPI_lineDevSpecific(SEND_STRING) with ProcessMessage and, for   *)
(* each call object in it, ProcessCallMessage.  Whether the service has a     *)
(* websocket for the line is Connection's: a line it has a context for must   *)
(* be ready for messages, whatever it asked for.                              *)

\* The message's members; those that are no call objects are passed over.
ProcessMessage == \E n \in 1..MaxObjects : objects' = n

TSPI_lineDevSpecific ==
  /\ pc = "idle" /\ open /\ ctx = "live"
  /\ ProcessMessage
  /\ pc' = "object"
  /\ UNCHANGED <<callVars, dataVars, linkVars, wdVars, dwCallState, event, hangup>>

\* Mutant: the call at hand is not looked at.
shouldProcessIncomingCalls_any(direction) ==
  direction = "inbound" => gbHandleIncomingCalls

shouldProcessIncomingCalls(direction) ==
  direction = "inbound" => (htCall = NoCall \/ bIncomingCall) /\ gbHandleIncomingCalls

\* Mutant: no return after a refusal.
NewCall_falls ==
  \/ /\ \E c \in Calls : htCall' = c /\ held' = held \cup {c}
     /\ bIncomingCall' = TRUE /\ origin' = "offered"
     /\ pc' = "report"
     /\ UNCHANGED hangup
  \/ hangup' = "refused" /\ pc' = "report" /\ UNCHANGED callVars

\* LINE_NEWCALL: TAPI writes a handle to htCall, or leaves it NULL; a call it
\* refuses is hung up.
NewCall ==
  \/ /\ \E c \in Calls : htCall' = c /\ held' = held \cup {c}
     /\ bIncomingCall' = TRUE /\ origin' = "offered"
     /\ pc' = "report"
     /\ UNCHANGED hangup
  \/ /\ hangup' = "refused"
     /\ pc' = "object"
     /\ UNCHANGED callVars

\* Mutant: the loop runs one object too far.
NextObject_past == pc = "object" /\ objects >= 0 /\ objects' = objects - 1

\* ProcessObjectMessage's loop over the call objects.
NextObject == pc = "object" /\ objects > 0 /\ objects' = objects - 1

ProcessCallMessage(m, channel) ==
  /\ NextObject
  /\ msgData' = m
  /\ \/ /\ ~shouldProcessIncomingCalls(m.direction)
        /\ pc' = "object"
        /\ UNCHANGED <<callVars, localChannel, ownChannel, hangup>>
     \/ /\ shouldProcessIncomingCalls(m.direction)
        /\ localChannel' = IF channel = NoChannel THEN localChannel ELSE channel
        /\ IF htCall = NoCall
           THEN NewCall
           ELSE pc' = "report" /\ UNCHANGED <<callVars, hangup>>
        /\ ownChannel' = (ownChannel \/ (channel # NoChannel /\ pc' = "report"))
  /\ UNCHANGED <<linkVars, wdVars, dwCallState, event>>

\* The message's status as a call state; a status it does not know is ignored.
Report ==
  /\ pc = "report"
  /\ \/ msgData.status = "ringing" /\ SetCallState("ringback") /\ pc' = "signal"
     \/ msgData.status = "connected" /\ SetCallState("connected") /\ pc' = "signal"
     \/ msgData.status = "completed" /\ SetCallState("disconnected") /\ pc' = "hangup"
     \/ msgData.status = "other" /\ UNCHANGED dwCallState /\ pc' = "signal"
  /\ answered' = (answered \/ (msgData.status # "other" /\ wd \in {"reset", "wait"}))
  /\ UNCHANGED <<callVars, dataVars, linkVars, wd, event, objects, hangup>>

HangupCompleted ==
  /\ pc = "hangup"
  /\ DropActiveCall
  /\ pc' = "completed"
  /\ UNCHANGED <<callVars, dataVars, linkVars, wdVars, dwCallState, event, objects>>

ReportCompleted ==
  /\ pc = "completed"
  /\ SetCallState("idle")
  /\ pc' = "signal"
  /\ UNCHANGED <<callVars, dataVars, linkVars, wdVars, event, objects, hangup>>

SignalEvent ==
  /\ pc = "signal"
  /\ event' = TRUE
  /\ pc' = "object"
  /\ UNCHANGED <<callVars, dataVars, linkVars, wdVars, dwCallState, objects, hangup>>

MessageDone ==
  /\ pc = "object" /\ objects = 0
  /\ pc' = "idle"
  /\ UNCHANGED <<callVars, dataVars, linkVars, wdVars, dwCallState, event, objects, hangup>>

-----------------------------------------------------------------------------
(* The watchdog thread's body, nuacom.cpp:153-163 *)

WatchdogStep(from, to) ==
  /\ wd = from /\ wd' = to
  /\ UNCHANGED <<callVars, dataVars, linkVars, answered, pc, objects>>

WatchdogReset ==
  WatchdogStep("reset", "wait") /\ event' = FALSE /\ UNCHANGED <<dwCallState, hangup>>

\* The wait ends with the event or with the timeout.
WatchdogSignalled ==
  WatchdogStep("wait", "test") /\ event /\ UNCHANGED <<dwCallState, event, hangup>>

\* Mutant: the wait has no timeout.
WatchdogTimeout_infinite ==
  WatchdogStep("wait", "test") /\ event /\ UNCHANGED <<dwCallState, event, hangup>>

WatchdogTimeout ==
  WatchdogStep("wait", "test") /\ UNCHANGED <<dwCallState, event, hangup>>

\* Mutant: the state is not looked at.
WatchdogTest_blind ==
  WatchdogStep("test", "disconnect") /\ UNCHANGED <<dwCallState, event, hangup>>

\* dwCallState is read without mtx, and may change before the next step.
WatchdogTest ==
  /\ WatchdogStep("test", IF dwCallState = "dialing" THEN "disconnect" ELSE "done")
  /\ UNCHANGED <<dwCallState, event, hangup>>

WatchdogDisconnect ==
  /\ WatchdogStep("disconnect", "hangup")
  /\ SetCallState("disconnected")
  /\ UNCHANGED <<event, hangup>>

\* It reads localChannel while a message may be assigning it.
WatchdogHangup ==
  /\ WatchdogStep("hangup", "end")
  /\ \/ DropActiveCall
     \/ pc = "object" /\ objects > 0 /\ htCall # NoCall /\ hangup' = "torn"
  /\ UNCHANGED <<dwCallState, event>>

WatchdogIdle ==
  WatchdogStep("end", "done") /\ SetCallState("idle") /\ UNCHANGED <<event, hangup>>

-----------------------------------------------------------------------------
(* The service stops or restarts: the line's context in it is gone, and the   *)
(* line is not told.  TAPISRV may die, too.                                   *)

ServiceLost ==
  /\ ctx = "live" /\ ctx' = "lost"
  /\ UNCHANGED <<gbHandleIncomingCalls, callVars, dataVars, open, bConnected, wdVars,
                 dwCallState, event, pc, objects, hangup>>

\* TAPISRV dies, and the provider with its threads: TAPI's calls are gone, and a new
\* process loads the DLL, which reads the setting anew.
DllMain ==
  /\ gbHandleIncomingCalls' \in BOOLEAN
  /\ LineGone
  /\ wd' = "none" /\ objects' = 0
  /\ held' = {} /\ ctx' = "none" /\ hangup' = "none"

\* What TAPI and the service start, and what the two threads then carry on with.
Request ==
  \/ TSPI_lineOpen \/ TSPI_lineDrop \/ TSPI_lineClose \/ TSPI_lineDevSpecific
  \/ \E c \in Calls : TSPI_lineMakeCall(c) \/ TSPI_lineCloseCall(c)

Continue ==
  \/ MakeCallReply \/ Dial \/ StartWatchdogThread \/ ReportIdle \/ ReleaseCall \/ DestroyLine
  \/ \E m \in Messages, channel \in Channels \cup {NoChannel} : ProcessCallMessage(m, channel)
  \/ Report \/ HangupCompleted \/ ReportCompleted \/ SignalEvent \/ MessageDone

Watchdog ==
  \/ WatchdogReset \/ WatchdogSignalled \/ WatchdogTimeout \/ WatchdogTest
  \/ WatchdogDisconnect \/ WatchdogHangup \/ WatchdogIdle

Next == Request \/ Continue \/ Watchdog \/ ServiceLost \/ DllMain

\* A started entry point runs on, and so does the watchdog, whose wait is timed.
Fairness == WF_vars(Continue) /\ WF_vars(Watchdog)

Spec == Init /\ [][Next]_vars /\ Fairness

-----------------------------------------------------------------------------
(* Properties *)

Flags ==
  /\ gbHandleIncomingCalls \in BOOLEAN
  /\ open \in BOOLEAN /\ bIncomingCall \in BOOLEAN /\ bConnected \in BOOLEAN /\ event \in BOOLEAN
  /\ ownChannel \in BOOLEAN /\ answered \in BOOLEAN

\* The type invariant: in particular an entry point's place and the loop over a
\* message's call objects stay within what the code has.
TypeOK ==
  /\ Flags
  /\ htCall \in Calls \cup {NoCall}
  /\ held \subseteq Calls
  /\ dwCallState \in CallStates
  /\ localChannel \in Channels \cup {NoChannel}
  /\ msgData \in Messages \cup {NoData}
  /\ ctx \in {"none", "live", "lost"}
  /\ pc \in {"idle", "rpc", "dial", "start", "end", "release", "join", "object",
             "report", "hangup", "completed", "signal"}
  /\ objects \in 0..MaxObjects
  /\ wd \in {"none", "reset", "wait", "test", "disconnect", "hangup", "end", "done"}
  /\ hangup \in {"none", "empty", "own", "stale", "torn", "refused"}
  /\ origin \in {"none", "made", "offered"}

\* The line has one call: a call TAPI holds is the one htCall names, whichever
\* way (made or offered) it came, so a request on it acts on that call.
HeldCallIsCurrent == held \subseteq {htCall}

\* A handle in htCall means a connected line: no hangup is sent through a
\* connection that ConnectToServer never made.
CallImpliesConnection == htCall # NoCall => open /\ bConnected

\* An entry point that is about to report a state or hang up has a call to
\* report on, although the watchdog, messages and TAPI all act on the line.
ProviderReportsACall ==
  pc \in {"rpc", "dial", "start", "end", "release", "report", "hangup", "completed"}
    => htCall # NoCall

\* DISCONNECTED is passing: while a line shows it, one of the two threads is on
\* its way to report IDLE, even when the other has reported in between.
DisconnectIsTransient ==
  dwCallState = "disconnected" => pc \in {"hangup", "completed"} \/ wd \in {"hangup", "end"}

\* A message about an inbound call never moves the state of a call that
\* TSPI_lineMakeCall made; bIncomingCall, left over from an earlier call,
\* would let it (shouldProcessIncomingCalls).
InboundLeavesOutbound ==
  pc \in {"report", "hangup", "completed"} /\ msgData.direction = "inbound" => origin = "offered"

\* A report that came while the watchdog was still waiting saves the call: the
\* watchdog then ends without a disconnect.
AnsweredInTime == WatchdogKilling => ~answered

\* The watchdog uses the line object it was started by: it has ended before
\* the object is deleted.
WatchdogWithinLine == WatchdogRunning => open

\* Whenever a line shows DIALING there is a watchdog that has yet to look at it, or has
\* seen it, or one is about to be started: none is missed by a watchdog that ends just
\* before, although it is started after the state is set and tests that without mtx.
DialingIsWatched ==
  dwCallState = "dialing" => pc = "start" \/ wd \in {"reset", "wait", "test", "disconnect"}

\* The line has a call that no application holds, and no request is about it.
LostCall == htCall # NoCall /\ held = {} /\ pc \notin {"rpc", "release"}

\* A call is lost by a lineMakeCall that fails, and in no other way: whatever TAPI refuses
\* or closes, and messages and the watchdog do meanwhile, the handle goes with the call.
OnlyFailedCallsAreLost == [][~LostCall /\ LostCall' => pc = "rpc"]_vars

\* Once lost it stays until the line goes: all that time lineMakeCall is refused.
LostCallStays == [][LostCall /\ ~LostCall' => ~open']_vars

\* What an entry point still has to do, and a watchdog that it may have to join: with
\* each call object six steps at most, with a call that is made four.
StepsLeft ==
  [idle |-> 0, end |-> 1, release |-> 1, join |-> 1, start |-> 1, dial |-> 2, rpc |-> 3,
   object |-> 1, signal |-> 2, completed |-> 3, hangup |-> 4, report |-> 5]
WatchdogLeft ==
  [none |-> 0, done |-> 0, end |-> 1, hangup |-> 2, disconnect |-> 3, test |-> 4, wait |-> 5,
   reset |-> 6]
WorkLeft == 6 * objects + StepsLeft[pc] + WatchdogLeft[wd]

\* A request is in steps that run out: until it returns nothing, the watchdog's steps and
\* a message's loop included, brings work back or is done once too often.
WorkRunsOut ==
  [][pc # "idle" /\ pc' # "idle" =>
       WorkLeft' \in 0..(WorkLeft - 1) \/ UNCHANGED <<pc, objects, wd>>]_vars

\* No call stays DIALING for ever: an answer, TAPI or the watchdog moves it on.
DialingEnds == (dwCallState = "dialing") ~> (dwCallState # "dialing")

\* Every entry point returns, those that join the watchdog included.
OperationsReturn == (pc # "idle") ~> (pc = "idle")

\* To TAPI the line is a single place for a call with a call state (LineCall).
LC == INSTANCE LineCall WITH call <- htCall, state <- dwCallState
LineCallSpec == LC!Spec

\* What the line takes the service and TAPI for, and what Connection shows them to be
\* (Session): whatever its threads and requests are at, it gives up its context before it
\* goes, and it goes only closed and with no message in it.
S == INSTANCE Session WITH
       line    <- IF open THEN "there" ELSE "none",
       session <- ctx,
       busy    <- CASE pc \in {"object", "report", "hangup", "completed", "signal"} -> "message"
                    [] pc = "join" -> "close"
                    [] OTHER -> "free"

ImplementsSession == S!Spec

-----------------------------------------------------------------------------
(* What the source says of itself and does not do; each fails, see README *)

\* nuacom.cpp:939 "Check to see if there's already another call": with no call
\* held, a new one is not refused.  A failed MakeCall leaves htCall set.
FreeLineTakesACall == pc = "idle" /\ held = {} => htCall = NoCall

\* nuacom.cpp:1510 "hangup call if any": the hangup is for the call there is,
\* not for the channel of an earlier one, which nothing clears.
HangupIsForThisCall == hangup # "stale"

\* nuacom.cpp:446-448: TSPI_lineCloseCall may come "without TSPI_lineDrop ever
\* being called" and is "prepared for either case".  Without it the line is
\* left DIALING, and the watchdog disconnects what is no longer, or not yet, there.
ClosedCallIsNotDialing == pc = "idle" /\ htCall = NoCall => dwCallState # "dialing"
=============================================================================
