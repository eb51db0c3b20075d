# A verification development for the Nuacom TAPI provider

Nuacom makes the extensions of a cloud PBX look like telephone lines of Windows: an application
that dials through TAPI dials through the PBX, and hears of its calls. This directory models the
parts of the repository where that can go wrong without a test noticing, checks the models with TLC
on small instances, and proves the safety properties with TLAPS for all instances.

Paths below are relative to `src/`. "nuacom.cpp" is `nuacom/nuacom.cpp`.

## 1. The system

### Components

| component | process | state | operations |
|---|---|---|---|
| line device and calls (`nuacom/nuacom.cpp`, class `DRVLINE`) | TAPISRV, which loads `nuacom.tsp` | one object per open line: `htCall`, `dwCallState`, `bIncomingCall`, `bConnected`, `localChannel`, `msgData`, the event `m_hEvent`, the watchdog thread | the TSPI entry points lineOpen, lineMakeCall, lineDrop, lineCloseCall, lineClose, lineDevSpecific |
| capabilities and call information (same file) | TAPISRV | the texts in `msgData` | lineGetCallInfo; the queries of capabilities and status, which change nothing |
| provider settings (`nuacom/config.cpp`, `dllmain.cpp`) | TAPISRV | two flags | read once when the DLL is loaded |
| connection contexts (`nuacomsrv/Server.cpp`) | the nuacom service | one `ConnectionContext` per connected line, `g_bConnected` for all | the RPCs ConnectToServer, Disconnect, MakeCall, Hangup, GetConnectionStatus; rundown |
| websocket (`nuacomsrv/WebsocketAPI.cpp`) | service | per context a client, its network thread, a ding thread, a reconnect thread | ConnectToWebsocket, CloseWebsocket(Async), delivery of messages |
| cloud requests (`nuacomsrv/nuacomAPI.cpp`) | service | none | session token, extension, make call, hang up: HTTP |
| configuration store (`nuacomsrv/Server.cpp`) | service | four registry values | the RPCs SetConfigInfo, GetConfigInfo |
| service shell (`nuacomsrv/Service.cpp`) | service; one more for -remove | the status reported to the service manager (`ssStatus`), the exit code `dwErr` | start, stop, interrogate, -debug, -remove |
| RPC wrapper (`RPCClient/RPCWrapper.cpp`) | TAPISRV, tray | `m_hConn`, the context handle | one method per RPC |
| tray program (`config/config.cpp`) | one per user session | the dialog | loads and saves the configuration, shows the connection |
| installers, custom action, test programs, vendored libraries | | | not part of the running system |

### How they interact

    application -> TAPI -> nuacom.tsp (DRVLINE) --RPC--> nuacomsrv --HTTP--> api.nuacom.ie
                     ^                                      |  ^
                     |                                      |  +--websocket-- call-events.nuacom.ie
                     +---- lineOpen, lineDevSpecific, ------+
                           lineClose

A call goes out by an RPC from the line object to its context in the service, and from there by
HTTP. Everything the PBX says of a call comes back by the websocket. The service cannot call the
provider, so for every message it acts as a TAPI application: it opens the line, sends the message
with lineDevSpecific and the address of the line object in it, and closes the line again. TAPI may
therefore be asked to close the line by the very thread that a close waits for, and the last close
of a line may be the service's own.

The locks and threads are these. TAPI declares the provider NONREENTRANT (nuacom.cpp:1128): one
entry point at a time, lineDevSpecific included, under a lock that an RPC or a `join` inside an
entry point keeps held. The watchdog thread of a line runs beside that and shares `dwCallState`,
`localChannel` and the event with it; only `SetCallState` takes the object's mutex. In the service
every RPC has a thread, every websocket has a network thread, and nothing is locked.

### What is hard

* A watchdog that decides, without a lock, that a call was not answered and takes three steps to end
  it, while the answer, a drop, or the next call come in between.
* Joins inside entry points that hold the lock by which the watchdog would be woken.
* Requests that fail in the middle: the service refuses a call, the RPC fails, TAPI refuses an
  incoming call, memory is short.
* A pointer that travels through another process and back, and must still be the line's.
* A context deleted while its own network thread is on the way through TAPI.
* Either process dying: the service finds out by a rundown some time later, the line not at all.
* A configuration of four values written and read one by one, no result of which is tested, and
  tried only afterwards.
* Four threads around one websocket that join, assign and destroy each other's thread objects without
  a lock, in a circle that is never closed only because of the order in which things are tested.
* One global status record that two threads of the service fill and send.
* Sizes that are counted in one function and used in another, with the data changing in between.

The complete list, each at its line, is under `hazards` in `PROJECT.json`.

### What makes each component correct

* Line device: a request acts on the call it names; a call's state is reported for a call; a call
  that is not answered ends, one that is answered is left alone; every entry point returns; the
  watchdog does not outlive the object it uses.
* Connection contexts: a message reaches the line object that its context was made for, and no other;
  closing a line never waits for the thread that waits for the close; a context given up is quiet;
  the status flag has something behind it.
* Websocket: the threads end before what they use; a closed one stays closed; one that ended is
  opened again; closing comes to an end.
* Service shell: RUNNING is reported while RPCs are taken, STOPPED when none is left; a stop that was
  accepted is completed.
* Configuration: an account is never without its flags; each value called configured is what the
  registry holds; what was saved is found; all that as far as the registry takes what is written.
* Call information: what is filled in is of one message, fits the size given as far as the
  texts counted are those copied, and does not overlap.

## 2. The modules

| module | models | code it stands for |
|---|---|---|
| `LineCall` | what a line promises TAPI: one place for a call, one call state (abstract) | |
| `Session` | what a line and the service have in common (abstract) | |
| `Feed` | what a websocket promises the context it feeds (abstract) | |
| `Drvline` | one line device, its entry points, its messages, its watchdog, TAPISRV's death | nuacom.cpp 17-42, 54-86, 116-259, 409-476, 921-1059, 1285-1321, 1443-1516; dllmain.cpp 6-23 |
| `Connection` | contexts, their message threads, the provider lock, the death of either process | Server.cpp 455-678, WebsocketAPI.cpp 257-307 |
| `Websocket` | one websocket with its ding, network, reconnect and closing threads | WebsocketAPI.cpp 121-307 |
| `ScmService` | the service from start to end, its two reporting threads, -debug, -remove | Service.cpp 67-537, Server.cpp 108-206 |
| `CallInfo` | lineGetCallInfo between messages | nuacom.cpp 88-114, 166-185, 564-720 |
| `ConfigStore` | SetConfigInfo, GetConfigInfo and the dialog, one registry value at a time | Server.cpp 223-453, config.cpp 220-285 |
| `MC...` | symmetry and values for TLC | |
| `..._proofs` | theorems and proofs about the module named | |

How they fit together:

    Drvline --implements--> LineCall            (to TAPI)
    Drvline --implements--> Session <--implements-- Connection
                            Connection --implements, per context--> Feed <--implements-- Websocket

`Session` and `Feed` are the joints. A line in `Drvline` takes a message only while the service has a
context for it; that the service of `Connection` sends none else is the same formula, `Session`, shown
of the other side. In the same way `Connection` shows it asks no more of a websocket than `Feed`, and
`Websocket` that it is one. The four refinements are checked by TLC and proved.

### Drvline

Variables have the names of the members they stand for. `pc` is the place the entry point in
progress has reached and `wd` the place of the watchdog; a handler is one action but where the
watchdog can come between two of its steps. For example TSPI_lineMakeCall is `TSPI_lineMakeCall`
(checks, connecting, storing the handle), `MakeCallReply` (the service's answer and TAPI's
completion), `Dial` (DIALING) and `StartWatchdogThread` (the join, which may block, and the new
thread); TSPI_lineCloseCall is a hangup (`TSPI_lineCloseCall`) and the clearing of the members
(`ReleaseCall`). `held`, the calls TAPI has given an application, is the environment's: TAPI makes
requests only on calls it has given out, and closes them before it closes the line.
A message is one or more call objects; each has a direction and a status and may name a channel.

`DllMain` is TAPISRV dying at any moment, with the provider and its threads, and a new process
loading the DLL: the setting `gbHandleIncomingCalls` is then read anew, and at no other time. With the
setting off the service makes a context without a websocket; TSPI_lineDevSpecific itself does not
look at it, so the model lets a message come with either setting.

Four variables are history: `hangup`, `origin`, `ownChannel` and `answered` record where a call, a
channel or a hangup came from, and whether a report was in time. No guard reads them; properties do.
(`ownChannel` is read only to set `hangup`.)

What is abstract: time (the watchdog's wait may end at any moment, which covers every timeout);
the contents of messages beyond the three above; the numbers dialled; an RPC returns with any of its
results. The unlocked read of `localChannel` against its assignment is a choice that includes a torn
value (`hangup = "torn"`).

### Connection

A context is at one of the places `free`, `new` (made, the RPC not yet back), `live`, `dropping`
(Disconnect is deleting it) and `gone` (deleted, its websocket still closing). `ws` is its
websocket, `net` the place of the websocket's network thread in SendString: before lineOpen, the
line open, in lineDevSpecific (`delivering`), before lineClose, or waiting for a TSPI_lineClose that
its own lineClose has caused. `lock` is the provider lock with what TAPI is calling under it.
`callback` is the pointer the context sends with each message; a heap may hand out an address
again, so `Lines` is a set of addresses that are reused. `orphan` are contexts whose client process
has died and whose rundown is to come; it comes at any time, also never.

The network thread goes on after the context is deleted, and then reads freed memory: what it reads
is what was there, or what the context made since in the same place holds (`this`), or the service
dies of it (`ServiceRestart`, possible whenever there is a context). TAPI takes a session handle
(`m_appHandle`) until the destructor has shut it down; without one lineOpen fails, which is what
keeps a message of a deleted context from reaching a line (`HasTapi`, `HasSession`).

Each call of SendString may fail, as an action of its own: lineOpen (`SendOpenFails`), malloc, which
leaves the line open for good (`SendLeaks`, the opener `"leaked"`), lineDevSpecific, after which the
line is closed (`SendMessageFails`), and the wait for the reply, by its 300 seconds, by an error of
lineGetMessage or by another message with the same number (`WaitForReply`): then the line is closed
although its message may be in the line object still, or only be about to come there.

When the service dies TAPI closes the line handles it had. If its message is in the line object just
then, the entry point ends first and the close follows (`MessageReturns`).

What is abstract: contents of messages; HTTP, which succeeds or not; the contexts ConnectToServer
loses when there is no configuration (nothing refers to them); the inner life of a websocket, which
is in `Websocket`.

### Websocket

`closer` is the place of CloseWebsocket, `ding`, `reconnect` and `network` those of the other
threads, `connection` the client's. The socket library is a submodule that is not in the tree; it is
taken as the code uses it: listeners are called on its network thread, connect waits for a network
thread that is ending, and the client's destructor closes the connection, close listener included,
and waits for the thread. A thread object that is destroyed unjoined, joined by two, or assigned in a
freed context is undefined behaviour or the end of the process: `service` is then `"dead"`, or the
thread is `"stray"`. `late` is history: the close listener ran while CloseWebsocket did.

### ScmService

`main` is the place of service_main (or CmdDebugService), `handler` that of service_ctrl (or
ControlHandler). A report is two steps, to fill the global `ssStatus` and to send it, because the
other thread may come between; `scm` is what the service manager has been sent last. It may fail
when `ScmMayFail`; then `dwErr` is set, as AddToMessageLog does. RPCs begin while the server listens
and end some time. `remover` is the place of CmdRemoveService in a process of its own. The process
may die at any step. `failed` is history. `MaxStarts` bounds how often the process is started.

### CallInfo

A text is its length in bytes, its length in characters and whether it is UTF-8, since sizes are
counted in bytes and copied in characters. `msgData` holds with each text the key and the message it
came with, which only properties look at. The application asks twice (`app`), for the size and
with a buffer of that size; messages and closes come between. Sizes and offsets are computed as the code
computes them, the fixed part being the constant `Fixed`; an empty name is replaced in `msgData`
while it is counted. `last`, `asked` and `info.from` are history.

### ConfigStore

The registry is a function of four values. Each client, a dialog or a connecting line, has one RPC
at a time; `step` is the value it is at. `SetConfigInfo` writes in `SetOrder` what the user
entered, and the registry may refuse any of it (`EntryRefused`), upon which the code goes on;
`GetConfigInfo` reads in `GetOrder`, where a flag that is missing or cannot be read is off
(`FlagOff`) and a missing name or password raises; both end by trying the account at the cloud. The
service may end between any two values (`ServiceRestart`) and the registry stays. An RPC that raises, or is
lost with the service, gives its client no out parameters (`NoReturn`).

Three variables are history: `others` (the values that other RPCs have written since mine came to them),
`failed` (those mine could not write or read) and `refused` (those missing from the registry because a
write was refused). A password and its encryption stand for each other; encrypting, decrypting and
allocating may fail, and then raise.

## 3. The runs

| run | instance | question |
|---|---|---|
| `drvline_safety` | 2 calls, 2 channels, messages of up to 2 call objects, both settings; 359,256 states (up to symmetry) | the line's invariants, how a call may be lost, and `Session`, under every interleaving of requests, messages, watchdog and deaths |
| `drvline_live` | 2 calls, no channel, 1 call object; 139,330 states | DIALING ends, entry points return, the line implements `LineCall` |
| `connection_safety` | 2 line addresses, 3 contexts; 131,754 states (up to symmetry) | messages reach their line, nobody waits in a circle, handles are closed, the flag is backed, `Feed` and `Session` are kept, through the death of either process |
| `connection_live` | 1 address, 2 contexts; 4,652 states | closes, messages and websockets do not wait for each other for ever |
| `config_safety` | 2 clients, 2 settings; 2,363,143 states (up to symmetry) | no account without flags, what is called configured is the registry value by value, what was saved is found, with writes that are refused |
| `service` | 2 RPC clients, 2 starts, failing reports; 2,738 states | the status is true and in order, a failed start is not taken for a running service, stops come to their end |
| `callinfo` | 6 messages of 2 calls, both settings; 754 states | the fields are of one message, apart, and fit unless what is copied is longer than what was counted |
| `websocket` | one websocket, no constants; 127 states | the threads end in order, none waits in a circle, the websocket is a `Feed` |
| four runs that end in a violation | the same instances | see section 6 |

Why the bounds are enough. The properties of a line are about a call against the one before it, a
channel against the one before it, and one object of a message against the next: two of each show every
such pair, and the line has room for one call at a time. Contexts meet in twos (an orphan and its
successor, a deleted one and the one made in its memory) with a third for what comes while two are
closing; two line addresses tell a line object that is new from one at a reused address. Two clients
give every interleaving of two RPCs, which is what the four values can be torn by; the settings are two
accounts that differ in every value, so that a value shows whose it is; that an account is refused needs
none of its own, since any request to the cloud may fail. A line of `drvline_live` hears of no channel:
hangups are nothing its three properties look at. Two starts of the service show one against what the
other has left in the service manager and with -remove. The six messages have between them texts that
are missing, empty, shorter in characters than in bytes, and no UTF-8, for every field. The websocket is
unbounded: connections end and are opened again any number of times. No run has a state constraint, and
no counter grows but `starts`. `MaxObjects`, `MaxStarts` and the size of `Contexts` are the only bounds
that are not in the code. Symmetry is used where no liveness is checked only.

Deadlock is checked but for `ScmService` and `Websocket`: a service that was removed, or has been
started as often as it may, and a websocket that was closed, or whose process died, do stop.

### Properties

`Drvline`: `HeldCallIsCurrent` (a call TAPI holds is the one `htCall` names), `ProviderReportsACall`
(no entry point reports on, or hangs up, a call that is not there), `InboundLeavesOutbound` (an
inbound message never moves an outgoing call), `AnsweredInTime` (an answer that comes while the
watchdog waits saves the call; one that comes between the watchdog's test and its disconnect does not),
`DialingIsWatched` (a line that shows DIALING has a watchdog that has yet to look, although it is
started after the state is set), `WatchdogWithinLine` (the watchdog ends before its object),
`OnlyFailedCallsAreLost` (a call that no application holds stays in `htCall` by a lineMakeCall that
fails, and by nothing else), `DialingEnds`, `OperationsReturn`, and the refinements `LineCallSpec` and
`ImplementsSession`. `Session` leaves it to the line what it does with a context the service has lost: to
keep it, as the code does, or to connect anew.

`Connection`: `MessageReachesItsLine` (the line stays open under a message, and the pointer sent with it
is that line's, whatever restarts, is closed or is made in a freed context's memory), `StatusIsBacked`,
`WaitsAreServed` (whoever waits in TAPI, for the line or for a websocket waits for one that can go on),
`HandlesAreClosed` (the handle SendString opens is in use by it or closed, whichever call of TAPI failed
or came late, but for a malloc that fails), `CloseReturns`, `MessagesEnd`, `ContextsEnd`, and the
refinements `ImplementsFeed` and `ImplementsSession`.

`Websocket`: `OnlyLateListenerKills` (the unlocked thread objects are misused only when the close
listener falls into CloseWebsocket), `ThreadsEndFirst`, `ClosedStaysClosed`, `CloserEnds`,
`Reopens`, and the refinement `ImplementsFeed`.

`ScmService`: `RunningIsListening`, `StoppedIsQuiet`, `FailedStartNeverRuns` (a start that fails
is never taken for a running service, and in the end for a stopped one), `StatusesInOrder`,
`StopEnds`, `RemoverEnds`, `CtrlCStops`.

`CallInfo`: `SizeIsStable`, `InfoIsOfLastMessage`, `FieldsAreApart`, `SizeIsEnough` (every character
and terminator copied is within the size given, if the two texts reported are together no longer than
the two counted and no empty name of the caller is replaced).

`ConfigStore`: `FlagsBeforeAccount` (no name or password without both flags, wherever saves interleave
or are cut short, unless the registry refused a flag), `ConfiguredIsTheRegistry` (each value a configured
client was told or has set is the registry's, until another RPC writes that value, and unless its write or
reading failed), `SavedIsFound` (what was saved is never missing again, and a flag read beside an
account is not made up).

Each module has a type invariant, `TypeOK`. All six are proved for every instance, and therefore have
no place in the runs. These are also proved, were tried with TLC on the instances above first, and are
in no configuration; given as an INVARIANT or a PROPERTY to the module's configuration they hold:

| module | properties |
|---|---|
| `Drvline` | `CallImpliesConnection`, `DisconnectIsTransient`, `LostCallStays`, `WorkRunsOut` |
| `Connection` | `ContextHasItsLine`, `FreeContextIsQuiet`, `OneContextPerLine`, `StoppedWebsocketDrains`, `OnlyRundownMisleads` |
| `Websocket` | `WaitsAreServed`, `ClosingRunsOut`, `OnlyFailureTakesDown` |
| `ScmService` | `ReportsDoNotRace`, `StopIsOnItsWay`, `StopGoesForward` |
| `ConfigStore` | `ValuesAreEntered` |

Each property has a mutant in `PROJECT.json`: one definition changed as a plausible bug would change
it (a join left out, a test dropped, a synchronous close for an asynchronous one), under which the
property fails in its own run. The mutated forms stand beside the originals, named `..._something` and
commented "Mutant".

### Fairness

* `Drvline`: weak fairness of what an entry point does once it has begun, because RPCs and HTTP
  requests return, with an error if need be, and of the watchdog, because its wait is timed. Nothing
  is assumed of what TAPI, users or the PBX begin.
* `Connection`: weak fairness of a begun RPC, of a message in the line object and of closing a
  websocket; strong fairness of the calls of TAPI by which a message gets on (`SendProceeds`), because its
  thread waits for the provider lock, and a lock that is free again and again is in the end given to one
  who waits. No failure is assumed (`SendFails`): no call of TAPI has to fail and no reply to be late for a
  message to end, so a thread that waits for the lock is not helped out by giving up. The one failure that
  is assumed is lineOpen's when the context has no session with TAPI any more, which then cannot succeed
  (`NoSession`). That a message arrives, that a line is opened or closed and that a rundown comes is not
  assumed.
* `Websocket`: weak fairness of each thread of the service, of the network thread only for what it does
  without the other side: a destructor's close, and listeners it has begun. That a connection opens,
  fails or ends is not assumed.
* `ScmService`: weak fairness of service_main, of the handler, of the end of each RPC and of
  CmdRemoveService once it polls. No start, control or Ctrl+C is assumed.
* `LineCall` asks weak fairness of leaving DIALING only, and `Drvline` has to provide it. `Feed` and
  `Session` ask none.
* `ConfigStore` and `CallInfo` have no fairness and no liveness.

## 4. What is proved

The proofs hold for any calls, channels, lines, contexts, clients, messages and settings, finite or
not; the only assumptions are those of the modules (`ConstantsAssumption`, `ConnectionAssumption`,
`SettingsAssumption`, `ScmAssumption`, `CallInfoAssumption`): NULL values and markers are not members
of the sets they stand beside, a setting is a function of the four values, a text has no more
characters than bytes.

**Line** (`Drvline_proofs`): `TypeCorrect`, `OneCall`, `ConnectedCalls`, `ReportsHaveACall`,
`DisconnectPasses`, `InboundKeptApart`, `AnswerKeepsCall`, `WatchdogJoined`, `WatchedDialing`,
`LostCallsStay`, `RequestsAreBounded`, and the refinements: `ImplementsLineCall` (the safety half of
`LineCall`) and `KeepsToSession`. None of the properties is inductive: what a step may do depends on
what its thread tested before. `LineInv` has four parts: `PlaceInv`, what is known at each place of an
entry point; `LinkInv`, calls and contexts only with a line, connected; `CallInv`, the current call is
the one TAPI holds and `bIncomingCall` is about it; `WatchdogInv`, what the watchdog may still do. The
two facts that carry the watchdog's proofs are that an answer that came in time has taken the line out
of DIALING before the watchdog looks, and that between `Dial` and the start of a watchdog the line is at
the place `start`, where the earlier one is joined. `LostCallsStay` says of the first finding of section
6 that a lineMakeCall which fails is its only cause, and the end of the line its only cure.

**Contexts** (`Connection_proofs`): `TypeCorrect`, `LineOutlivesContext`, `StatusBacked`,
`MessageArrives`, `NoThreadLeft`, `OneContext`, `NobodyInACircle`, `StoppedDrains`, `HandlesClosed`,
`RundownMisleads`, and the refinements `FeedIsKept` and `SessionIsKept`. That a line
object is deleted only when no context names it needs `LockInv` (the line is there, and not being
closed, while anyone has it open) and `HolderInv` (a context whose client lives is either being made
under the lock, one at a time, or the one `m_hConn` names). `MessageArrives` needs `SenderInv` (a
sender is among the openers, with the session of a context there is), `SessionIsKept` needs
`HandleInv` (the handle a line holds is that of a live context, until the line is closed),
`NoThreadLeft` and `FeedIsKept` need `QuietInv` (no websocket, no thread). `StatusIsBacked` is
inductive given the types. `OneContext` and `NobodyInACircle` add `OwnerInv` (the handle of a line is of
a context made for that line), `NetInv` (a thread inside TAPI is in the entry point that `lock` names,
and there is one such thread) and `ClosingInv` (a websocket is stopped only for a context that is
going). `RundownMisleads` says of the third finding that an orphan's Disconnect is its only cause.

**Websocket** (`Websocket_proofs`): `TypeCorrect`, `KilledByLateListener`, `ThreadsEnded`,
`StaysClosed`, `NobodyInACircle`, `ClosingIsBounded`, `DownByFailure`, and the refinement `IsAFeed`.
`WebsocketInv` says, while the service is up, what the network thread has left of `reconnectThread` when
it assigns it (`ListenerInv`), what is left of the threads at each place of the closer (`CloserInv`),
what the connection is when no network thread runs (`NetworkInv`), and that a place of the closer is
reached with another reconnect thread than it left there only when the listener was late (`LateInv`).
`WaitsAreServed` is inductive with these: the network thread and a reconnect thread are never at work
together, which is why the joins in both directions are no circle. `DownByFailure` says of the fourth
finding that OnFailListener is its only cause, and the close its only cure.

**Service shell** (`ScmService_proofs`): `TypeCorrect`, `RunningServes`, `StoppedServesNone`,
`NoReportRace`, `OrderedStatuses`, `FailedNeverRuns`, `StopsAreOnTheirWay`,
`StopsGoForward`. `ScmInv` ties what the service manager knows, what `ssStatus`
holds and where the handler is to each place of service_main; its parts `QuietInv` and `LaterInv`
say what remains of that when a report was not sent. The last three theorems need `EndInv`: where a start
that failed can still be (`FailedInv`), that between the cleanup and the last report `ssStatus` holds
what will be sent (`LastInv`), and whose STOP the handler has (`RemoverInv`).

**Call information** (`CallInfo_proofs`): `TypeCorrect`, `StableSize`, `OneMessage`, `ApartFields`,
`EnoughSize`, for texts of any length. The lemmas say what counting does to `msgData` (an empty name is
replaced, and nothing the second time), that the fields lie one behind the other, and how the texts of
the last message stand to the room counted for them (`CountedFacts`); `CallInv` says where the texts in
`msgData` come from and what is left of a size that was given.

**Configuration** (`ConfigStore_proofs`): `TypeCorrect`, `ConfiguredByValue`, `AccountHasFlags`,
`ValuesInPlace`, `SavedIsThere`. Every step is of one of seven kinds (`Kinds`), which the lemmas about the
invariant's parts are proved over. `SetInv` says that a value a save has come past is in the registry or was
refused; `SetOwn` and `GetOwn` that the registry has an RPC's value of each entry it has passed, unless
another has written that entry or the write or reading failed. `FlagsBeforeAccount` is needed for the
reader: without it a flag could be made up on reading and be written by nobody.

**What is proved towards liveness.** Liveness itself is out of the prover's reach, but not what it rests
on. Each of these theorems is the safety half of a property that TLC checks under fairness: that there
is always somebody who can go on (`WatchedDialing` for `DialingEnds`, both `NobodyInACircle` for
`CloseReturns`, `MessagesEnd`, `ContextsEnd` and `CloserEnds`, `StopsAreOnTheirWay` for `StopEnds` and
`RemoverEnds`), or that the steps run out, with the bound: `RequestsAreBounded` (a request takes at
most 6 * MaxObjects + 11 steps, the watchdog's included, for `OperationsReturn`), `ClosingIsBounded`
(at most 17, for `CloserEnds`), `StoppedDrains` (at most 5, for `ContextsEnd`), `StopsGoForward` (three,
and no RPC comes in to wait for, for `StopEnds`). What is left to TLC is
the step from there to the temporal formula, with the fairness of section 3.

Only model-checked: all liveness (`DialingEnds`, `OperationsReturn`, `CloseReturns`, `MessagesEnd`,
`ContextsEnd`, `CloserEnds`, `Reopens`, `StopEnds`, `RemoverEnds`, `CtrlCStops`) and the fairness
half of `LineCallSpec`, since liveness under fairness is beyond the prover.

## 5. What is not modelled

* The queries of capabilities and status (lineGetDevCaps, lineGetAddressCaps, lineGetCallStatus and
  so on) and the entry points of `auxfuncs.cpp`: they change nothing and report constants or one member.
* `nuacomAPI.cpp`: HTTP requests without state. In the models a request ends with any of its results.
* MakeCall and Hangup in the service: they change nothing there; their effect on a call is in `Drvline`.
* The tray's timer, which polls the flag, windows, menus and the icon; the failing of the dialog's
  own RPC binding.
* -install (one call of CreateService), the installers and the custom action: they run before or
  after the system does.
* Test programs and older copies of sources, which are no part of the installed programs.
* The vendored libraries (Boost, OpenSSL, curl, rapidjson): more than 99 in 100 of the lines of the
  repository are theirs, mostly headers. The program's own code is a few thousand lines; what has
  state in it is modelled, and what remains is listed above. The socket library is a submodule that is
  not in the tree, and is external in `Websocket`.

## 6. What the source says and does not do

Each of these has a run whose violation is a shortest trace.

| run | property | the source |
|---|---|---|
| `drvline_failed_call` | `FreeLineTakesACall` | "Check to see if there's already another call" (nuacom.cpp:939): a call the service refused leaves its handle in `htCall`, and from then on there always is one |
| `drvline_stale_channel` | `HangupIsForThisCall` | "hangup call if any" (nuacom.cpp:1510): the channel hung up may be an earlier call's; nothing clears `localChannel` |
| `connection_status` | `DisconnectedMeansNone` | "Nuacom TAPI status has changed to disconnected" (config/config.cpp:111): the rundown of a dead client's context clears the flag under its successor |
| `websocket_up` | `ConnectedIsUp` | "Nuacom TAPI status has changed to connected" (config/config.cpp:109): a connection that could not be opened is never tried again, OnFailListener being empty |

These were met on the way and have no configuration of their own. Where a property is named it is
defined at the end of its module; given as an INVARIANT to the module's configuration it fails (as a
PROPERTY where that is said).

| module | property | the source |
|---|---|---|
| `Drvline` | `ClosedCallIsNotDialing` | TSPI_lineCloseCall is "prepared for either case" (nuacom.cpp:446-448), lineDrop before it or not: without it the line stays DIALING, its watchdog armed |
| `ConfigStore` | `FailedSetWritesNothing` (as a PROPERTY) | "Failed to set config" (config/config.cpp:281): by then it has been set, and the working one lost |
| `ConfigStore` | `ConfiguredIsWritten` | bConfigured is set (Server.cpp:452) with no result of RegCreateKeyEx and RegSetValueEx tested: a save reported as configured may have written nothing |
| `ConfigStore` | `RejectionIsNamed` | "Nuacom TAPI authentication failed, please check username/password" (config/config.cpp:282) cannot be shown: a refused account raises |
| `CallInfo` | `CallerIdIsThisCalls` | "fill caller id" (nuacom.cpp:609): a message about another call has replaced `msgData` before it is found to be ignored |
| `CallInfo` | | "fill callee name" (nuacom.cpp:690): the key looked up is the caller's (691), the one counted the callee's (104); when that goes well is `SizeIsEnough` |
| `CallInfo` | `CopiedIsWithin` | a text longer than the one counted is copied past the end of the buffer, and so is "Test name #1" (nuacom.cpp:648), for an empty name of the caller, past its field of one terminator |
| `ScmService` | `FailedStartIsReported` | "dwWin32ExitCode - error code to report" (Service.cpp:226): ServiceStart leaves its error with SetLastError, service_main reports `dwErr` |
| `ScmService` | | "Stops and removes the service" (Service.cpp:399): a service that is starting refuses the stop, and is only marked for deletion |
| `ScmService` | | "use Ctrl+C or Ctrl+Break to simulate SERVICE_CONTROL_STOP" (Service.cpp:528): before the server listens a Ctrl+C is lost, hence the premise of `CtrlCStops` |
| `Websocket` | | `OnlyLateListenerKills` says when the unlocked thread objects are misused, and it happens: a close listener that runs while CloseWebsocket joins or has joined `reconnectThread` (WebsocketAPI.cpp:248, 298) ends the service |
| `Drvline` | | a watchdog late from its wait finds the DIALING of the next call (nuacom.cpp:157, 993), and disconnects that before it is joined; nothing in the source says it should not, and `DialingIsWatched` and `DialingEnds` are what is left |

## 7. Plan

Done, in this order: A `Drvline` with `LineCall`; B `Connection`; C `ConfigStore`; D `Websocket` with
`Feed`; E `ScmService`; F `CallInfo`; G `Session` between `Drvline` and `Connection`; the proofs of each.

What could still be added: the tray's timer, with the icon it leaves when the service is not there;
several lines over one `Connection` (the provider installs one). Worth proving next: what `Feed` and
`Session` say by themselves, as invariants of the two, to be had by refinement on either side.

## 8. Running it

`tlc -config MCDrvline.cfg MCDrvline`, and so on for each configuration; `tlapm Drvline_proofs.tla`,
and so on for the six `..._proofs` modules. The longest run takes about two minutes, each proof less
than three.
