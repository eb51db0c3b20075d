----------------------------- MODULE ScmService -----------------------------
(***************************************************************************)
(* The Windows service shell (nuacomsrv/Service.cpp) with ServiceStart and  *)
(* ServiceStop (nuacomsrv/Server.cpp): how the service starts listening for *)
(* RPCs, tells the service control manager (SCM) its status, and ends.      *)
(*                                                                          *)
(* service_main runs on a thread of its own, service_ctrl on the thread     *)
(* that called StartServiceCtrlDispatcher, which returns, and ends the      *)
(* process, when STOPPED was reported.  Both threads report through the one *)
(* global ssStatus, with no lock: to fill it and to send it are two steps.  *)
(* The SCM sends one control at a time, and only to a service that it       *)
(* believes RUNNING or that says it accepts stops.  Started with -debug the *)
(* process reports nothing and Ctrl+C takes the place of the SCM; started   *)
(* with -remove another process stops the service and deletes it.           *)
(*                                                                          *)
(* The process may end at any time.  What an RPC does is in Connection and  *)
(* ConfigStore; here it begins and ends.                                    *)
(***************************************************************************)
EXTENDS Naturals

CONSTANTS
  Callers,     \* RPC clients, with one call each
  MaxStarts,   \* bound: how often the process is started
  ScmMayFail   \* whether calls of the SCM's functions may fail

ASSUME ScmAssumption == MaxStarts \in Nat /\ ScmMayFail \in BOOLEAN

VARIABLES
  mode,      \* of the process: "none" there is, "scm" or "debug" (bDebug)
  main,      \* where service_main, or CmdDebugService, is
  handler,   \* where service_ctrl, or ControlHandler, is
  ssStatus,  \* the global: state and exit code
  dwErr,     \* the global exit code
  server,    \* "listening" for RPCs, or "deaf"
  calls,     \* RPCs in the service
  scm,       \* the status as the SCM knows it
  remover,   \* where CmdRemoveService is
  installed, \* "yes", or "no" after DeleteService
  starts,
  failed     \* history: what RPC function failed in this start

process == <<mode, main, handler, ssStatus, dwErr, server, calls, failed>>
vars == <<process, scm, remover, installed, starts>>

Status(state, exit) == [state |-> state, exit |-> exit]

Init ==
  /\ mode = "none" /\ main = "returned" /\ handler = "idle"
  /\ ssStatus = Status("STOPPED", "NO_ERROR") /\ dwErr = "NO_ERROR"
  /\ server = "deaf" /\ calls = {} /\ failed = "none"
  /\ scm = Status("STOPPED", "NO_ERROR")
  /\ remover = "idle" /\ installed = "yes" /\ starts = 0

\* A new process, with main at a step.
NewProcess(m, step) ==
  /\ mode = "none" /\ starts < MaxStarts
  /\ mode' = m /\ main' = step /\ handler' = "idle"
  /\ ssStatus' = Status("STOPPED", "NO_ERROR") /\ dwErr' = "NO_ERROR"
  /\ server' = "deaf" /\ calls' = {} /\ failed' = "none"
  /\ starts' = starts + 1
  /\ UNCHANGED <<remover, installed>>

\* It ends: a ControlService that waits for it fails.
EndProcess ==
  /\ mode' = "none" /\ main' = "returned" /\ handler' = "idle"
  /\ server' = "deaf" /\ calls' = {}
  /\ remover' = IF remover = "control" THEN "delete" ELSE remover
  /\ UNCHANGED <<ssStatus, dwErr, failed, installed, starts>>

-----------------------------------------------------------------------------
(* ReportStatusToSCMgr *)

\* ssStatus is filled: nothing of it is when debugging.
Fill(state, exit) ==
  ssStatus' = IF mode = "debug" THEN ssStatus ELSE Status(state, exit)

\* SetServiceStatus sends what ssStatus then holds.
Sent == mode = "scm" /\ scm' = ssStatus /\ UNCHANGED dwErr

\* It fails, and AddToMessageLog keeps the error.
NotSent == mode = "scm" /\ ScmMayFail /\ dwErr' = "error" /\ UNCHANGED scm

\* When debugging there is nothing to send.
NothingToSend == mode = "debug" /\ UNCHANGED <<scm, dwErr>>

-----------------------------------------------------------------------------
(* service_main and ServiceStart *)

Main(from, to) == main = from /\ main' = to

\* StartService of the SCM.
StartService ==
  /\ installed = "yes" /\ scm.state = "STOPPED"
  /\ NewProcess("scm", "register")
  /\ scm' = Status("START_PENDING", "NO_ERROR")

CmdDebugService == NewProcess("debug", "protseq") /\ UNCHANGED scm

\* RegisterServiceCtrlHandler: without it nothing is reported.
RegisterHandler ==
  /\ \/ Main("register", "starting") /\ Fill("START_PENDING", "NO_ERROR")
     \/ Main("register", "returned") /\ ScmMayFail /\ UNCHANGED ssStatus
  /\ UNCHANGED <<mode, handler, dwErr, server, calls, failed, scm, remover, installed, starts>>

ReportStartPending ==
  /\ \/ Main("starting", "protseq") /\ Sent
     \/ Main("starting", "cleanup") /\ NotSent
  /\ UNCHANGED <<mode, handler, ssStatus, server, calls, failed, remover, installed, starts>>

\* Mutant: service_main returns without a report when the start has failed.
RpcFails_silent(step) ==
  /\ Main(step, "returned")
  /\ failed' = step
  /\ UNCHANGED <<mode, handler, ssStatus, dwErr, server, calls, scm, remover, installed, starts>>

\* A function of the RPC run time fails: SetLastError, and service_main cleans up.
RpcFails(step) ==
  /\ Main(step, "cleanup")
  /\ failed' = step
  /\ UNCHANGED <<mode, handler, ssStatus, dwErr, server, calls, scm, remover, installed, starts>>

RpcServerUseProtseqEp ==
  \/ RpcFails("protseq")
  \/ /\ Main("protseq", "interface")
     /\ UNCHANGED <<mode, handler, ssStatus, dwErr, server, calls, failed, scm, remover,
                    installed, starts>>

RpcServerRegisterIf ==
  \/ RpcFails("interface")
  \/ /\ Main("interface", "listen")
     /\ UNCHANGED <<mode, handler, ssStatus, dwErr, server, calls, failed, scm, remover,
                    installed, starts>>

\* Mutant: the status RpcServerListen returns is not tested.
RpcServerListen_untested ==
  /\ Main("listen", "running")
  /\ server' \in {"listening", "deaf"}
  /\ Fill("RUNNING", "NO_ERROR")
  /\ UNCHANGED <<mode, handler, dwErr, calls, failed, scm, remover, installed, starts>>

\* RpcServerListen returns at once; RUNNING is then filled in.
RpcServerListen ==
  \/ RpcFails("listen")
  \/ /\ Main("listen", "running")
     /\ server' = "listening"
     /\ Fill("RUNNING", "NO_ERROR")
     /\ UNCHANGED <<mode, handler, dwErr, calls, failed, scm, remover, installed, starts>>

ReportRunning ==
  /\ \/ Main("running", "wait") /\ (Sent \/ NothingToSend)
     \/ Main("running", "cleanup") /\ NotSent
  /\ UNCHANGED <<mode, handler, ssStatus, server, calls, failed, remover, installed, starts>>

\* Mutant: the wait is for the end of listening only.
RpcMgmtWaitServerListen_calls ==
  /\ server = "deaf"
  /\ Main("wait", "cleanup")
  /\ UNCHANGED <<mode, handler, ssStatus, dwErr, server, calls, failed, scm, remover, installed,
                 starts>>

\* It returns when the server no longer listens and the last call is done.
RpcMgmtWaitServerListen ==
  /\ server = "deaf" /\ calls = {}
  /\ Main("wait", "cleanup")
  /\ UNCHANGED <<mode, handler, ssStatus, dwErr, server, calls, failed, scm, remover, installed,
                 starts>>

FillStopped ==
  /\ Main("cleanup", IF mode = "debug" THEN "returned" ELSE "stopping")
  /\ Fill("STOPPED", dwErr)
  /\ UNCHANGED <<mode, handler, dwErr, server, calls, failed, scm, remover, installed, starts>>

ReportStopped ==
  /\ Main("stopping", "returned")
  /\ Sent \/ NotSent
  /\ UNCHANGED <<mode, handler, ssStatus, server, calls, failed, remover, installed, starts>>

\* main returns: the dispatcher waits for its thread and for a STOPPED that was sent.
Exit ==
  /\ mode # "none" /\ main = "returned"
  /\ mode = "scm" => handler = "idle" /\ scm.state = "STOPPED"
  /\ EndProcess /\ UNCHANGED scm

\* The process dies, and the SCM sees it.
Crash ==
  /\ mode # "none" /\ EndProcess
  /\ scm' = IF mode = "scm" /\ scm.state # "STOPPED" THEN Status("STOPPED", "aborted") ELSE scm

ServiceMain ==
  \/ RegisterHandler \/ ReportStartPending
  \/ RpcServerUseProtseqEp \/ RpcServerRegisterIf \/ RpcServerListen \/ ReportRunning
  \/ RpcMgmtWaitServerListen \/ FillStopped \/ ReportStopped \/ Exit

-----------------------------------------------------------------------------
(* service_ctrl, ControlHandler and ServiceStop *)

\* Mutant: stops are accepted while starting, too.
Controllable_early == scm.state \in {"START_PENDING", "RUNNING"} /\ mode = "scm"

\* The SCM passes a control on; ReportStatusToSCMgr accepts stops unless START_PENDING.
Controllable == scm.state = "RUNNING" /\ mode = "scm"

\* ControlService: a control is handed to the handler.
Control(code) ==
  /\ Controllable /\ handler = "idle"
  /\ handler' = code
  /\ UNCHANGED <<mode, main, ssStatus, dwErr, server, calls, failed, scm, installed, starts>>

Administrator == (Control("STOP") \/ Control("INTERROGATE")) /\ UNCHANGED remover

CtrlC ==
  /\ mode = "debug" /\ handler = "idle"
  /\ handler' = "stop"
  /\ UNCHANGED <<mode, main, ssStatus, dwErr, server, calls, failed, scm, remover, installed,
                 starts>>

\* The handler begins a report: of STOP_PENDING, or of what ssStatus holds.
FillControl ==
  /\ \/ handler = "STOP" /\ handler' = "stopping" /\ Fill("STOP_PENDING", "NO_ERROR")
     \/ /\ handler = "INTERROGATE" /\ handler' = "answering"
        /\ Fill(ssStatus.state, "NO_ERROR")
  /\ UNCHANGED <<mode, main, dwErr, server, calls, failed, scm, remover, installed, starts>>

ReportControl ==
  /\ \/ handler = "stopping" /\ handler' = "stop"
     \/ handler = "answering" /\ handler' = "idle"
  /\ Sent \/ NotSent
  /\ UNCHANGED <<mode, main, ssStatus, server, calls, failed, remover, installed, starts>>

\* service_ctrl returns, and with it the ControlService of CmdRemoveService.
ControlReturns ==
  /\ handler' = "idle"
  /\ remover' = IF remover = "control" THEN "poll" ELSE remover

\* Mutant: the server is stopped before STOP_PENDING is reported.
ServiceStop_first ==
  /\ \/ handler = "STOP" /\ UNCHANGED <<handler, remover>>
     \/ handler = "stop" /\ ControlReturns
  /\ server' = "deaf"
  /\ UNCHANGED <<mode, main, ssStatus, dwErr, calls, failed, scm, installed, starts>>

\* Mutant: a stop only reports.
ServiceStop_missing ==
  /\ handler = "stop" /\ ControlReturns
  /\ UNCHANGED <<mode, main, ssStatus, dwErr, server, calls, failed, scm, installed, starts>>

\* RpcMgmtStopServerListening: nothing happens when the server does not listen yet.
ServiceStop ==
  /\ handler = "stop" /\ ControlReturns
  /\ server' = "deaf"
  /\ UNCHANGED <<mode, main, ssStatus, dwErr, calls, failed, scm, installed, starts>>

ServiceCtrl == FillControl \/ ReportControl \/ ServiceStop

-----------------------------------------------------------------------------
(* RPC clients, and CmdRemoveService *)

BeginCall(c) ==
  /\ server = "listening" /\ c \notin calls
  /\ calls' = calls \cup {c}
  /\ UNCHANGED <<mode, main, handler, ssStatus, dwErr, server, failed, scm, remover, installed,
                 starts>>

EndCall(c) ==
  /\ c \in calls
  /\ calls' = calls \ {c}
  /\ UNCHANGED <<mode, main, handler, ssStatus, dwErr, server, failed, scm, remover, installed,
                 starts>>

\* ControlService(STOP): refused by the SCM, or on its way.
RemoverControl ==
  /\ remover = "idle"
  /\ \/ remover' = "control" /\ Control("STOP")
     \/ ~Controllable /\ remover' = "delete" /\ UNCHANGED <<process, scm, installed, starts>>

\* QueryServiceStatus no longer says STOP_PENDING.
RemoverPolls ==
  /\ remover = "poll" /\ scm.state # "STOP_PENDING"
  /\ remover' = "delete"
  /\ UNCHANGED <<process, scm, installed, starts>>

DeleteService ==
  /\ remover = "delete"
  /\ remover' = "done" /\ installed' = "no"
  /\ UNCHANGED <<process, scm, starts>>

CmdRemoveService == RemoverPolls \/ DeleteService

Next ==
  \/ StartService \/ CmdDebugService \/ Crash
  \/ ServiceMain \/ ServiceCtrl
  \/ Administrator \/ CtrlC
  \/ \E c \in Callers : BeginCall(c) \/ EndCall(c)
  \/ RemoverControl \/ CmdRemoveService

Spec == Init /\ [][Next]_vars

\* Every thread of the service runs, RPCs end, and the remover runs on.
Fairness ==
  /\ WF_vars(ServiceMain)
  /\ WF_vars(ServiceCtrl)
  /\ \A c \in Callers : WF_vars(EndCall(c))
  /\ WF_vars(CmdRemoveService)

FairSpec == Spec /\ Fairness
-----------------------------------------------------------------------------
(* Properties *)

Errors == {"NO_ERROR", "error", "aborted"}
States == {"STOPPED", "START_PENDING", "RUNNING", "STOP_PENDING"}
Statuses == [state : States, exit : Errors]

\* The variables keep their types.
TypeOK ==
  /\ mode \in {"none", "scm", "debug"}
  /\ main \in {"register", "starting", "protseq", "interface", "listen", "running", "wait",
               "cleanup", "stopping", "returned"}
  /\ handler \in {"idle", "STOP", "INTERROGATE", "stopping", "answering", "stop"}
  /\ ssStatus \in Statuses /\ scm \in Statuses
  /\ dwErr \in {"NO_ERROR", "error"}
  /\ server \in {"listening", "deaf"}
  /\ calls \subseteq Callers
  /\ remover \in {"idle", "control", "poll", "delete", "done"}
  /\ installed \in {"yes", "no"}
  /\ starts \in 0..MaxStarts
  /\ failed \in {"none", "protseq", "interface", "listen"}

\* While the SCM says RUNNING the service takes RPCs: a client that waits for the
\* service to run before it connects is not refused.  Only a lost report of
\* STOP_PENDING or STOPPED, which dwErr then shows, breaks it.
RunningIsListening ==
  scm.state = "RUNNING" => mode = "scm" /\ (server = "listening" \/ dwErr = "error")

\* Once STOPPED was reported without an error no RPC is being served, although the
\* process that could serve it may still be there.
StoppedIsQuiet ==
  mode # "debug" /\ scm = Status("STOPPED", "NO_ERROR") => calls = {} /\ server = "deaf"

\* A start that fails is never taken for a running service: the SCM is not told RUNNING,
\* nor is a stop handed over, no RPC gets in whichever function failed, and when
\* service_main is through the SCM knows the service as stopped, unless a report failed.
\* (With which exit code is another matter: FailedStartIsReported.)
FailedStartNeverRuns ==
  failed # "none" /\ mode = "scm" =>
    /\ scm.state \in {"START_PENDING", "STOPPED"} /\ handler = "idle"
    /\ server = "deaf" /\ calls = {}
    /\ main = "returned" /\ dwErr = "NO_ERROR" => scm.state = "STOPPED"

\* No stop is lost: while the SCM says STOP_PENDING the handler is about to stop the
\* server, or has, and the thread that then reports STOPPED is on its way and has not
\* passed the wait before; and while CmdRemoveService waits in ControlService it is for
\* the STOP that it sent, in the handler of the process that there is.
StopIsOnItsWay ==
  /\ scm.state = "STOP_PENDING" /\ dwErr = "NO_ERROR" =>
       /\ mode = "scm" /\ main \in {"wait", "cleanup", "stopping"}
       /\ handler = "stop" \/ server = "deaf"
       /\ main = "stopping" => ssStatus = Status("STOPPED", "NO_ERROR")
  /\ remover = "control" => mode = "scm" /\ handler \in {"STOP", "stopping", "stop"}

\* A stop only goes forward: the SCM hands no control over any more that the handler would
\* be busy with, once the server is deaf no RPC gets in that the wait would have to wait for,
\* and the threads have three steps of their own to go, one of the handler and two of main.
StopGoesForward ==
  [][scm.state = "STOP_PENDING" /\ scm'.state = "STOP_PENDING" /\ dwErr' = "NO_ERROR" =>
       /\ server = "deaf" => server' = "deaf" /\ calls' \subseteq calls
       /\ main' = main \/ <<main, main'>> \in {<<"wait", "cleanup">>, <<"cleanup", "stopping">>}
       /\ handler' = handler \/ (handler = "stop" /\ handler' = "idle")]_vars

\* service_main and service_ctrl are never in ReportStatusToSCMgr at the same time:
\* what one fills into ssStatus is not sent, or overwritten, by the other.
ReportsDoNotRace ==
  ~(/\ mode = "scm" /\ dwErr = "NO_ERROR"
    /\ main \in {"starting", "running", "stopping"}
    /\ handler \in {"stopping", "answering"})

\* The SCM sees a service start, run and stop, in that order, whatever handler and
\* main do: a report that was overtaken never brings an earlier state back.
InOrder == {<<"STOPPED", "START_PENDING">>, <<"START_PENDING", "RUNNING">>,
            <<"RUNNING", "STOP_PENDING">>} \cup {<<state, "STOPPED">> : state \in States}

StatusesInOrder == [][dwErr = "error" \/ <<scm.state, scm.state'>> \in InOrder]_(scm.state)

\* A stop the SCM was told of is completed, whatever RPCs are being served: the
\* report of STOPPED is not lost on the way through ssStatus, and ServiceStop wakes
\* the thread that waits in RpcMgmtWaitServerListen.  Only a report that fails, which
\* dwErr then shows, leaves the SCM with a stop that does not end.
StopEnds == scm.state = "STOP_PENDING" ~> scm.state = "STOPPED" \/ dwErr = "error"

\* CmdRemoveService polls for as long as it sees STOP_PENDING: it comes to its end.
RemoverEnds == remover = "control" ~> remover = "done" \/ dwErr = "error"

\* Service.cpp:528 "use Ctrl+C or Ctrl+Break to simulate SERVICE_CONTROL_STOP in debug
\* mode": a service that listens ends, with the RPCs it still serves.  Before it listens
\* ServiceStop does nothing, and nothing recalls the Ctrl+C.
CtrlCStops == mode = "debug" /\ handler = "stop" /\ server = "listening" ~> mode = "none"

-----------------------------------------------------------------------------
\* This does not hold.

\* Service.cpp:226: dwWin32ExitCode is the "error code to report".  ServiceStart hands
\* its error over with SetLastError, service_main reports dwErr, which is not set.
FailedStartIsReported ==
  failed # "none" /\ mode = "scm" /\ main = "returned" => scm.exit # "NO_ERROR"
=============================================================================
