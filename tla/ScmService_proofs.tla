-------------------------- MODULE ScmService_proofs --------------------------
(***************************************************************************)
(* Proofs about ScmService, for any clients and any number of starts,       *)
(* whether the calls of the SCM's functions fail or not.                    *)
(*                                                                          *)
(* None of the properties is inductive.  They follow from what the SCM      *)
(* knows, what ssStatus holds and where the handler is at each place of     *)
(* service_main: StartingInv and RunningInv before and while it serves,     *)
(* EndingInv after, as long as every report has been sent; QuietInv and     *)
(* LaterInv say what remains of it when one was not.                        *)
(***************************************************************************)
EXTENDS ScmService, TLAPS

Starting == {"register", "starting", "protseq", "interface", "listen"}
Ending == {"cleanup", "stopping", "returned"}

\* The SCM knows of no service but the one that it started.
ProcessInv ==
  /\ mode # "scm" => scm.state = "STOPPED"
  /\ mode = "none" => main = "returned" /\ handler = "idle" /\ server = "deaf" /\ calls = {}

\* Until RUNNING was reported the SCM sends no control.
StartingInv ==
  /\ main \in Starting \cup {"running"} =>
       /\ scm.state = "START_PENDING" /\ handler = "idle" /\ dwErr = "NO_ERROR"
       /\ main # "register" =>
            ssStatus.state = IF main = "running" THEN "RUNNING" ELSE "START_PENDING"
  /\ main \in Starting => server = "deaf" /\ calls = {}
  /\ main = "running" => server = "listening"

\* While it serves, the handler is in one control at a time.
RunningInv ==
  main = "wait" /\ dwErr = "NO_ERROR" =>
    /\ handler \in {"STOP", "INTERROGATE", "stopping", "answering"} => scm.state = "RUNNING"
    /\ handler = "stop" => scm.state = "STOP_PENDING"
    /\ scm.state = "RUNNING" =>
         ssStatus.state = IF handler = "stopping" THEN "STOP_PENDING" ELSE "RUNNING"
    /\ server = "deaf" <=> scm.state = "STOP_PENDING" /\ handler = "idle"

\* After it the SCM sends none, and nothing is served.
EndingInv ==
  main \in Ending /\ dwErr = "NO_ERROR" =>
    /\ scm.state # "RUNNING" /\ handler = "idle" /\ server = "deaf" /\ calls = {}
    /\ main = "stopping" => ssStatus.state = "STOPPED"

\* What is served after the wait is so because RUNNING could not be reported: the end
\* is then reported with the error.
QuietInv ==
  (server = "listening" \/ calls # {}) /\ main \notin {"running", "wait"} =>
    /\ dwErr = "error" /\ handler = "idle" /\ scm.state \in {"START_PENDING", "STOPPED"}
    /\ main # "cleanup" => ssStatus = Status("STOPPED", "error")
    /\ scm.state = "STOPPED" => scm.exit = "error"

\* STOPPED is the last that is reported.
LaterInv ==
  /\ main \in {"wait", "cleanup"} => scm.state # "STOPPED" /\ ssStatus.state # "STOPPED"
  /\ main = "wait" => scm.state # "START_PENDING" /\ ssStatus.state # "START_PENDING"

ScmInv ==
  /\ ProcessInv
  /\ mode = "scm" => StartingInv /\ RunningInv /\ EndingInv /\ QuietInv /\ LaterInv

LEMMA Initially == Init => TypeOK /\ ScmInv
  BY ScmAssumption
  DEF Init, TypeOK, ScmInv, ProcessInv, Status, Statuses, States, Errors

\* Each step keeps the types.
LEMMA TypeStep == TypeOK /\ [Next]_vars => TypeOK'
<1> SUFFICES ASSUME TypeOK, [Next]_vars PROVE TypeOK'
  OBVIOUS
<1> MaxStarts \in Nat
  BY ScmAssumption
<1> USE DEF TypeOK, vars, process, Status, Statuses, States, Errors
<1>1. CASE StartService
  BY <1>1 DEF StartService, NewProcess
<1>2. CASE CmdDebugService
  BY <1>2 DEF CmdDebugService, NewProcess
<1>3. CASE Crash
  BY <1>3 DEF Crash, EndProcess
<1>4. CASE RegisterHandler
  BY <1>4 DEF RegisterHandler, Main, Fill
<1>5. CASE ReportStartPending
  BY <1>5 DEF ReportStartPending, Main, Sent, NotSent
<1>6. CASE RpcServerUseProtseqEp
  BY <1>6 DEF RpcServerUseProtseqEp, RpcFails, Main
<1>7. CASE RpcServerRegisterIf
  BY <1>7 DEF RpcServerRegisterIf, RpcFails, Main
<1>8. CASE RpcServerListen
  BY <1>8 DEF RpcServerListen, RpcFails, Main, Fill
<1>9. CASE ReportRunning
  BY <1>9 DEF ReportRunning, Main, Sent, NotSent, NothingToSend
<1>10. CASE RpcMgmtWaitServerListen
  BY <1>10 DEF RpcMgmtWaitServerListen, Main
<1>11. CASE FillStopped
  BY <1>11 DEF FillStopped, Main, Fill
<1>12. CASE ReportStopped
  BY <1>12 DEF ReportStopped, Main, Sent, NotSent
<1>13. CASE Exit
  BY <1>13 DEF Exit, EndProcess
<1>14. CASE FillControl
  BY <1>14 DEF FillControl, Fill
<1>15. CASE ReportControl
  BY <1>15 DEF ReportControl, Sent, NotSent
<1>16. CASE ServiceStop
  BY <1>16 DEF ServiceStop, ControlReturns
<1>17. CASE Administrator
  BY <1>17 DEF Administrator, Control, Controllable
<1>18. CASE CtrlC
  BY <1>18 DEF CtrlC
<1>19. ASSUME NEW c \in Callers, BeginCall(c) PROVE TypeOK'
  BY <1>19 DEF BeginCall
<1>20. ASSUME NEW c \in Callers, EndCall(c) PROVE TypeOK'
  BY <1>20 DEF EndCall
<1>21. CASE RemoverControl
  BY <1>21 DEF RemoverControl, Control, Controllable
<1>22. CASE CmdRemoveService
  BY <1>22 DEF CmdRemoveService, RemoverPolls, DeleteService
<1>23. CASE UNCHANGED vars
  BY <1>23
<1>24. QED
  BY <1>1, <1>2, <1>3, <1>4, <1>5, <1>6, <1>7, <1>8, <1>9, <1>10, <1>11, <1>12, <1>13, <1>14,
     <1>15, <1>16, <1>17, <1>18, <1>19, <1>20, <1>21, <1>22, <1>23
  DEF Next, ServiceMain, ServiceCtrl

\* Each step keeps what service_main, the handler and the SCM rely on of each other.
LEMMA ScmInvStep == TypeOK /\ ScmInv /\ [Next]_vars => ScmInv'
<1> SUFFICES ASSUME TypeOK, ScmInv, [Next]_vars PROVE ScmInv'
  OBVIOUS
<1> USE DEF TypeOK, vars, process, Status, Statuses, States, Errors, ScmInv, ProcessInv,
            StartingInv, RunningInv, EndingInv, QuietInv, LaterInv, Starting, Ending
<1>1. CASE StartService
  BY <1>1 DEF StartService, NewProcess
<1>2. CASE CmdDebugService
  BY <1>2 DEF CmdDebugService, NewProcess
<1>3. CASE Crash
  BY <1>3 DEF Crash, EndProcess
<1>4. CASE RegisterHandler
  BY <1>4 DEF RegisterHandler, Main, Fill
<1>5. CASE ReportStartPending
  BY <1>5 DEF ReportStartPending, Main, Sent, NotSent
<1>6. CASE RpcServerUseProtseqEp
  BY <1>6 DEF RpcServerUseProtseqEp, RpcFails, Main
<1>7. CASE RpcServerRegisterIf
  BY <1>7 DEF RpcServerRegisterIf, RpcFails, Main
<1>8. CASE RpcServerListen
  BY <1>8 DEF RpcServerListen, RpcFails, Main, Fill
<1>9. CASE ReportRunning
  BY <1>9 DEF ReportRunning, Main, Sent, NotSent, NothingToSend
<1>10. CASE RpcMgmtWaitServerListen
  BY <1>10 DEF RpcMgmtWaitServerListen, Main
<1>11. CASE FillStopped
  BY <1>11 DEF FillStopped, Main, Fill
<1>12. CASE ReportStopped
  BY <1>12 DEF ReportStopped, Main, Sent, NotSent
<1>13. CASE Exit
  BY <1>13 DEF Exit, EndProcess
<1>14. CASE FillControl
  BY <1>14 DEF FillControl, Fill
<1>15. CASE ReportControl
  BY <1>15 DEF ReportControl, Sent, NotSent
<1>16. CASE ServiceStop
  BY <1>16 DEF ServiceStop, ControlReturns
<1>17. CASE Administrator
  BY <1>17 DEF Administrator, Control, Controllable
<1>18. CASE CtrlC
  BY <1>18 DEF CtrlC
<1>19. ASSUME NEW c \in Callers, BeginCall(c) PROVE ScmInv'
  BY <1>19 DEF BeginCall
<1>20. ASSUME NEW c \in Callers, EndCall(c) PROVE ScmInv'
  BY <1>20 DEF EndCall
<1>21. CASE RemoverControl
  BY <1>21 DEF RemoverControl, Control, Controllable
<1>22. CASE CmdRemoveService
  BY <1>22 DEF CmdRemoveService, RemoverPolls, DeleteService
<1>23. CASE UNCHANGED vars
  BY <1>23
<1>24. QED
  BY <1>1, <1>2, <1>3, <1>4, <1>5, <1>6, <1>7, <1>8, <1>9, <1>10, <1>11, <1>12, <1>13, <1>14,
     <1>15, <1>16, <1>17, <1>18, <1>19, <1>20, <1>21, <1>22, <1>23
  DEF Next, ServiceMain, ServiceCtrl

LEMMA Invariant == Spec => [](TypeOK /\ ScmInv)
<1>1. TypeOK /\ ScmInv /\ [Next]_vars => (TypeOK /\ ScmInv)'
  BY TypeStep, ScmInvStep
<1>2. QED
  BY <1>1, Initially, PTL DEF Spec

-----------------------------------------------------------------------------
\* The variables keep their types.
THEOREM TypeCorrect == Spec => []TypeOK
  BY Invariant, PTL

\* While the SCM says RUNNING the service takes RPCs, unless a report was lost.
THEOREM RunningServes == Spec => []RunningIsListening
<1>1. TypeOK /\ ScmInv => RunningIsListening
  BY DEF TypeOK, ScmInv, ProcessInv, StartingInv, RunningInv, EndingInv, Starting, Ending,
         RunningIsListening
<1>2. QED
  BY <1>1, Invariant, PTL

\* Once STOPPED was reported without an error no RPC is being served.
THEOREM StoppedServesNone == Spec => []StoppedIsQuiet
<1>1. TypeOK /\ ScmInv => StoppedIsQuiet
  BY DEF TypeOK, ScmInv, ProcessInv, StartingInv, QuietInv, LaterInv, Starting, Status,
         StoppedIsQuiet
<1>2. QED
  BY <1>1, Invariant, PTL

\* The two threads that report the status never do so at the same time.
THEOREM NoReportRace == Spec => []ReportsDoNotRace
<1>1. TypeOK /\ ScmInv => ReportsDoNotRace
  BY DEF TypeOK, ScmInv, StartingInv, EndingInv, Starting, Ending, ReportsDoNotRace
<1>2. QED
  BY <1>1, Invariant, PTL

\* The SCM sees a service start, run and stop in that order, until a report is lost.
THEOREM OrderedStatuses == Spec => StatusesInOrder
<1> DEFINE Ordered == dwErr = "error" \/ <<scm.state, scm.state'>> \in InOrder
<1>1. TypeOK /\ ScmInv /\ [Next]_vars => [Ordered]_(scm.state)
  <2> SUFFICES ASSUME TypeOK, ScmInv, [Next]_vars, dwErr = "NO_ERROR", scm.state' # scm.state
               PROVE <<scm.state, scm.state'>> \in InOrder
    BY DEF TypeOK
  <2> USE DEF TypeOK, InOrder, Status, Statuses, States
  <2>1. CASE StartService
    BY <2>1 DEF StartService
  <2>2. CASE Crash
    BY <2>2 DEF Crash
  <2>3. CASE ReportStartPending
    BY <2>3 DEF ReportStartPending, Main, Sent, NotSent, ScmInv, StartingInv, Starting
  <2>4. CASE ReportRunning
    BY <2>4 DEF ReportRunning, Main, Sent, NotSent, NothingToSend, ScmInv, StartingInv
  <2>5. CASE ReportStopped
    BY <2>5 DEF ReportStopped, Main, Sent, NotSent, ScmInv, EndingInv, Ending
  <2>6. CASE ReportControl
    <3>1. mode = "scm" /\ scm' = ssStatus /\ handler \in {"stopping", "answering"}
      BY <2>6 DEF ReportControl, Sent, NotSent
    <3>2. main = "wait"
      BY <3>1 DEF ScmInv, StartingInv, EndingInv, Starting, Ending
    <3>3. QED
      BY <3>1, <3>2 DEF ScmInv, RunningInv
  <2>7. QED
    <3>1. scm' = scm \/ StartService \/ Crash \/ ReportStartPending \/ ReportRunning
            \/ ReportStopped \/ ReportControl
      BY DEF Next, vars, ServiceMain, ServiceCtrl, CmdDebugService, RegisterHandler, RpcFails,
             RpcServerUseProtseqEp, RpcServerRegisterIf, RpcServerListen,
             RpcMgmtWaitServerListen, FillStopped, Exit, Administrator, Control, CtrlC, FillControl,
             ServiceStop, BeginCall, EndCall, RemoverControl, CmdRemoveService, RemoverPolls,
             DeleteService
    <3>2. QED
      BY <3>1, <2>1, <2>2, <2>3, <2>4, <2>5, <2>6
<1>2. QED
  BY <1>1, Invariant, PTL DEF Spec, StatusesInOrder

-----------------------------------------------------------------------------
(* How a start that fails ends, and a stop *)

\* What is reported last, of a start that failed and of a stop that no error came into;
\* and whom CmdRemoveService waits for.
FailedInv ==
  /\ failed # "none" => main \in Ending
  /\ mode = "scm" /\ failed # "none" =>
       /\ scm.state \in {"START_PENDING", "STOPPED"} /\ handler = "idle"
       /\ server = "deaf" /\ calls = {}
       /\ main = "stopping" => ssStatus.state = "STOPPED"

LastInv ==
  mode = "scm" /\ dwErr = "NO_ERROR" =>
    /\ main = "stopping" => ssStatus = Status("STOPPED", "NO_ERROR")
    /\ main = "returned" => scm.state # "STOP_PENDING"
    /\ main = "returned" /\ failed # "none" => scm.state = "STOPPED"

RemoverInv == remover = "control" => mode = "scm" /\ handler \in {"STOP", "stopping", "stop"}

EndInv == FailedInv /\ LastInv /\ RemoverInv

LEMMA EndInvStep == TypeOK /\ ScmInv /\ EndInv /\ [Next]_vars => EndInv'
<1> SUFFICES ASSUME TypeOK, ScmInv, EndInv, [Next]_vars PROVE EndInv'
  OBVIOUS
<1> USE DEF TypeOK, vars, process, Status, Statuses, States, Errors, ScmInv, ProcessInv,
            StartingInv, EndingInv, LaterInv, Starting, Ending, EndInv, FailedInv, LastInv,
            RemoverInv
<1>1. CASE StartService
  BY <1>1 DEF StartService, NewProcess
<1>2. CASE CmdDebugService
  BY <1>2 DEF CmdDebugService, NewProcess
<1>3. CASE Crash
  BY <1>3 DEF Crash, EndProcess
<1>4. CASE RegisterHandler
  BY <1>4 DEF RegisterHandler, Main, Fill
<1>5. CASE ReportStartPending
  BY <1>5 DEF ReportStartPending, Main, Sent, NotSent
<1>6. CASE RpcServerUseProtseqEp
  BY <1>6 DEF RpcServerUseProtseqEp, RpcFails, Main
<1>7. CASE RpcServerRegisterIf
  BY <1>7 DEF RpcServerRegisterIf, RpcFails, Main
<1>8. CASE RpcServerListen
  BY <1>8 DEF RpcServerListen, RpcFails, Main, Fill
<1>9. CASE ReportRunning
  BY <1>9 DEF ReportRunning, Main, Sent, NotSent, NothingToSend
<1>10. CASE RpcMgmtWaitServerListen
  BY <1>10 DEF RpcMgmtWaitServerListen, Main
<1>11. CASE FillStopped
  BY <1>11 DEF FillStopped, Main, Fill
<1>12. CASE ReportStopped
  <2> UNCHANGED <<mode, handler, server, calls, failed, remover>> /\ mode = "scm"
    BY <1>12 DEF ReportStopped, Sent, NotSent
  <2> main = "stopping" /\ main' = "returned"
    BY <1>12 DEF ReportStopped, Main
  <2>1. CASE Sent
    BY <2>1 DEF Sent
  <2>2. CASE NotSent
    <3>1. dwErr' = "error" /\ UNCHANGED scm
      BY <2>2 DEF NotSent
    <3> QED
      BY <3>1
  <2> QED
    BY <1>12, <2>1, <2>2 DEF ReportStopped
<1>13. CASE Exit
  BY <1>13 DEF Exit, EndProcess
<1>14. CASE FillControl
  BY <1>14 DEF FillControl, Fill
<1>15. CASE ReportControl
  BY <1>15 DEF ReportControl, Sent, NotSent
<1>16. CASE ServiceStop
  BY <1>16 DEF ServiceStop, ControlReturns
<1>17. CASE Administrator
  BY <1>17 DEF Administrator, Control, Controllable
<1>18. CASE CtrlC
  BY <1>18 DEF CtrlC
<1>19. ASSUME NEW c \in Callers, BeginCall(c) PROVE EndInv'
  BY <1>19 DEF BeginCall
<1>20. ASSUME NEW c \in Callers, EndCall(c) PROVE EndInv'
  BY <1>20 DEF EndCall
<1>21. CASE RemoverControl
  BY <1>21 DEF RemoverControl, Control, Controllable
<1>22. CASE CmdRemoveService
  BY <1>22 DEF CmdRemoveService, RemoverPolls, DeleteService
<1>23. CASE UNCHANGED vars
  BY <1>23
<1>24. QED
  BY <1>1, <1>2, <1>3, <1>4, <1>5, <1>6, <1>7, <1>8, <1>9, <1>10, <1>11, <1>12, <1>13, <1>14,
     <1>15, <1>16, <1>17, <1>18, <1>19, <1>20, <1>21, <1>22, <1>23
  DEF Next, ServiceMain, ServiceCtrl

LEMMA EndInvariant == Spec => []EndInv
<1>1. Init => EndInv
  BY DEF Init, EndInv, FailedInv, LastInv, RemoverInv
<1> QED
  BY <1>1, EndInvStep, Invariant, PTL DEF Spec

\* A failed start is never seen as a running service, takes no RPC and no control, and is
\* seen as stopped in the end.
THEOREM FailedNeverRuns == Spec => []FailedStartNeverRuns
<1>1. EndInv => FailedStartNeverRuns
  BY DEF EndInv, FailedInv, LastInv, FailedStartNeverRuns
<1> QED
  BY <1>1, EndInvariant, PTL

\* A stop the SCM knows of is with the handler or with the thread that reports its end.
THEOREM StopsAreOnTheirWay == Spec => []StopIsOnItsWay
<1>1. TypeOK /\ ScmInv /\ EndInv => StopIsOnItsWay
  <2> SUFFICES ASSUME TypeOK, ScmInv, EndInv PROVE StopIsOnItsWay
    OBVIOUS
  <2>1. ASSUME scm.state = "STOP_PENDING", dwErr = "NO_ERROR"
        PROVE  /\ mode = "scm" /\ main \in {"wait", "cleanup", "stopping"}
               /\ handler = "stop" \/ server = "deaf"
               /\ main = "stopping" => ssStatus = Status("STOPPED", "NO_ERROR")
    <3>1. mode = "scm"
      BY <2>1 DEF ScmInv, ProcessInv
    <3>2. main \in {"wait", "cleanup", "stopping"}
      BY <2>1, <3>1 DEF TypeOK, ScmInv, StartingInv, Starting, EndInv, LastInv
    <3>3. handler = "stop" \/ server = "deaf"
      BY <2>1, <3>1, <3>2 DEF TypeOK, ScmInv, RunningInv, EndingInv, Ending
    <3> QED
      BY <2>1, <3>1, <3>2, <3>3 DEF EndInv, LastInv
  <2> QED
    BY <2>1 DEF EndInv, RemoverInv, StopIsOnItsWay
<1> QED
  BY <1>1, Invariant, EndInvariant, PTL

LEMMA StopStep ==
  ASSUME TypeOK, ScmInv, EndInv, [Next]_vars,
         scm.state = "STOP_PENDING", scm'.state = "STOP_PENDING", dwErr' = "NO_ERROR"
  PROVE  /\ server = "deaf" => server' = "deaf" /\ calls' \subseteq calls
         /\ main' = main \/ <<main, main'>> \in {<<"wait", "cleanup">>, <<"cleanup", "stopping">>}
         /\ handler' = handler \/ (handler = "stop" /\ handler' = "idle")
<1> DEFINE Forward ==
      /\ server = "deaf" => server' = "deaf" /\ calls' \subseteq calls
      /\ main' = main \/ <<main, main'>> \in {<<"wait", "cleanup">>, <<"cleanup", "stopping">>}
      /\ handler' = handler \/ (handler = "stop" /\ handler' = "idle")
<1> SUFFICES Forward
  OBVIOUS
<1>0. mode = "scm"
  BY DEF ScmInv, ProcessInv
<1>1. CASE StartService \/ CmdDebugService \/ Crash \/ Exit
  BY <1>0, <1>1 DEF StartService, CmdDebugService, NewProcess, Crash, Exit, EndProcess, Status
\* No report was lost before either: main is where a stop is on its way.
<1>2. CASE RegisterHandler \/ ReportStartPending \/ RpcServerUseProtseqEp \/ RpcServerRegisterIf
             \/ RpcServerListen \/ ReportRunning
  <2>1. main \in Starting \cup {"running"}
    BY <1>2 DEF RegisterHandler, ReportStartPending, RpcServerUseProtseqEp, RpcServerRegisterIf,
                RpcServerListen, ReportRunning, RpcFails, Main, Starting
  <2> QED
    BY <1>0, <2>1 DEF ScmInv, StartingInv
<1>3. CASE RpcMgmtWaitServerListen
  BY <1>3 DEF RpcMgmtWaitServerListen, Main
<1>4. CASE FillStopped
  BY <1>0, <1>4 DEF FillStopped, Main
<1>5. CASE ReportStopped
  <2>1. main = "stopping" /\ main' = "returned" /\ UNCHANGED <<mode, ssStatus>>
    BY <1>5 DEF ReportStopped, Main
  <2>2. Sent
    BY <1>5 DEF ReportStopped, NotSent
  <2>3. dwErr = "NO_ERROR" /\ scm' = ssStatus
    BY <2>2 DEF Sent
  <2>4. ssStatus.state = "STOPPED"
    BY <1>0, <2>1, <2>3 DEF EndInv, LastInv, Status
  <2> QED
    BY <2>3, <2>4
<1>6. CASE ServiceCtrl
  <2>1. UNCHANGED <<main, calls>> /\ server' \in {server, "deaf"}
    BY <1>6 DEF ServiceCtrl, FillControl, ReportControl, ServiceStop
  <2>2. CASE handler \in {"STOP", "INTERROGATE", "stopping", "answering"}
    <3>1. dwErr = "NO_ERROR"
      BY <1>6, <2>2 DEF ServiceCtrl, FillControl, ReportControl, Sent, NotSent, ServiceStop
    <3>2. main = "wait"
      BY <1>0, <2>2, <3>1 DEF TypeOK, ScmInv, StartingInv, EndingInv, Starting, Ending
    <3> QED
      BY <1>0, <2>2, <3>1, <3>2 DEF ScmInv, RunningInv
  <2>3. CASE handler = "stop"
    BY <1>6, <2>1, <2>3
    DEF ServiceCtrl, FillControl, ReportControl, ServiceStop, ControlReturns
  <2> QED
    BY <1>6, <2>2, <2>3 DEF ServiceCtrl, FillControl, ReportControl, ServiceStop
<1>7. CASE Administrator \/ CtrlC
  BY <1>0, <1>7 DEF Administrator, Control, Controllable, CtrlC
<1>8. ASSUME NEW c \in Callers, BeginCall(c) PROVE Forward
  BY <1>8 DEF BeginCall
<1>9. ASSUME NEW c \in Callers, EndCall(c) PROVE Forward
  BY <1>9 DEF EndCall
<1>10. CASE RemoverControl
  BY <1>10 DEF RemoverControl, Control, Controllable, process
<1>11. CASE CmdRemoveService
  BY <1>11 DEF CmdRemoveService, RemoverPolls, DeleteService, process
<1>12. CASE UNCHANGED vars
  BY <1>12 DEF vars, process
<1> QED
  BY <1>1, <1>2, <1>3, <1>4, <1>5, <1>6, <1>7, <1>8, <1>9, <1>10, <1>11, <1>12
  DEF Next, ServiceMain

\* A stop that the SCM knows of only goes forward.
THEOREM StopsGoForward == Spec => StopGoesForward
<1>1. TypeOK /\ ScmInv /\ EndInv /\ [Next]_vars =>
        [scm.state = "STOP_PENDING" /\ scm'.state = "STOP_PENDING" /\ dwErr' = "NO_ERROR" =>
           /\ server = "deaf" => server' = "deaf" /\ calls' \subseteq calls
           /\ main' = main \/ <<main, main'>> \in {<<"wait", "cleanup">>, <<"cleanup", "stopping">>}
           /\ handler' = handler \/ (handler = "stop" /\ handler' = "idle")]_vars
  BY StopStep
<1> QED
  BY <1>1, Invariant, EndInvariant, PTL DEF Spec, StopGoesForward
=============================================================================
