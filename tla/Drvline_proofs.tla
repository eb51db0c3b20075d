---------------------------- MODULE Drvline_proofs ----------------------------
(***************************************************************************)
(* Proofs about Drvline, for every set of calls and channels, whatever the  *)
(* registry's setting, and any bound on a message's call objects.           *)
(*                                                                          *)
(* No property of Drvline is inductive alone: what an action may do depends *)
(* on the place its thread has reached, and on what held when that thread   *)
(* started.  LineInv says what is known at each place; LineInv and TypeOK   *)
(* are proved together, and the properties follow.                          *)
(***************************************************************************)
EXTENDS Drvline, TLAPS

\* What is known of the line at a place of the entry point in progress.
PlaceInv ==
  /\ ProviderReportsACall
  /\ pc \in {"rpc", "dial"} => ~bIncomingCall
  /\ pc = "start" => ~answered
  /\ pc \in {"release", "join"} => held = {}
  /\ pc = "join" => ctx = "none"
  /\ pc \in {"object", "report", "hangup", "completed", "signal"} => bConnected /\ open
  /\ pc \in {"report", "hangup", "completed"} /\ msgData.direction = "inbound" => bIncomingCall

\* A call or a context in the service only with a line, and a connected one.
LinkInv ==
  /\ htCall # NoCall => open
  /\ htCall # NoCall => bConnected
  /\ ctx # "none" => open
  /\ ctx # "none" => bConnected
  /\ WatchdogWithinLine

\* The current call is the one TAPI holds, and bIncomingCall is about it.
CallInv ==
  /\ HeldCallIsCurrent
  /\ bIncomingCall => origin = "offered"
  /\ htCall = NoCall => ~bIncomingCall

\* What the watchdog may still do, against what the entry points have done.
WatchdogInv ==
  /\ DisconnectIsTransient
  /\ AnsweredInTime
  /\ answered /\ wd \in {"reset", "wait", "test"} => dwCallState # "dialing"

LineInv == PlaceInv /\ LinkInv /\ CallInv /\ WatchdogInv

-----------------------------------------------------------------------------
\* Every action assigns flags to the flags.
LEMMA FlagsStep == Flags /\ [Next]_vars => Flags'
  BY ZenonT(60)
  DEF Flags, vars, callVars, dataVars, linkVars, wdVars, Next, Request, Continue, Watchdog,
      TSPI_lineOpen, TSPI_lineMakeCall, ConnectToServer, MakeCallReply, Dial,
      StartWatchdogThread, TSPI_lineDrop, ReportIdle, TSPI_lineCloseCall, ReleaseCall,
      TSPI_lineClose, DestroyLine, TSPI_lineDevSpecific, ProcessCallMessage, NewCall, Report,
      HangupCompleted, ReportCompleted, SignalEvent, MessageDone, WatchdogReset,
      WatchdogSignalled, WatchdogTimeout, WatchdogTest, WatchdogDisconnect, WatchdogHangup,
      WatchdogIdle, WatchdogStep, ServiceLost, DllMain, LineGone

\* Every action keeps the types; the call MakeCall's answer gives TAPI is not NULL.
LEMMA TypeStep == TypeOK /\ PlaceInv /\ [Next]_vars => TypeOK'
<1> SUFFICES ASSUME TypeOK, PlaceInv, [Next]_vars PROVE TypeOK'
  OBVIOUS
<1>f. Flags'
  BY FlagsStep DEF TypeOK
<1> USE <1>f
        DEF TypeOK, PlaceInv, ProviderReportsACall, vars, callVars, dataVars, linkVars, wdVars,
            SetCallState
<1>1. CASE TSPI_lineOpen
  BY <1>1 DEF TSPI_lineOpen
<1>2. ASSUME NEW c \in Calls, TSPI_lineMakeCall(c)
     PROVE  TypeOK'
  BY <1>2 DEF TSPI_lineMakeCall, ConnectToServer, AnotherCall
<1>3. CASE MakeCallReply
  BY <1>3 DEF MakeCallReply
<1>4. CASE Dial
  BY <1>4 DEF Dial, SetCallState, CallStates
<1>5. CASE StartWatchdogThread
  BY <1>5 DEF StartWatchdogThread
<1>6. CASE TSPI_lineDrop
  BY <1>6 DEF TSPI_lineDrop, DropActiveCall
<1>7. CASE ReportIdle
  BY <1>7 DEF ReportIdle, SetCallState, CallStates
<1>8. ASSUME NEW c \in Calls, TSPI_lineCloseCall(c)
     PROVE  TypeOK'
  BY <1>8 DEF TSPI_lineCloseCall, DropActiveCall
<1>9. CASE ReleaseCall
  BY <1>9 DEF ReleaseCall
<1>10. CASE TSPI_lineClose
  BY <1>10 DEF TSPI_lineClose
<1>11. CASE DestroyLine
  BY <1>11 DEF DestroyLine, LineGone, CallStates
<1>12. CASE TSPI_lineDevSpecific
  BY <1>12, ConstantsAssumption DEF TSPI_lineDevSpecific, ProcessMessage
<1>13. ASSUME NEW m \in Messages, NEW channel \in Channels \cup {NoChannel},
            ProcessCallMessage(m, channel)
     PROVE  TypeOK'
  BY <1>13, ConstantsAssumption
    DEF ProcessCallMessage, NextObject, NewCall, shouldProcessIncomingCalls
<1>14. CASE Report
  BY <1>14 DEF Report, SetCallState, CallStates
<1>15. CASE HangupCompleted
  BY <1>15 DEF HangupCompleted, DropActiveCall
<1>16. CASE ReportCompleted
  BY <1>16 DEF ReportCompleted, SetCallState, CallStates
<1>17. CASE SignalEvent
  BY <1>17 DEF SignalEvent
<1>18. CASE MessageDone
  BY <1>18 DEF MessageDone
<1>19. CASE Watchdog
  BY <1>19 DEF Watchdog, WatchdogReset, WatchdogSignalled, WatchdogTimeout, WatchdogTest,
               WatchdogDisconnect, WatchdogHangup, WatchdogIdle, WatchdogStep,
               SetCallState, DropActiveCall, CallStates
<1>20. CASE ServiceLost
  BY <1>20 DEF ServiceLost
<1>21. CASE DllMain
  BY <1>21, ConstantsAssumption DEF DllMain, LineGone, CallStates
<1>22. CASE UNCHANGED vars
  BY <1>22
<1> QED
  BY <1>1, <1>2, <1>3, <1>4, <1>5, <1>6, <1>7, <1>8, <1>9, <1>10, <1>11, <1>12, <1>13,
     <1>14, <1>15, <1>16, <1>17, <1>18, <1>19, <1>20, <1>21, <1>22
  DEF Next, Request, Continue

\* LineInv is preserved by every step of either thread, TAPI and the service.
LEMMA LineStep == TypeOK /\ LineInv /\ [Next]_vars => LineInv'
<1> SUFFICES ASSUME TypeOK, LineInv, [Next]_vars PROVE LineInv'
  OBVIOUS
<1> USE ConstantsAssumption
    DEF TypeOK, Flags, LineInv, PlaceInv, LinkInv, CallInv, WatchdogInv, ProviderReportsACall,
        WatchdogWithinLine, HeldCallIsCurrent, DisconnectIsTransient, AnsweredInTime,
        WatchdogKilling, WatchdogRunning, Joined, CallStates, vars, callVars, dataVars,
        linkVars, wdVars
<1>1. CASE TSPI_lineOpen
  BY <1>1 DEF TSPI_lineOpen
<1>2. ASSUME NEW c \in Calls, TSPI_lineMakeCall(c)
     PROVE  LineInv'
  <2>1. CASE UNCHANGED vars
    BY <2>1
  <2>2. CASE htCall = NoCall /\ ConnectToServer /\ htCall' = c /\ pc' = "rpc"
    <3>1. PlaceInv'
      BY <1>2, <2>2 DEF TSPI_lineMakeCall, ConnectToServer
    <3>2. LinkInv'
      BY <1>2, <2>2 DEF TSPI_lineMakeCall, ConnectToServer
    <3>3. CallInv'
      BY <1>2, <2>2 DEF TSPI_lineMakeCall
    <3>4. WatchdogInv'
      BY <1>2, <2>2 DEF TSPI_lineMakeCall
    <3> QED
      BY <3>1, <3>2, <3>3, <3>4
  <2> QED
    BY <1>2, <2>1, <2>2 DEF TSPI_lineMakeCall, AnotherCall
<1>3. CASE MakeCallReply
  BY <1>3 DEF MakeCallReply
<1>4. CASE Dial
  BY <1>4 DEF Dial, SetCallState
<1>5. CASE StartWatchdogThread
  BY <1>5 DEF StartWatchdogThread
<1>6. CASE TSPI_lineDrop
  BY <1>6 DEF TSPI_lineDrop
<1>7. CASE ReportIdle
  BY <1>7 DEF ReportIdle, SetCallState
<1>8. ASSUME NEW c \in Calls, TSPI_lineCloseCall(c)
     PROVE  LineInv'
  BY <1>8 DEF TSPI_lineCloseCall
<1>9. CASE ReleaseCall
  BY <1>9 DEF ReleaseCall
<1>10. CASE TSPI_lineClose
  BY <1>10 DEF TSPI_lineClose
<1>11. CASE DestroyLine
  BY <1>11 DEF DestroyLine, LineGone
<1>12. CASE TSPI_lineDevSpecific
  BY <1>12 DEF TSPI_lineDevSpecific, ProcessMessage
<1>13. ASSUME NEW m \in Messages, NEW channel \in Channels \cup {NoChannel},
            ProcessCallMessage(m, channel)
     PROVE  LineInv'
  BY <1>13 DEF ProcessCallMessage, NextObject, NewCall, shouldProcessIncomingCalls
<1>14. CASE Report
  BY <1>14 DEF Report, SetCallState
<1>15. CASE HangupCompleted
  BY <1>15 DEF HangupCompleted
<1>16. CASE ReportCompleted
  BY <1>16 DEF ReportCompleted, SetCallState
<1>17. CASE SignalEvent
  BY <1>17 DEF SignalEvent
<1>18. CASE MessageDone
  BY <1>18 DEF MessageDone
<1>19. CASE Watchdog
  BY <1>19 DEF Watchdog, WatchdogReset, WatchdogSignalled, WatchdogTimeout, WatchdogTest,
               WatchdogDisconnect, WatchdogHangup, WatchdogIdle, WatchdogStep, SetCallState
<1>20. CASE ServiceLost
  BY <1>20 DEF ServiceLost
<1>21. CASE DllMain
  BY <1>21 DEF DllMain, LineGone
<1>22. CASE UNCHANGED vars
  BY <1>22
<1> QED
  BY <1>1, <1>2, <1>3, <1>4, <1>5, <1>6, <1>7, <1>8, <1>9, <1>10, <1>11, <1>12, <1>13,
     <1>14, <1>15, <1>16, <1>17, <1>18, <1>19, <1>20, <1>21, <1>22
  DEF Next, Request, Continue

-----------------------------------------------------------------------------
LEMMA Inductive == Spec => [](TypeOK /\ LineInv)
<1>1. Init => TypeOK /\ LineInv
  <2> SUFFICES ASSUME Init PROVE TypeOK /\ LineInv
    OBVIOUS
  <2>1. Flags
    BY Zenon DEF Init, Flags
  <2>2. TypeOK
    BY <2>1, ConstantsAssumption DEF Init, TypeOK, CallStates
  <2>3. LineInv
    BY DEF Init, LineInv, PlaceInv, LinkInv, CallInv, WatchdogInv, ProviderReportsACall,
           WatchdogWithinLine, HeldCallIsCurrent, DisconnectIsTransient, AnsweredInTime,
           WatchdogKilling, WatchdogRunning, Joined
  <2> QED
    BY <2>2, <2>3
<1>2. TypeOK /\ LineInv /\ [Next]_vars => (TypeOK /\ LineInv)'
  BY TypeStep, LineStep DEF LineInv
<1> QED
  BY <1>1, <1>2, PTL DEF Spec

\* The line's variables keep their types (Drvline!TypeOK).
THEOREM TypeCorrect == Spec => []TypeOK
  BY Inductive, PTL

\* A call TAPI holds is always the line's current one.
THEOREM OneCall == Spec => []HeldCallIsCurrent
<1>1. LineInv => HeldCallIsCurrent
  BY DEF LineInv, CallInv
<1> QED
  BY <1>1, Inductive, PTL

\* No call without a connected line.
THEOREM ConnectedCalls == Spec => []CallImpliesConnection
<1>1. LineInv => CallImpliesConnection
  BY DEF LineInv, PlaceInv, LinkInv, CallImpliesConnection
<1> QED
  BY <1>1, Inductive, PTL

\* No entry point reports on a call, or hangs one up, that there is not.
THEOREM ReportsHaveACall == Spec => []ProviderReportsACall
<1>1. LineInv => ProviderReportsACall
  BY DEF LineInv, PlaceInv
<1> QED
  BY <1>1, Inductive, PTL

\* DISCONNECTED is always on its way to IDLE.
THEOREM DisconnectPasses == Spec => []DisconnectIsTransient
<1>1. LineInv => DisconnectIsTransient
  BY DEF LineInv, WatchdogInv
<1> QED
  BY <1>1, Inductive, PTL

\* No inbound message moves an outbound call.
THEOREM InboundKeptApart == Spec => []InboundLeavesOutbound
<1>1. LineInv => InboundLeavesOutbound
  BY DEF LineInv, PlaceInv, CallInv, InboundLeavesOutbound
<1> QED
  BY <1>1, Inductive, PTL

\* An answer in time keeps the watchdog from the call.
THEOREM AnswerKeepsCall == Spec => []AnsweredInTime
<1>1. LineInv => AnsweredInTime
  BY DEF LineInv, WatchdogInv
<1> QED
  BY <1>1, Inductive, PTL

\* The watchdog never outlives the line object.
THEOREM WatchdogJoined == Spec => []WatchdogWithinLine
<1>1. LineInv => WatchdogWithinLine
  BY DEF LineInv, LinkInv
<1> QED
  BY <1>1, Inductive, PTL

-----------------------------------------------------------------------------
(* DIALING, calls that are lost, and the work of a request *)

\* Each step of the entry points and of the watchdog leaves DIALING with one that looks.
LEMMA WatchedStep == TypeOK /\ DialingIsWatched /\ [Next]_vars => DialingIsWatched'
<1> SUFFICES ASSUME TypeOK, DialingIsWatched, [Next]_vars PROVE DialingIsWatched'
  OBVIOUS
<1> USE DEF DialingIsWatched, TypeOK, vars, callVars, dataVars, linkVars, wdVars, SetCallState
<1>1. CASE TSPI_lineOpen \/ TSPI_lineDrop \/ TSPI_lineClose \/ TSPI_lineDevSpecific
  BY <1>1 DEF TSPI_lineOpen, TSPI_lineDrop, TSPI_lineClose, TSPI_lineDevSpecific
<1>2. ASSUME NEW c \in Calls, TSPI_lineMakeCall(c) \/ TSPI_lineCloseCall(c)
      PROVE  DialingIsWatched'
  BY <1>2 DEF TSPI_lineMakeCall, TSPI_lineCloseCall
<1>3. CASE MakeCallReply \/ Dial \/ StartWatchdogThread \/ ReportIdle \/ ReleaseCall \/ DestroyLine
  BY <1>3 DEF MakeCallReply, Dial, StartWatchdogThread, ReportIdle, ReleaseCall, DestroyLine,
              LineGone
<1>4. ASSUME NEW m \in Messages, NEW channel \in Channels \cup {NoChannel},
             ProcessCallMessage(m, channel)
      PROVE  DialingIsWatched'
  BY <1>4 DEF ProcessCallMessage, NextObject
<1>5. CASE Report \/ HangupCompleted \/ ReportCompleted \/ SignalEvent \/ MessageDone
  BY <1>5 DEF Report, HangupCompleted, ReportCompleted, SignalEvent, MessageDone
<1>6. CASE Watchdog
  BY <1>6 DEF Watchdog, WatchdogReset, WatchdogSignalled, WatchdogTimeout, WatchdogTest,
              WatchdogDisconnect, WatchdogHangup, WatchdogIdle, WatchdogStep
<1>7. CASE ServiceLost \/ DllMain
  BY <1>7 DEF ServiceLost, DllMain, LineGone
<1>8. CASE UNCHANGED vars
  BY <1>8
<1> QED
  BY <1>1, <1>2, <1>3, <1>4, <1>5, <1>6, <1>7, <1>8 DEF Next, Request, Continue

\* A line that shows DIALING is never left without a watchdog to move it on.
THEOREM WatchedDialing == Spec => []DialingIsWatched
<1>1. Init => DialingIsWatched
  BY DEF Init, DialingIsWatched
<1> QED
  BY <1>1, WatchedStep, TypeCorrect, PTL DEF Spec

\* OnlyFailedCallsAreLost and LostCallStays for one step.
LEMMA LostCallStep ==
  ASSUME TypeOK, LineInv, [Next]_vars
  PROVE  /\ ~LostCall /\ LostCall' => pc = "rpc"
         /\ LostCall /\ ~LostCall' => ~open'
<1> USE DEF LostCall, TypeOK, Flags, LineInv, LinkInv, CallInv, HeldCallIsCurrent, vars,
            callVars, dataVars, linkVars, wdVars
<1> DEFINE Kept == (~LostCall /\ LostCall' => pc = "rpc") /\ (LostCall /\ ~LostCall' => ~open')
<1>1. CASE TSPI_lineOpen \/ TSPI_lineDrop \/ TSPI_lineClose \/ TSPI_lineDevSpecific
  BY <1>1 DEF TSPI_lineOpen, TSPI_lineDrop, TSPI_lineClose, TSPI_lineDevSpecific
<1>2. ASSUME NEW c \in Calls, TSPI_lineMakeCall(c) PROVE Kept
  BY <1>2 DEF TSPI_lineMakeCall, AnotherCall
<1>3. ASSUME NEW c \in Calls, TSPI_lineCloseCall(c) PROVE Kept
  BY <1>3 DEF TSPI_lineCloseCall
<1>4. CASE MakeCallReply
  BY <1>4 DEF MakeCallReply
<1>5. CASE Dial \/ StartWatchdogThread \/ ReportIdle \/ ReleaseCall
  BY <1>5 DEF Dial, StartWatchdogThread, ReportIdle, ReleaseCall
<1>6. CASE DestroyLine \/ DllMain
  BY <1>6 DEF DestroyLine, DllMain, LineGone
<1>7. ASSUME NEW m \in Messages, NEW channel \in Channels \cup {NoChannel},
             ProcessCallMessage(m, channel)
      PROVE  Kept
  BY <1>7, ConstantsAssumption DEF ProcessCallMessage, NextObject, NewCall
<1>8. CASE Report \/ HangupCompleted \/ ReportCompleted \/ SignalEvent \/ MessageDone
  BY <1>8 DEF Report, HangupCompleted, ReportCompleted, SignalEvent, MessageDone
<1>9. CASE Watchdog
  BY <1>9 DEF Watchdog, WatchdogReset, WatchdogSignalled, WatchdogTimeout, WatchdogTest,
              WatchdogDisconnect, WatchdogHangup, WatchdogIdle, WatchdogStep
<1>10. CASE ServiceLost \/ UNCHANGED vars
  BY <1>10 DEF ServiceLost
<1> QED
  BY <1>1, <1>2, <1>3, <1>4, <1>5, <1>6, <1>7, <1>8, <1>9, <1>10 DEF Next, Request, Continue

\* Only a lineMakeCall that fails leaves a call behind, and nothing but the line's end
\* takes it away: what FreeLineTakesACall runs into is neither rarer nor milder.
THEOREM LostCallsStay == Spec => OnlyFailedCallsAreLost /\ LostCallStays
<1> DEFINE Failed == ~LostCall /\ LostCall' => pc = "rpc"
           Stays  == LostCall /\ ~LostCall' => ~open'
<1>1. (TypeOK /\ LineInv) /\ [Next]_vars => [Failed]_vars /\ [Stays]_vars
  BY LostCallStep
<1> QED
  BY <1>1, Inductive, PTL DEF Spec, OnlyFailedCallsAreLost, LostCallStays

\* The work that is left is bounded by the message's size.
LEMMA WorkLeftBound ==
  TypeOK => /\ StepsLeft[pc] \in 0..5 /\ WatchdogLeft[wd] \in 0..6
            /\ WorkLeft <= 6 * MaxObjects + 11
<1> SUFFICES ASSUME TypeOK
             PROVE  /\ StepsLeft[pc] \in 0..5 /\ WatchdogLeft[wd] \in 0..6
                    /\ WorkLeft <= 6 * MaxObjects + 11
  OBVIOUS
<1>1. StepsLeft[pc] \in 0..5
  BY DEF TypeOK, StepsLeft
<1>2. WatchdogLeft[wd] \in 0..6
  BY DEF TypeOK, WatchdogLeft
<1>3. objects \in 0..MaxObjects /\ MaxObjects \in Nat
  BY ConstantsAssumption DEF TypeOK
<1> QED
  BY <1>1, <1>2, <1>3 DEF WorkLeft

\* Each step of an entry point or of the watchdog is work done.
LEMMA WorkStep ==
  ASSUME TypeOK, TypeOK', [Next]_vars, pc # "idle", pc' # "idle"
  PROVE  WorkLeft' \in 0..(WorkLeft - 1) \/ UNCHANGED <<pc, objects, wd>>
<1> DEFINE Done == WorkLeft' < WorkLeft \/ UNCHANGED <<pc, objects, wd>>
<1>n. /\ objects \in Nat /\ StepsLeft[pc] \in Nat /\ WatchdogLeft[wd] \in Nat
      /\ objects' \in Nat /\ StepsLeft[pc'] \in Nat /\ WatchdogLeft[wd'] \in Nat
  <2>1. objects \in Nat /\ objects' \in Nat
    BY ConstantsAssumption DEF TypeOK
  <2>2. StepsLeft[pc] \in Nat /\ StepsLeft[pc'] \in Nat
    BY DEF TypeOK, StepsLeft
  <2>3. WatchdogLeft[wd] \in Nat /\ WatchdogLeft[wd'] \in Nat
    BY DEF TypeOK, WatchdogLeft
  <2> QED
    BY <2>1, <2>2, <2>3
<1>w. WorkLeft \in Nat /\ WorkLeft' \in Nat
  BY <1>n DEF WorkLeft
<1> SUFFICES Done
  BY <1>w
\* A step of an entry point.
<1>e. ASSUME UNCHANGED <<objects, wd>>, StepsLeft[pc'] < StepsLeft[pc] PROVE WorkLeft' < WorkLeft
  BY <1>e, <1>n DEF WorkLeft
<1>1. CASE MakeCallReply
  <2>1. UNCHANGED <<objects, wd>> /\ pc = "rpc" /\ pc' \in {"dial", "end", "idle"}
    BY <1>1 DEF MakeCallReply, linkVars, wdVars
  <2>2. StepsLeft[pc'] < StepsLeft[pc]
    BY <2>1 DEF StepsLeft
  <2> QED
    BY <2>1, <2>2, <1>e
<1>2. CASE Dial
  <2>1. UNCHANGED <<objects, wd>> /\ pc = "dial" /\ pc' = "start"
    BY <1>2 DEF Dial
  <2>2. StepsLeft[pc'] < StepsLeft[pc]
    BY <2>1 DEF StepsLeft
  <2> QED
    BY <2>1, <2>2, <1>e
<1>3. CASE StartWatchdogThread \/ ReportIdle \/ ReleaseCall \/ DestroyLine \/ MessageDone
  BY <1>3 DEF StartWatchdogThread, ReportIdle, ReleaseCall, DestroyLine, LineGone, MessageDone
<1>4. ASSUME NEW m \in Messages, NEW channel \in Channels \cup {NoChannel},
             ProcessCallMessage(m, channel)
      PROVE  Done
  <2>1. objects' = objects - 1 /\ pc = "object" /\ pc' \in {"object", "report"} /\ wd' = wd
    BY <1>4 DEF ProcessCallMessage, NextObject, NewCall, wdVars
  <2>2. StepsLeft[pc] = 1 /\ StepsLeft[pc'] <= 5
    BY <2>1 DEF StepsLeft
  <2> QED
    BY <2>1, <2>2, <1>n DEF WorkLeft
<1>5. CASE Report
  <2>1. UNCHANGED <<objects, wd>> /\ pc = "report" /\ pc' \in {"signal", "hangup"}
    BY <1>5 DEF Report
  <2>2. StepsLeft[pc'] < StepsLeft[pc]
    BY <2>1 DEF StepsLeft
  <2> QED
    BY <2>1, <2>2, <1>e
<1>6. CASE HangupCompleted \/ ReportCompleted \/ SignalEvent
  <2>1. /\ UNCHANGED <<objects, wd>>
        /\ \/ pc = "hangup" /\ pc' = "completed"
           \/ pc = "completed" /\ pc' = "signal"
           \/ pc = "signal" /\ pc' = "object"
    BY <1>6 DEF HangupCompleted, ReportCompleted, SignalEvent, wdVars
  <2>2. StepsLeft[pc'] < StepsLeft[pc]
    BY <2>1 DEF StepsLeft
  <2> QED
    BY <2>1, <2>2, <1>e
\* A step of the watchdog.
<1>7. CASE Watchdog
  <2>1. UNCHANGED <<pc, objects>> /\ WatchdogLeft[wd'] < WatchdogLeft[wd]
    BY <1>7 DEF Watchdog, WatchdogReset, WatchdogSignalled, WatchdogTimeout, WatchdogTest,
                WatchdogDisconnect, WatchdogHangup, WatchdogIdle, WatchdogStep, WatchdogLeft
  <2> QED
    BY <2>1, <1>n DEF WorkLeft
\* The others do not come while an entry point is in progress, or do not concern it.
<1>8. CASE Request
  BY <1>8 DEF Request, TSPI_lineOpen, TSPI_lineDrop, TSPI_lineClose, TSPI_lineDevSpecific,
              TSPI_lineMakeCall, TSPI_lineCloseCall
<1>9. CASE ServiceLost \/ DllMain \/ UNCHANGED vars
  BY <1>9 DEF ServiceLost, DllMain, LineGone, vars, wdVars
<1> QED
  BY <1>1, <1>2, <1>3, <1>4, <1>5, <1>6, <1>7, <1>8, <1>9 DEF Next, Continue

\* An entry point in progress returns after a bounded number of steps of its own and of
\* the watchdog: the safety half of OperationsReturn.
THEOREM RequestsAreBounded == Spec => WorkRunsOut /\ [](WorkLeft <= 6 * MaxObjects + 11)
<1> DEFINE Out == pc # "idle" /\ pc' # "idle" =>
                    WorkLeft' \in 0..(WorkLeft - 1) \/ UNCHANGED <<pc, objects, wd>>
<1>1. TypeOK /\ TypeOK' /\ [Next]_vars => [Out]_vars
  BY WorkStep
<1>2. TypeOK => WorkLeft <= 6 * MaxObjects + 11
  BY WorkLeftBound
<1> QED
  BY <1>1, <1>2, TypeCorrect, PTL DEF Spec, WorkRunsOut

-----------------------------------------------------------------------------
(* The line implements LineCall: a step of the line is a step of the one    *)
(* place for a call, or leaves handle and state alone.                      *)

LEMMA LineCallStep == TypeOK /\ LineInv /\ [Next]_vars => [LC!Next]_<<htCall, dwCallState>>
<1> SUFFICES ASSUME TypeOK, LineInv, [Next]_vars
             PROVE  LC!Next \/ UNCHANGED <<htCall, dwCallState>>
  OBVIOUS
<1> USE DEF vars, callVars, dataVars, linkVars, wdVars, SetCallState
<1>1. ASSUME NEW c \in Calls, TSPI_lineMakeCall(c)
      PROVE  LC!Next \/ UNCHANGED <<htCall, dwCallState>>
  <2>1. UNCHANGED <<htCall, dwCallState>> \/ LC!Occupy(c)
    BY <1>1 DEF TSPI_lineMakeCall, AnotherCall, LC!Occupy
  <2> QED
    BY <2>1 DEF LC!Next
<1>2. CASE Dial
  BY <1>2 DEF Dial, LineInv, PlaceInv, ProviderReportsACall, LC!Next, LC!Dial
<1>3. CASE ReportIdle \/ ReportCompleted \/ WatchdogIdle
  BY <1>3 DEF ReportIdle, ReportCompleted, WatchdogIdle, WatchdogStep, LC!Next, LC!EndCall
<1>4. CASE ReleaseCall
  BY <1>4 DEF ReleaseCall, LC!Next, LC!Vacate
<1>5. CASE DestroyLine \/ DllMain
  BY <1>5 DEF DestroyLine, DllMain, LineGone, LC!Next, LC!CloseLine
<1>6. ASSUME NEW m \in Messages, NEW channel \in Channels \cup {NoChannel},
             ProcessCallMessage(m, channel)
      PROVE  LC!Next \/ UNCHANGED <<htCall, dwCallState>>
  <2>1. CASE UNCHANGED htCall
    BY <1>6, <2>1 DEF ProcessCallMessage
  <2>2. CASE htCall = NoCall /\ NewCall
    BY <1>6, <2>2 DEF ProcessCallMessage, NewCall, LC!Next, LC!Occupy
  <2> QED
    BY <1>6, <2>1, <2>2 DEF ProcessCallMessage
<1>7. CASE Report
  BY <1>7 DEF Report, LineInv, PlaceInv, ProviderReportsACall, LC!Next, LC!Progress,
              LC!Disconnect
<1>8. CASE WatchdogDisconnect
  BY <1>8 DEF WatchdogDisconnect, WatchdogStep, LC!Next, LC!Disconnect
<1>9. CASE TSPI_lineOpen \/ MakeCallReply \/ StartWatchdogThread \/ TSPI_lineDrop \/ TSPI_lineClose
  BY <1>9 DEF TSPI_lineOpen, MakeCallReply, StartWatchdogThread, TSPI_lineDrop, TSPI_lineClose
<1>10. ASSUME NEW c \in Calls, TSPI_lineCloseCall(c)
       PROVE  LC!Next \/ UNCHANGED <<htCall, dwCallState>>
  BY <1>10 DEF TSPI_lineCloseCall
<1>11. CASE TSPI_lineDevSpecific \/ HangupCompleted \/ SignalEvent \/ MessageDone \/ ServiceLost
  BY <1>11 DEF TSPI_lineDevSpecific, HangupCompleted, SignalEvent, MessageDone, ServiceLost
<1>12. CASE WatchdogReset \/ WatchdogSignalled \/ WatchdogTimeout \/ WatchdogTest \/ WatchdogHangup
  BY <1>12 DEF WatchdogReset, WatchdogSignalled, WatchdogTimeout, WatchdogTest, WatchdogHangup,
               WatchdogStep
<1>13. CASE UNCHANGED vars
  BY <1>13
<1> QED
  BY <1>1, <1>2, <1>3, <1>4, <1>5, <1>6, <1>7, <1>8, <1>9, <1>10, <1>11, <1>12, <1>13
  DEF Next, Request, Continue, Watchdog

\* The line implements LineCall, its fairness apart: the call's handle is never
\* replaced by another, and progress is only reported with a call in place.
THEOREM ImplementsLineCall == Spec => LC!Safety
<1>1. Init => LC!Init
  BY DEF Init, LC!Init
<1> QED
  BY <1>1, LineCallStep, Inductive, PTL DEF Spec, LC!Safety

-----------------------------------------------------------------------------
(* The line keeps to Session: each step is one of its steps, or leaves the  *)
(* line, its context and what TAPI is in as they are.                       *)

LEMMA SessionStep == TypeOK /\ LineInv /\ [Next]_vars => [S!Next]_(S!vars)
<1> SUFFICES ASSUME TypeOK, LineInv, [Next]_vars PROVE [S!Next]_(S!vars)
  OBVIOUS
<1> USE DEF TypeOK, Flags, vars, callVars, dataVars, linkVars, wdVars, S!Next, S!vars
<1>1. CASE TSPI_lineOpen
  BY <1>1 DEF TSPI_lineOpen, LineInv, LinkInv, S!Open
<1>2. ASSUME NEW c \in Calls, TSPI_lineMakeCall(c)
      PROVE  [S!Next]_(S!vars)
  BY <1>2 DEF TSPI_lineMakeCall, ConnectToServer, LineInv, LinkInv, S!Connect
<1>3. CASE MakeCallReply \/ Dial \/ StartWatchdogThread \/ ReportIdle \/ ReleaseCall
  BY <1>3 DEF MakeCallReply, Dial, StartWatchdogThread, ReportIdle, ReleaseCall
<1>4. CASE TSPI_lineDrop
  BY <1>4 DEF TSPI_lineDrop
<1>5. ASSUME NEW c \in Calls, TSPI_lineCloseCall(c)
      PROVE  [S!Next]_(S!vars)
  BY <1>5 DEF TSPI_lineCloseCall
<1>6. CASE TSPI_lineClose
  BY <1>6 DEF TSPI_lineClose, S!BeginClose
<1>7. CASE DestroyLine
  BY <1>7 DEF DestroyLine, LineGone, S!EndClose
<1>8. CASE TSPI_lineDevSpecific
  BY <1>8 DEF TSPI_lineDevSpecific, S!BeginMessage
<1>9. ASSUME NEW m \in Messages, NEW channel \in Channels \cup {NoChannel},
             ProcessCallMessage(m, channel)
      PROVE  [S!Next]_(S!vars)
  BY <1>9 DEF ProcessCallMessage, NextObject, NewCall
<1>10. CASE Report \/ HangupCompleted \/ ReportCompleted \/ SignalEvent
  BY <1>10 DEF Report, HangupCompleted, ReportCompleted, SignalEvent
<1>11. CASE MessageDone
  BY <1>11 DEF MessageDone, S!EndMessage
<1>12. CASE Watchdog
  BY <1>12 DEF Watchdog, WatchdogReset, WatchdogSignalled, WatchdogTimeout, WatchdogTest,
               WatchdogDisconnect, WatchdogHangup, WatchdogIdle, WatchdogStep
<1>13. CASE ServiceLost
  BY <1>13 DEF ServiceLost, S!Lose
<1>14. CASE DllMain
  BY <1>14 DEF DllMain, LineGone, S!Restart
<1>15. CASE UNCHANGED vars
  BY <1>15
<1> QED
  BY <1>1, <1>2, <1>3, <1>4, <1>5, <1>6, <1>7, <1>8, <1>9, <1>10, <1>11, <1>12, <1>13,
     <1>14, <1>15
  DEF Next, Request, Continue

\* The line takes service and TAPI for no more than Session, whatever its threads and
\* requests are at: it gives up its context, and goes only closed, with no message in it.
THEOREM KeepsToSession == Spec => ImplementsSession
<1>1. Init => S!Init
  BY DEF Init, S!Init
<1> QED
  BY <1>1, SessionStep, Inductive, PTL DEF Spec, ImplementsSession, S!Spec
=============================================================================
