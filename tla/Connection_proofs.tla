-------------------------- MODULE Connection_proofs --------------------------
(***************************************************************************)
(* Proofs about Connection, for every set of line addresses and contexts.   *)
(*                                                                          *)
(* ContextHasItsLine is not inductive: that the line object is deleted only *)
(* when no context names it rests on whose handle m_hConn is and on what    *)
(* the provider lock is held for (HolderInv), and that the line is there at *)
(* all on who has it open (LockInv).  A message reaches its line because    *)
(* its thread has that open with the session of a context there is          *)
(* (SenderInv); the session of the line, because of the state of the        *)
(* context it holds (HandleInv).  The flag, StatusIsBacked, is inductive    *)
(* with the types; a quiet context needs the websocket's state.             *)
(***************************************************************************)
EXTENDS Connection, TLAPS

\* The line object is there, and is not being closed, while anyone has it open.
LockInv ==
  /\ handles # {} => line # NoLine /\ lock # "close"
  /\ lock = "connect" => "app" \in handles /\ hConn = NoContext
  /\ lock \in {"message", "close"} => line # NoLine

\* A context of a client that is there is being made under the provider lock, one
\* at a time, or is the one the line object holds the handle of.
HolderInv ==
  /\ \A c \in Contexts : state[c] = "new" /\ c \notin orphan => lock = "connect"
  /\ \A c \in Contexts : state[c] = "live" /\ c \notin orphan => hConn = c
  /\ \A c, d \in Contexts :
       state[c] = "new" /\ c \notin orphan /\ state[d] = "new" /\ d \notin orphan => c = d

\* A message is being sent on a line that its context has open, from an object that
\* is a context there is.
SenderInv == \A c \in Contexts : Sending(c) => c \in handles /\ HasTapi(this[c])

\* The handle the line object holds is that of a context until the line is closed.
HandleInv ==
  hConn \in Contexts =>
    /\ hConn \notin orphan
    /\ \/ state[hConn] = "live"
       \/ state[hConn] = "dropping" /\ lock = "close"

\* A websocket that is not there has no network thread.
QuietInv == \A c \in Contexts : ws[c] = "none" => net[c] = "idle"

ConnectionInv ==
  LockInv /\ HolderInv /\ HandleInv /\ ContextHasItsLine /\ SenderInv /\ QuietInv
    /\ FreeContextIsQuiet

-----------------------------------------------------------------------------
LEMMA TypeStep == TypeOK /\ [Next]_vars => TypeOK'
<1> SUFFICES ASSUME TypeOK, [Next]_vars PROVE TypeOK'
  OBVIOUS
<1> USE DEF TypeOK, vars, tapiVars, contextVars
<1>1. CASE AppOpen
  BY <1>1 DEF AppOpen, OpenLine
<1>2. CASE AppClose
  BY <1>2 DEF AppClose, CloseLine
<1>3. CASE AppMakeCall
  BY <1>3 DEF AppMakeCall
<1>4. CASE ConnectFails
  BY <1>4 DEF ConnectFails
<1>5. CASE TSPI_lineClose
  BY <1>5 DEF TSPI_lineClose, Disconnect
<1>6. CASE DeleteLine
  BY <1>6 DEF DeleteLine, Disconnected
<1>7. ASSUME NEW c \in Contexts, NEW w \in BOOLEAN, ConnectToServer(c, w) PROVE TypeOK'
  BY <1>7 DEF ConnectToServer
<1>8. ASSUME NEW c \in Contexts, ConnectReturns(c) PROVE TypeOK'
  BY <1>8 DEF ConnectReturns
<1>9. ASSUME NEW c \in Contexts, DisconnectReturns(c) PROVE TypeOK'
  BY <1>9 DEF DisconnectReturns
<1>10. CASE TapiRestart
  BY <1>10 DEF TapiRestart
<1>11. CASE ServiceRestart
  BY <1>11 DEF ServiceRestart
<1>12. ASSUME NEW c \in Contexts, Receive(c) PROVE TypeOK'
  BY <1>12 DEF Receive, NetStep
<1>13. ASSUME NEW c \in Contexts, SendOpen(c) PROVE TypeOK'
  <2>1. this' \in [Contexts -> Contexts]
    BY <1>13 DEF SendOpen
  <2>2. /\ line' \in Lines \cup {NoLine} /\ handles' \subseteq {"app", "leaked"} \cup Contexts
        /\ UNCHANGED <<lock, hConn>>
    BY <1>13 DEF SendOpen, OpenLine
  <2>3. QED
    BY <1>13, <2>1, <2>2 DEF SendOpen, NetStep
<1>14. ASSUME NEW c \in Contexts, SendMessage(c) PROVE TypeOK'
  <2>1. this' \in [Contexts -> Contexts]
    BY <1>14 DEF SendMessage
  <2>2. QED
    BY <1>14, <2>1 DEF SendMessage, NetStep
<1>f. ASSUME NEW c \in Contexts, SendFails(c) PROVE TypeOK'
  <2>1. CASE SendLeaks(c)
    BY <2>1 DEF SendLeaks, NetStep
  <2>2. CASE SendOpenFails(c) \/ SendMessageFails(c) \/ WaitForReply(c)
    BY <2>2 DEF SendOpenFails, SendMessageFails, WaitForReply, NetStep
  <2> QED
    BY <1>f, <2>1, <2>2 DEF SendFails
<1>15. ASSUME NEW c \in Contexts, SendClose(c) PROVE TypeOK'
  BY <1>15 DEF SendClose, NetStep, CloseLine
<1>16. ASSUME NEW c \in Contexts, StopWebsocket(c) PROVE TypeOK'
  BY <1>16 DEF StopWebsocket
<1>17. ASSUME NEW c \in Contexts, CloseWebsocket(c) PROVE TypeOK'
  BY <1>17 DEF CloseWebsocket
<1>18. ASSUME NEW c \in Contexts, Rundown(c) PROVE TypeOK'
  BY <1>18 DEF Rundown, Disconnect
<1>19. CASE MessageReturns
  BY <1>19 DEF MessageReturns
<1>20. CASE UNCHANGED vars
  BY <1>20
<1>21. QED
  BY <1>1, <1>f, <1>2, <1>3, <1>4, <1>5, <1>6, <1>7, <1>8, <1>9, <1>10, <1>11, <1>12, <1>13,
     <1>14, <1>15, <1>16, <1>17, <1>18, <1>19, <1>20
  DEF Next, Rpc, Send, SendProceeds, NoSession, SendFails

\* The line object outlives those who have it open.
LEMMA LockInvStep == TypeOK /\ LockInv /\ SenderInv /\ [Next]_vars => LockInv'
<1> SUFFICES ASSUME TypeOK, LockInv, SenderInv, [Next]_vars PROVE LockInv'
  OBVIOUS
<1> USE ConnectionAssumption DEF TypeOK, vars, tapiVars, contextVars, LockInv, SenderInv,
                                 Sending
<1>1. CASE AppOpen
  BY <1>1 DEF AppOpen, OpenLine
<1>2. CASE AppClose
  BY <1>2 DEF AppClose, CloseLine
<1>3. CASE AppMakeCall
  BY <1>3 DEF AppMakeCall
<1>4. CASE ConnectFails
  BY <1>4 DEF ConnectFails
<1>5. CASE TSPI_lineClose
  BY <1>5 DEF TSPI_lineClose, Disconnect
<1>6. CASE DeleteLine
  BY <1>6 DEF DeleteLine, Disconnected
<1>7. ASSUME NEW c \in Contexts, NEW w \in BOOLEAN, ConnectToServer(c, w) PROVE LockInv'
  BY <1>7 DEF ConnectToServer
<1>8. ASSUME NEW c \in Contexts, ConnectReturns(c) PROVE LockInv'
  BY <1>8 DEF ConnectReturns
<1>9. ASSUME NEW c \in Contexts, DisconnectReturns(c) PROVE LockInv'
  BY <1>9 DEF DisconnectReturns
<1>10. CASE TapiRestart
  BY <1>10 DEF TapiRestart
<1>11. CASE ServiceRestart
  BY <1>11 DEF ServiceRestart
<1>12. ASSUME NEW c \in Contexts, Receive(c) PROVE LockInv'
  BY <1>12 DEF Receive, NetStep
<1>13. ASSUME NEW c \in Contexts, SendOpen(c) PROVE LockInv'
  BY <1>13 DEF SendOpen, NetStep, OpenLine
<1>14. ASSUME NEW c \in Contexts, SendMessage(c) PROVE LockInv'
  BY <1>14 DEF SendMessage, NetStep
<1>f. ASSUME NEW c \in Contexts, SendFails(c) PROVE LockInv'
  BY <1>f DEF SendFails, SendOpenFails, SendLeaks, SendMessageFails, WaitForReply,
              NetStep
<1>15. ASSUME NEW c \in Contexts, SendClose(c) PROVE LockInv'
  BY <1>15 DEF SendClose, NetStep, CloseLine
<1>16. ASSUME NEW c \in Contexts, StopWebsocket(c) PROVE LockInv'
  BY <1>16 DEF StopWebsocket
<1>17. ASSUME NEW c \in Contexts, CloseWebsocket(c) PROVE LockInv'
  BY <1>17 DEF CloseWebsocket
<1>18. ASSUME NEW c \in Contexts, Rundown(c) PROVE LockInv'
  BY <1>18 DEF Rundown, Disconnect
<1>19. CASE MessageReturns
  BY <1>19 DEF MessageReturns
<1>20. CASE UNCHANGED vars
  BY <1>20
<1>21. QED
  BY <1>1, <1>f, <1>2, <1>3, <1>4, <1>5, <1>6, <1>7, <1>8, <1>9, <1>10, <1>11, <1>12, <1>13,
     <1>14, <1>15, <1>16, <1>17, <1>18, <1>19, <1>20
  DEF Next, Rpc, Send, SendProceeds, NoSession, SendFails

\* No context is left behind when the provider lock is released.
LEMMA HolderInvStep == TypeOK /\ LockInv /\ HolderInv /\ [Next]_vars => HolderInv'
<1> SUFFICES ASSUME TypeOK, LockInv, HolderInv, [Next]_vars PROVE HolderInv'
  OBVIOUS
<1> USE ConnectionAssumption DEF TypeOK, vars, tapiVars, contextVars, LockInv, HolderInv
<1>1. CASE AppOpen
  BY <1>1 DEF AppOpen, OpenLine
<1>2. CASE AppClose
  BY <1>2 DEF AppClose, CloseLine
<1>3. CASE AppMakeCall
  BY <1>3 DEF AppMakeCall
<1>4. CASE ConnectFails
  BY <1>4 DEF ConnectFails
<1>5. CASE TSPI_lineClose
  BY <1>5 DEF TSPI_lineClose, Disconnect
<1>6. CASE DeleteLine
  BY <1>6 DEF DeleteLine, Disconnected
<1>7. ASSUME NEW c \in Contexts, NEW w \in BOOLEAN, ConnectToServer(c, w) PROVE HolderInv'
  BY <1>7 DEF ConnectToServer
<1>8. ASSUME NEW c \in Contexts, ConnectReturns(c) PROVE HolderInv'
  BY <1>8 DEF ConnectReturns
<1>9. ASSUME NEW c \in Contexts, DisconnectReturns(c) PROVE HolderInv'
  BY <1>9 DEF DisconnectReturns
<1>10. CASE TapiRestart
  BY <1>10 DEF TapiRestart
<1>11. CASE ServiceRestart
  BY <1>11 DEF ServiceRestart
<1>12. ASSUME NEW c \in Contexts, Receive(c) PROVE HolderInv'
  BY <1>12 DEF Receive, NetStep
<1>13. ASSUME NEW c \in Contexts, SendOpen(c) PROVE HolderInv'
  BY <1>13 DEF SendOpen, NetStep, OpenLine
<1>14. ASSUME NEW c \in Contexts, SendMessage(c) PROVE HolderInv'
  BY <1>14 DEF SendMessage, NetStep
<1>f. ASSUME NEW c \in Contexts, SendFails(c) PROVE HolderInv'
  BY <1>f DEF SendFails, SendOpenFails, SendLeaks, SendMessageFails, WaitForReply,
              NetStep
<1>15. ASSUME NEW c \in Contexts, SendClose(c) PROVE HolderInv'
  BY <1>15 DEF SendClose, NetStep, CloseLine
<1>16. ASSUME NEW c \in Contexts, StopWebsocket(c) PROVE HolderInv'
  BY <1>16 DEF StopWebsocket
<1>17. ASSUME NEW c \in Contexts, CloseWebsocket(c) PROVE HolderInv'
  BY <1>17 DEF CloseWebsocket
<1>18. ASSUME NEW c \in Contexts, Rundown(c) PROVE HolderInv'
  BY <1>18 DEF Rundown, Disconnect
<1>19. CASE MessageReturns
  BY <1>19 DEF MessageReturns
<1>20. CASE UNCHANGED vars
  BY <1>20
<1>21. QED
  BY <1>1, <1>f, <1>2, <1>3, <1>4, <1>5, <1>6, <1>7, <1>8, <1>9, <1>10, <1>11, <1>12, <1>13,
     <1>14, <1>15, <1>16, <1>17, <1>18, <1>19, <1>20
  DEF Next, Rpc, Send, SendProceeds, NoSession, SendFails

\* What the line object holds a handle of is disconnected by that line object only.
LEMMA HandleInvStep ==
  TypeOK /\ LockInv /\ HolderInv /\ HandleInv /\ [Next]_vars => HandleInv'
<1> SUFFICES ASSUME TypeOK, LockInv, HolderInv, HandleInv, [Next]_vars PROVE HandleInv'
  OBVIOUS
<1> USE ConnectionAssumption DEF TypeOK, vars, tapiVars, contextVars, LockInv, HolderInv,
                                 HandleInv
<1>1. CASE AppOpen
  BY <1>1 DEF AppOpen, OpenLine
<1>2. CASE AppClose
  BY <1>2 DEF AppClose, CloseLine
<1>3. CASE AppMakeCall
  BY <1>3 DEF AppMakeCall
<1>4. CASE ConnectFails
  BY <1>4 DEF ConnectFails
<1>5. CASE TSPI_lineClose
  BY <1>5 DEF TSPI_lineClose, Disconnect
<1>6. CASE DeleteLine
  BY <1>6 DEF DeleteLine, Disconnected
<1>7. ASSUME NEW c \in Contexts, NEW w \in BOOLEAN, ConnectToServer(c, w) PROVE HandleInv'
  BY <1>7 DEF ConnectToServer
<1>8. ASSUME NEW c \in Contexts, ConnectReturns(c) PROVE HandleInv'
  BY <1>8 DEF ConnectReturns
<1>9. ASSUME NEW c \in Contexts, DisconnectReturns(c) PROVE HandleInv'
  BY <1>9 DEF DisconnectReturns
<1>10. CASE TapiRestart
  BY <1>10 DEF TapiRestart
<1>11. CASE ServiceRestart
  BY <1>11 DEF ServiceRestart
<1>12. ASSUME NEW c \in Contexts, Receive(c) PROVE HandleInv'
  BY <1>12 DEF Receive, NetStep
<1>13. ASSUME NEW c \in Contexts, SendOpen(c) PROVE HandleInv'
  BY <1>13 DEF SendOpen, NetStep, OpenLine
<1>14. ASSUME NEW c \in Contexts, SendMessage(c) PROVE HandleInv'
  BY <1>14 DEF SendMessage, NetStep
<1>f. ASSUME NEW c \in Contexts, SendFails(c) PROVE HandleInv'
  BY <1>f DEF SendFails, SendOpenFails, SendLeaks, SendMessageFails, WaitForReply,
              NetStep
<1>15. ASSUME NEW c \in Contexts, SendClose(c) PROVE HandleInv'
  BY <1>15 DEF SendClose, NetStep, CloseLine
<1>16. ASSUME NEW c \in Contexts, StopWebsocket(c) PROVE HandleInv'
  BY <1>16 DEF StopWebsocket
<1>17. ASSUME NEW c \in Contexts, CloseWebsocket(c) PROVE HandleInv'
  BY <1>17 DEF CloseWebsocket
<1>18. ASSUME NEW c \in Contexts, Rundown(c) PROVE HandleInv'
  BY <1>18 DEF Rundown, Disconnect
<1>19. CASE MessageReturns
  BY <1>19 DEF MessageReturns
<1>20. CASE UNCHANGED vars
  BY <1>20
<1>21. QED
  BY <1>1, <1>f, <1>2, <1>3, <1>4, <1>5, <1>6, <1>7, <1>8, <1>9, <1>10, <1>11, <1>12, <1>13,
     <1>14, <1>15, <1>16, <1>17, <1>18, <1>19, <1>20
  DEF Next, Rpc, Send, SendProceeds, NoSession, SendFails

\* The line object is deleted, or another made, when no context names it.
LEMMA ContextHasItsLineStep ==
  TypeOK /\ LockInv /\ HolderInv /\ ContextHasItsLine /\ [Next]_vars
  => ContextHasItsLine'
<1> SUFFICES ASSUME TypeOK, LockInv, HolderInv, ContextHasItsLine, [Next]_vars
             PROVE ContextHasItsLine'
  OBVIOUS
<1> USE ConnectionAssumption DEF TypeOK, vars, tapiVars, contextVars, LockInv, HolderInv,
                                 ContextHasItsLine, Allocated
<1>1. CASE AppOpen
  BY <1>1 DEF AppOpen, OpenLine
<1>2. CASE AppClose
  BY <1>2 DEF AppClose, CloseLine
<1>3. CASE AppMakeCall
  BY <1>3 DEF AppMakeCall
<1>4. CASE ConnectFails
  BY <1>4 DEF ConnectFails
<1>5. CASE TSPI_lineClose
  BY <1>5 DEF TSPI_lineClose, Disconnect
<1>6. CASE DeleteLine
  BY <1>6 DEF DeleteLine, Disconnected
<1>7. ASSUME NEW c \in Contexts, NEW w \in BOOLEAN, ConnectToServer(c, w)
      PROVE ContextHasItsLine'
  BY <1>7 DEF ConnectToServer
<1>8. ASSUME NEW c \in Contexts, ConnectReturns(c) PROVE ContextHasItsLine'
  BY <1>8 DEF ConnectReturns
<1>9. ASSUME NEW c \in Contexts, DisconnectReturns(c) PROVE ContextHasItsLine'
  BY <1>9 DEF DisconnectReturns
<1>10. CASE TapiRestart
  BY <1>10 DEF TapiRestart
<1>11. CASE ServiceRestart
  BY <1>11 DEF ServiceRestart
<1>12. ASSUME NEW c \in Contexts, Receive(c) PROVE ContextHasItsLine'
  BY <1>12 DEF Receive, NetStep
<1>13. ASSUME NEW c \in Contexts, SendOpen(c) PROVE ContextHasItsLine'
  BY <1>13 DEF SendOpen, NetStep, OpenLine
<1>14. ASSUME NEW c \in Contexts, SendMessage(c) PROVE ContextHasItsLine'
  BY <1>14 DEF SendMessage, NetStep
<1>f. ASSUME NEW c \in Contexts, SendFails(c) PROVE ContextHasItsLine'
  BY <1>f DEF SendFails, SendOpenFails, SendLeaks, SendMessageFails, WaitForReply,
              NetStep
<1>15. ASSUME NEW c \in Contexts, SendClose(c) PROVE ContextHasItsLine'
  BY <1>15 DEF SendClose, NetStep, CloseLine
<1>16. ASSUME NEW c \in Contexts, StopWebsocket(c) PROVE ContextHasItsLine'
  BY <1>16 DEF StopWebsocket
<1>17. ASSUME NEW c \in Contexts, CloseWebsocket(c) PROVE ContextHasItsLine'
  BY <1>17 DEF CloseWebsocket
<1>18. ASSUME NEW c \in Contexts, Rundown(c) PROVE ContextHasItsLine'
  BY <1>18 DEF Rundown, Disconnect
<1>19. CASE MessageReturns
  BY <1>19 DEF MessageReturns
<1>20. CASE UNCHANGED vars
  BY <1>20
<1>21. QED
  BY <1>1, <1>f, <1>2, <1>3, <1>4, <1>5, <1>6, <1>7, <1>8, <1>9, <1>10, <1>11, <1>12, <1>13,
     <1>14, <1>15, <1>16, <1>17, <1>18, <1>19, <1>20
  DEF Next, Rpc, Send, SendProceeds, NoSession, SendFails

\* Nobody else closes the handle a message is sent on.
LEMMA SenderInvStep == TypeOK /\ LockInv /\ SenderInv /\ [Next]_vars => SenderInv'
<1> SUFFICES ASSUME TypeOK, LockInv, SenderInv, [Next]_vars PROVE SenderInv'
  OBVIOUS
<1> USE ConnectionAssumption DEF TypeOK, vars, tapiVars, contextVars, LockInv, SenderInv,
                                 Sending, HasTapi, Allocated
<1>1. CASE AppOpen
  BY <1>1 DEF AppOpen, OpenLine
<1>2. CASE AppClose
  BY <1>2 DEF AppClose, CloseLine
<1>3. CASE AppMakeCall
  BY <1>3 DEF AppMakeCall
<1>4. CASE ConnectFails
  BY <1>4 DEF ConnectFails
<1>5. CASE TSPI_lineClose
  BY <1>5 DEF TSPI_lineClose, Disconnect
<1>6. CASE DeleteLine
  BY <1>6 DEF DeleteLine, Disconnected
<1>7. ASSUME NEW c \in Contexts, NEW w \in BOOLEAN, ConnectToServer(c, w) PROVE SenderInv'
  BY <1>7 DEF ConnectToServer
<1>8. ASSUME NEW c \in Contexts, ConnectReturns(c) PROVE SenderInv'
  BY <1>8 DEF ConnectReturns
<1>9. ASSUME NEW c \in Contexts, DisconnectReturns(c) PROVE SenderInv'
  BY <1>9 DEF DisconnectReturns
<1>10. CASE TapiRestart
  BY <1>10 DEF TapiRestart
<1>11. CASE ServiceRestart
  BY <1>11 DEF ServiceRestart
<1>12. ASSUME NEW c \in Contexts, Receive(c) PROVE SenderInv'
  BY <1>12 DEF Receive, NetStep
<1>13. ASSUME NEW c \in Contexts, SendOpen(c) PROVE SenderInv'
  BY <1>13 DEF SendOpen, HasSession, NetStep, OpenLine
<1>14. ASSUME NEW c \in Contexts, SendMessage(c) PROVE SenderInv'
  BY <1>14 DEF SendMessage, NetStep
<1>f. ASSUME NEW c \in Contexts, SendFails(c) PROVE SenderInv'
  BY <1>f DEF SendFails, SendOpenFails, SendLeaks, SendMessageFails, WaitForReply,
              NetStep
<1>15. ASSUME NEW c \in Contexts, SendClose(c) PROVE SenderInv'
  BY <1>15 DEF SendClose, NetStep, CloseLine
<1>16. ASSUME NEW c \in Contexts, StopWebsocket(c) PROVE SenderInv'
  BY <1>16 DEF StopWebsocket
<1>17. ASSUME NEW c \in Contexts, CloseWebsocket(c) PROVE SenderInv'
  BY <1>17 DEF CloseWebsocket
<1>18. ASSUME NEW c \in Contexts, Rundown(c) PROVE SenderInv'
  BY <1>18 DEF Rundown, Disconnect
<1>19. CASE MessageReturns
  BY <1>19 DEF MessageReturns
<1>20. CASE UNCHANGED vars
  BY <1>20
<1>21. QED
  BY <1>1, <1>f, <1>2, <1>3, <1>4, <1>5, <1>6, <1>7, <1>8, <1>9, <1>10, <1>11, <1>12, <1>13,
     <1>14, <1>15, <1>16, <1>17, <1>18, <1>19, <1>20
  DEF Next, Rpc, Send, SendProceeds, NoSession, SendFails

\* A message begins on a websocket that is there, which is deleted after it.
LEMMA QuietInvStep == TypeOK /\ QuietInv /\ FreeContextIsQuiet /\ [Next]_vars => QuietInv'
<1> SUFFICES ASSUME TypeOK, QuietInv, FreeContextIsQuiet, [Next]_vars PROVE QuietInv'
  OBVIOUS
<1> USE ConnectionAssumption DEF TypeOK, vars, tapiVars, contextVars, QuietInv,
                                 FreeContextIsQuiet
<1>1. CASE AppOpen
  BY <1>1 DEF AppOpen, OpenLine
<1>2. CASE AppClose
  BY <1>2 DEF AppClose, CloseLine
<1>3. CASE AppMakeCall
  BY <1>3 DEF AppMakeCall
<1>4. CASE ConnectFails
  BY <1>4 DEF ConnectFails
<1>5. CASE TSPI_lineClose
  BY <1>5 DEF TSPI_lineClose, Disconnect
<1>6. CASE DeleteLine
  BY <1>6 DEF DeleteLine, Disconnected
<1>7. ASSUME NEW c \in Contexts, NEW w \in BOOLEAN, ConnectToServer(c, w) PROVE QuietInv'
  BY <1>7 DEF ConnectToServer
<1>8. ASSUME NEW c \in Contexts, ConnectReturns(c) PROVE QuietInv'
  BY <1>8 DEF ConnectReturns
<1>9. ASSUME NEW c \in Contexts, DisconnectReturns(c) PROVE QuietInv'
  BY <1>9 DEF DisconnectReturns
<1>10. CASE TapiRestart
  BY <1>10 DEF TapiRestart
<1>11. CASE ServiceRestart
  BY <1>11 DEF ServiceRestart
<1>12. ASSUME NEW c \in Contexts, Receive(c) PROVE QuietInv'
  BY <1>12 DEF Receive, NetStep
<1>13. ASSUME NEW c \in Contexts, SendOpen(c) PROVE QuietInv'
  BY <1>13 DEF SendOpen, NetStep, OpenLine
<1>14. ASSUME NEW c \in Contexts, SendMessage(c) PROVE QuietInv'
  BY <1>14 DEF SendMessage, NetStep
<1>f. ASSUME NEW c \in Contexts, SendFails(c) PROVE QuietInv'
  BY <1>f DEF SendFails, SendOpenFails, SendLeaks, SendMessageFails, WaitForReply,
              NetStep
<1>15. ASSUME NEW c \in Contexts, SendClose(c) PROVE QuietInv'
  BY <1>15 DEF SendClose, NetStep, CloseLine
<1>16. ASSUME NEW c \in Contexts, StopWebsocket(c) PROVE QuietInv'
  BY <1>16 DEF StopWebsocket
<1>17. ASSUME NEW c \in Contexts, CloseWebsocket(c) PROVE QuietInv'
  BY <1>17 DEF CloseWebsocket
<1>18. ASSUME NEW c \in Contexts, Rundown(c) PROVE QuietInv'
  BY <1>18 DEF Rundown, Disconnect
<1>19. CASE MessageReturns
  BY <1>19 DEF MessageReturns
<1>20. CASE UNCHANGED vars
  BY <1>20
<1>21. QED
  BY <1>1, <1>f, <1>2, <1>3, <1>4, <1>5, <1>6, <1>7, <1>8, <1>9, <1>10, <1>11, <1>12, <1>13,
     <1>14, <1>15, <1>16, <1>17, <1>18, <1>19, <1>20
  DEF Next, Rpc, Send, SendProceeds, NoSession, SendFails

\* A context is given up with its websocket.
LEMMA FreeContextIsQuietStep ==
  TypeOK /\ QuietInv /\ FreeContextIsQuiet /\ [Next]_vars
  => FreeContextIsQuiet'
<1> SUFFICES ASSUME TypeOK, QuietInv, FreeContextIsQuiet, [Next]_vars
             PROVE FreeContextIsQuiet'
  OBVIOUS
<1> USE ConnectionAssumption DEF TypeOK, vars, tapiVars, contextVars, QuietInv,
                                 FreeContextIsQuiet
<1>1. CASE AppOpen
  BY <1>1 DEF AppOpen, OpenLine
<1>2. CASE AppClose
  BY <1>2 DEF AppClose, CloseLine
<1>3. CASE AppMakeCall
  BY <1>3 DEF AppMakeCall
<1>4. CASE ConnectFails
  BY <1>4 DEF ConnectFails
<1>5. CASE TSPI_lineClose
  BY <1>5 DEF TSPI_lineClose, Disconnect
<1>6. CASE DeleteLine
  BY <1>6 DEF DeleteLine, Disconnected
<1>7. ASSUME NEW c \in Contexts, NEW w \in BOOLEAN, ConnectToServer(c, w)
      PROVE FreeContextIsQuiet'
  BY <1>7 DEF ConnectToServer
<1>8. ASSUME NEW c \in Contexts, ConnectReturns(c) PROVE FreeContextIsQuiet'
  BY <1>8 DEF ConnectReturns
<1>9. ASSUME NEW c \in Contexts, DisconnectReturns(c) PROVE FreeContextIsQuiet'
  BY <1>9 DEF DisconnectReturns
<1>10. CASE TapiRestart
  BY <1>10 DEF TapiRestart
<1>11. CASE ServiceRestart
  BY <1>11 DEF ServiceRestart
<1>12. ASSUME NEW c \in Contexts, Receive(c) PROVE FreeContextIsQuiet'
  BY <1>12 DEF Receive, NetStep
<1>13. ASSUME NEW c \in Contexts, SendOpen(c) PROVE FreeContextIsQuiet'
  BY <1>13 DEF SendOpen, NetStep, OpenLine
<1>14. ASSUME NEW c \in Contexts, SendMessage(c) PROVE FreeContextIsQuiet'
  BY <1>14 DEF SendMessage, NetStep
<1>f. ASSUME NEW c \in Contexts, SendFails(c) PROVE FreeContextIsQuiet'
  BY <1>f DEF SendFails, SendOpenFails, SendLeaks, SendMessageFails, WaitForReply,
              NetStep
<1>15. ASSUME NEW c \in Contexts, SendClose(c) PROVE FreeContextIsQuiet'
  BY <1>15 DEF SendClose, NetStep, CloseLine
<1>16. ASSUME NEW c \in Contexts, StopWebsocket(c) PROVE FreeContextIsQuiet'
  BY <1>16 DEF StopWebsocket
<1>17. ASSUME NEW c \in Contexts, CloseWebsocket(c) PROVE FreeContextIsQuiet'
  BY <1>17 DEF CloseWebsocket
<1>18. ASSUME NEW c \in Contexts, Rundown(c) PROVE FreeContextIsQuiet'
  BY <1>18 DEF Rundown, Disconnect
<1>19. CASE MessageReturns
  BY <1>19 DEF MessageReturns
<1>20. CASE UNCHANGED vars
  BY <1>20
<1>21. QED
  BY <1>1, <1>f, <1>2, <1>3, <1>4, <1>5, <1>6, <1>7, <1>8, <1>9, <1>10, <1>11, <1>12, <1>13,
     <1>14, <1>15, <1>16, <1>17, <1>18, <1>19, <1>20
  DEF Next, Rpc, Send, SendProceeds, NoSession, SendFails

\* The flag goes up for a websocket and comes down with Disconnect, never between.
LEMMA StatusStep == TypeOK /\ StatusIsBacked /\ [Next]_vars => StatusIsBacked'
<1> SUFFICES ASSUME TypeOK, StatusIsBacked, [Next]_vars PROVE StatusIsBacked'
  OBVIOUS
<1> USE DEF TypeOK, vars, tapiVars, contextVars, StatusIsBacked
<1>1. CASE AppOpen
  BY <1>1 DEF AppOpen, OpenLine
<1>2. CASE AppClose
  BY <1>2 DEF AppClose, CloseLine
<1>3. CASE AppMakeCall
  BY <1>3 DEF AppMakeCall
<1>4. CASE ConnectFails
  BY <1>4 DEF ConnectFails
<1>5. CASE TSPI_lineClose
  BY <1>5 DEF TSPI_lineClose, Disconnect
<1>6. CASE DeleteLine
  BY <1>6 DEF DeleteLine, Disconnected
<1>7. ASSUME NEW c \in Contexts, NEW w \in BOOLEAN, ConnectToServer(c, w)
      PROVE StatusIsBacked'
  BY <1>7 DEF ConnectToServer
<1>8. ASSUME NEW c \in Contexts, ConnectReturns(c) PROVE StatusIsBacked'
  BY <1>8 DEF ConnectReturns
<1>9. ASSUME NEW c \in Contexts, DisconnectReturns(c) PROVE StatusIsBacked'
  BY <1>9 DEF DisconnectReturns
<1>10. CASE TapiRestart
  BY <1>10 DEF TapiRestart
<1>11. CASE ServiceRestart
  BY <1>11 DEF ServiceRestart
<1>12. ASSUME NEW c \in Contexts, Receive(c) PROVE StatusIsBacked'
  BY <1>12 DEF Receive, NetStep
<1>13. ASSUME NEW c \in Contexts, SendOpen(c) PROVE StatusIsBacked'
  BY <1>13 DEF SendOpen, NetStep, OpenLine
<1>14. ASSUME NEW c \in Contexts, SendMessage(c) PROVE StatusIsBacked'
  BY <1>14 DEF SendMessage, NetStep
<1>f. ASSUME NEW c \in Contexts, SendFails(c) PROVE StatusIsBacked'
  BY <1>f DEF SendFails, SendOpenFails, SendLeaks, SendMessageFails, WaitForReply,
              NetStep
<1>15. ASSUME NEW c \in Contexts, SendClose(c) PROVE StatusIsBacked'
  BY <1>15 DEF SendClose, NetStep, CloseLine
<1>16. ASSUME NEW c \in Contexts, StopWebsocket(c) PROVE StatusIsBacked'
  BY <1>16 DEF StopWebsocket
<1>17. ASSUME NEW c \in Contexts, CloseWebsocket(c) PROVE StatusIsBacked'
  BY <1>17 DEF CloseWebsocket
<1>18. ASSUME NEW c \in Contexts, Rundown(c) PROVE StatusIsBacked'
  BY <1>18 DEF Rundown, Disconnect
<1>19. CASE MessageReturns
  BY <1>19 DEF MessageReturns
<1>20. CASE UNCHANGED vars
  BY <1>20
<1>21. QED
  BY <1>1, <1>f, <1>2, <1>3, <1>4, <1>5, <1>6, <1>7, <1>8, <1>9, <1>10, <1>11, <1>12, <1>13,
     <1>14, <1>15, <1>16, <1>17, <1>18, <1>19, <1>20
  DEF Next, Rpc, Send, SendProceeds, NoSession, SendFails

\* Each step is one of Feed's for every context, or leaves its websocket as it is.
LEMMA FeedOfStep ==
  TypeOK /\ QuietInv /\ FreeContextIsQuiet /\ [Next]_vars => \A d \in Contexts : FeedStep(d)
<1> SUFFICES ASSUME TypeOK, QuietInv, FreeContextIsQuiet, [Next]_vars, NEW d \in Contexts
             PROVE FeedStep(d)
  OBVIOUS
<1> USE DEF TypeOK, vars, tapiVars, contextVars, FeedStep, FeedOf!Next, FeedOf!vars
<1>1. CASE AppOpen
  BY <1>1 DEF AppOpen, OpenLine
<1>2. CASE AppClose
  BY <1>2 DEF AppClose, CloseLine
<1>3. CASE AppMakeCall
  BY <1>3 DEF AppMakeCall
<1>4. CASE ConnectFails
  BY <1>4 DEF ConnectFails
<1>5. CASE TSPI_lineClose
  BY <1>5 DEF TSPI_lineClose, Disconnect, FeedOf!CloseWebsocket
<1>6. CASE DeleteLine
  BY <1>6 DEF DeleteLine, Disconnected, FeedOf!ProcessMessage
<1>7. ASSUME NEW c \in Contexts, NEW w \in BOOLEAN, ConnectToServer(c, w)
      PROVE FeedStep(d)
  BY <1>7 DEF QuietInv, FreeContextIsQuiet, ConnectToServer, FeedOf!ConnectToWebsocket
<1>8. ASSUME NEW c \in Contexts, ConnectReturns(c) PROVE FeedStep(d)
  BY <1>8 DEF ConnectReturns
<1>9. ASSUME NEW c \in Contexts, DisconnectReturns(c) PROVE FeedStep(d)
  BY <1>9 DEF DisconnectReturns
<1>10. CASE TapiRestart
  BY <1>10 DEF TapiRestart, FeedOf!ProcessMessage
<1>11. CASE ServiceRestart
  BY <1>11 DEF ServiceRestart, FeedOf!ServiceEnds
<1>12. ASSUME NEW c \in Contexts, Receive(c) PROVE FeedStep(d)
  BY <1>12 DEF QuietInv, Receive, NetStep, FeedOf!Receive
<1>13. ASSUME NEW c \in Contexts, SendOpen(c) PROVE FeedStep(d)
  BY <1>13 DEF SendOpen, NetStep, OpenLine, FeedOf!ProcessMessage
<1>14. ASSUME NEW c \in Contexts, SendMessage(c) PROVE FeedStep(d)
  BY <1>14 DEF SendMessage, NetStep, FeedOf!ProcessMessage
<1>f. ASSUME NEW c \in Contexts, SendFails(c) PROVE FeedStep(d)
  BY <1>f DEF SendFails, SendOpenFails, SendLeaks, SendMessageFails, WaitForReply,
              NetStep, FeedOf!ProcessMessage
<1>15. ASSUME NEW c \in Contexts, SendClose(c) PROVE FeedStep(d)
  BY <1>15 DEF SendClose, NetStep, CloseLine, FeedOf!ProcessMessage
<1>16. ASSUME NEW c \in Contexts, StopWebsocket(c) PROVE FeedStep(d)
  BY <1>16 DEF StopWebsocket, FeedOf!StopWebsocket
<1>17. ASSUME NEW c \in Contexts, CloseWebsocket(c) PROVE FeedStep(d)
  BY <1>17 DEF CloseWebsocket, FeedOf!DeleteWebsocket
<1>18. ASSUME NEW c \in Contexts, Rundown(c) PROVE FeedStep(d)
  BY <1>18 DEF Rundown, Disconnect, FeedOf!CloseWebsocket
<1>19. CASE MessageReturns
  BY <1>19 DEF MessageReturns
<1>20. CASE UNCHANGED vars
  BY <1>20
<1>21. QED
  BY <1>1, <1>f, <1>2, <1>3, <1>4, <1>5, <1>6, <1>7, <1>8, <1>9, <1>10, <1>11, <1>12, <1>13,
     <1>14, <1>15, <1>16, <1>17, <1>18, <1>19, <1>20
  DEF Next, Rpc, Send, SendProceeds, NoSession, SendFails

\* Each step is one of Session's, or leaves the line's side of it as it is.
LEMMA SessionStep == TypeOK /\ ConnectionInv /\ [Next]_vars => [S!Next]_(S!vars)
<1> SUFFICES ASSUME TypeOK, ConnectionInv, [Next]_vars PROVE [S!Next]_(S!vars)
  OBVIOUS
<1> USE ConnectionAssumption DEF TypeOK, vars, tapiVars, contextVars, ConnectionInv, LockInv,
                                 S!Next, S!vars
<1>1. CASE AppOpen
  BY <1>1 DEF AppOpen, OpenLine, S!Open
<1>2. CASE AppClose
  BY <1>2 DEF AppClose, CloseLine, S!BeginClose
<1>3. CASE AppMakeCall
  BY <1>3 DEF AppMakeCall
<1>4. CASE ConnectFails
  BY <1>4 DEF ConnectFails
<1>5. CASE TSPI_lineClose
  BY <1>5 DEF TSPI_lineClose, Disconnect
<1>6. CASE DeleteLine
  BY <1>6 DEF DeleteLine, Disconnected, S!EndClose
<1>7. ASSUME NEW c \in Contexts, NEW w \in BOOLEAN, ConnectToServer(c, w) PROVE [S!Next]_(S!vars)
  BY <1>7 DEF ConnectToServer
<1>8. ASSUME NEW c \in Contexts, ConnectReturns(c) PROVE [S!Next]_(S!vars)
  BY <1>8 DEF ConnectReturns, HolderInv, S!Connect
<1>9. ASSUME NEW c \in Contexts, DisconnectReturns(c) PROVE [S!Next]_(S!vars)
  BY <1>9 DEF DisconnectReturns, HandleInv
<1>10. CASE TapiRestart
  BY <1>10 DEF TapiRestart, S!Restart
<1>11. CASE ServiceRestart
  BY <1>11 DEF ServiceRestart, S!Lose, S!BeginClose
<1>12. ASSUME NEW c \in Contexts, Receive(c) PROVE [S!Next]_(S!vars)
  BY <1>12 DEF Receive, NetStep
<1>13. ASSUME NEW c \in Contexts, SendOpen(c) PROVE [S!Next]_(S!vars)
  BY <1>13 DEF SendOpen, NetStep, OpenLine, S!Open
<1>14. ASSUME NEW c \in Contexts, SendMessage(c) PROVE [S!Next]_(S!vars)
  BY <1>14 DEF SendMessage, NetStep, SenderInv, Sending, HasTapi, Allocated, HolderInv,
                    S!BeginMessage
<1>f. ASSUME NEW c \in Contexts, SendFails(c) PROVE [S!Next]_(S!vars)
  BY <1>f DEF SendFails, SendOpenFails, SendLeaks, SendMessageFails, WaitForReply,
              NetStep
<1>15. ASSUME NEW c \in Contexts, SendClose(c) PROVE [S!Next]_(S!vars)
  BY <1>15 DEF SendClose, NetStep, CloseLine, SenderInv, Sending, S!BeginClose
<1>16. ASSUME NEW c \in Contexts, StopWebsocket(c) PROVE [S!Next]_(S!vars)
  BY <1>16 DEF StopWebsocket
<1>17. ASSUME NEW c \in Contexts, CloseWebsocket(c) PROVE [S!Next]_(S!vars)
  BY <1>17 DEF CloseWebsocket
<1>18. ASSUME NEW c \in Contexts, Rundown(c) PROVE [S!Next]_(S!vars)
  BY <1>18 DEF Rundown, Disconnect
<1>19. CASE MessageReturns
  BY <1>19 DEF MessageReturns, S!EndMessage, S!EndMessageToClose
<1>20. CASE UNCHANGED vars
  BY <1>20
<1>21. QED
  BY <1>1, <1>f, <1>2, <1>3, <1>4, <1>5, <1>6, <1>7, <1>8, <1>9, <1>10, <1>11, <1>12, <1>13,
     <1>14, <1>15, <1>16, <1>17, <1>18, <1>19, <1>20
  DEF Next, Rpc, Send, SendProceeds, NoSession, SendFails

-----------------------------------------------------------------------------
LEMMA Initially == Init => TypeOK /\ ConnectionInv /\ StatusIsBacked
<1> SUFFICES ASSUME Init PROVE TypeOK /\ ConnectionInv /\ StatusIsBacked
  OBVIOUS
<1>1. TypeOK
  BY DEF Init, TypeOK
<1>2. LockInv /\ HolderInv /\ HandleInv /\ StatusIsBacked
  BY ConnectionAssumption DEF Init, LockInv, HolderInv, HandleInv, StatusIsBacked
<1>3. ContextHasItsLine /\ SenderInv /\ QuietInv /\ FreeContextIsQuiet
  BY DEF Init, ContextHasItsLine, Allocated, SenderInv, Sending, QuietInv, FreeContextIsQuiet
<1>4. QED
  BY <1>1, <1>2, <1>3 DEF ConnectionInv

LEMMA Invariant == Spec => [](TypeOK /\ ConnectionInv /\ StatusIsBacked)
<1>1. TypeOK /\ ConnectionInv /\ StatusIsBacked /\ [Next]_vars
        => (TypeOK /\ ConnectionInv /\ StatusIsBacked)'
  BY TypeStep, LockInvStep, HolderInvStep, HandleInvStep, ContextHasItsLineStep,
     SenderInvStep, QuietInvStep, FreeContextIsQuietStep, StatusStep
  DEF ConnectionInv
<1>2. QED
  BY <1>1, Initially, PTL DEF Spec

\* The variables keep their types, for any number of contexts.
THEOREM TypeCorrect == Spec => []TypeOK
  BY Invariant, PTL

\* While a context exists, the line object whose address it sends with every
\* message is there and is its own, whatever restarts and whoever closes the line.
THEOREM LineOutlivesContext == Spec => []ContextHasItsLine
<1>1. ConnectionInv => ContextHasItsLine
  BY DEF ConnectionInv
<1>2. QED
  BY <1>1, Invariant, PTL

\* GetConnectionStatus never reports a connection nothing is left of.
THEOREM StatusBacked == Spec => []StatusIsBacked
  BY Invariant, PTL

\* A message is sent on a line that stays, and to no other object, whatever restarts,
\* whoever closes the line and whatever has been made in the memory of a context.
THEOREM MessageArrives == Spec => []MessageReachesItsLine
<1>1. TypeOK /\ ConnectionInv => MessageReachesItsLine
  BY DEF TypeOK, ConnectionInv, SenderInv, LockInv, ContextHasItsLine, HasTapi, Sending,
         MessageReachesItsLine
<1>2. QED
  BY <1>1, Invariant, PTL

\* A context that has been given up has no websocket thread left.
THEOREM NoThreadLeft == Spec => []FreeContextIsQuiet
<1>1. ConnectionInv => FreeContextIsQuiet
  BY DEF ConnectionInv
<1>2. QED
  BY <1>1, Invariant, PTL

\* Whatever happens to contexts and lines, no more is relied on of a context's
\* websocket than Feed says.
THEOREM FeedIsKept == Spec => ImplementsFeed
<1>1. Init => \A c \in Contexts : FeedOf(c)!Init
  BY DEF Init, FeedOf!Init
<1>2. (TypeOK /\ ConnectionInv) /\ [Next]_vars => [\A c \in Contexts : FeedStep(c)]_vars
  BY FeedOfStep DEF ConnectionInv
<1>3. QED
  BY <1>1, <1>2, Invariant, PTL DEF Spec, ImplementsFeed

\* The line and its context behave as Session says, which Drvline relies on.
THEOREM SessionIsKept == Spec => ImplementsSession
<1>1. Init => S!Init
  BY ConnectionAssumption DEF Init, S!Init
<1>2. TypeOK /\ ConnectionInv /\ [Next]_vars => [S!Next]_(S!vars)
  BY SessionStep
<1>3. QED
  BY <1>1, <1>2, Invariant, PTL DEF Spec, ImplementsSession, S!Spec

-----------------------------------------------------------------------------
(* Whose context is whose, and who waits for whom *)

\* A context being disconnected for a client that is there is the one it holds the
\* handle of, and that handle is of the line's own context.
OwnerInv ==
  /\ \A c \in Contexts : state[c] = "dropping" /\ c \notin orphan => hConn = c
  /\ hConn \in Contexts => callback[hConn] = line

LEMMA OwnerInvStep == TypeOK /\ ConnectionInv /\ OwnerInv /\ [Next]_vars => OwnerInv'
<1> SUFFICES ASSUME TypeOK, ConnectionInv, OwnerInv, [Next]_vars PROVE OwnerInv'
  OBVIOUS
<1> USE ConnectionAssumption DEF TypeOK, vars, tapiVars, contextVars, ConnectionInv, LockInv,
                                 HandleInv, OwnerInv
<1>1. CASE AppOpen
  BY <1>1 DEF AppOpen, OpenLine, ContextHasItsLine, Allocated
<1>2. CASE AppClose \/ AppMakeCall \/ ConnectFails \/ MessageReturns \/ UNCHANGED vars
  BY <1>2 DEF AppClose, CloseLine, AppMakeCall, ConnectFails, MessageReturns
<1>3. CASE TSPI_lineClose
  BY <1>3 DEF TSPI_lineClose, Disconnect
<1>4. CASE DeleteLine
  BY <1>4 DEF DeleteLine, Disconnected
<1>5. ASSUME NEW c \in Contexts, NEW w \in BOOLEAN, ConnectToServer(c, w) PROVE OwnerInv'
  BY <1>5 DEF ConnectToServer
<1>6. ASSUME NEW c \in Contexts, ConnectReturns(c) PROVE OwnerInv'
  BY <1>6 DEF ConnectReturns, HolderInv, ContextHasItsLine, Allocated
<1>7. ASSUME NEW c \in Contexts, DisconnectReturns(c) PROVE OwnerInv'
  BY <1>7 DEF DisconnectReturns
<1>8. CASE TapiRestart \/ ServiceRestart
  BY <1>8 DEF TapiRestart, ServiceRestart
<1>9. ASSUME NEW c \in Contexts, SendOpen(c) PROVE OwnerInv'
  BY <1>9 DEF SendOpen, OpenLine, ContextHasItsLine, Allocated
<1>10. ASSUME NEW c \in Contexts, Receive(c) \/ SendMessage(c) \/ SendClose(c) PROVE OwnerInv'
  BY <1>10 DEF Receive, SendMessage, SendClose, CloseLine
<1>f. ASSUME NEW c \in Contexts, SendFails(c) PROVE OwnerInv'
  BY <1>f DEF SendFails, SendOpenFails, SendLeaks, SendMessageFails, WaitForReply
<1>11. ASSUME NEW c \in Contexts, StopWebsocket(c) \/ CloseWebsocket(c) PROVE OwnerInv'
  BY <1>11 DEF StopWebsocket, CloseWebsocket
<1>12. ASSUME NEW c \in Contexts, Rundown(c) PROVE OwnerInv'
  BY <1>12 DEF Rundown, Disconnect
<1> QED
  BY <1>1, <1>f, <1>2, <1>3, <1>4, <1>5, <1>6, <1>7, <1>8, <1>9, <1>10, <1>11, <1>12
  DEF Next, Rpc, Send, SendProceeds, NoSession, SendFails

\* A thread that waits for a provider call waits for the one under the lock.
NetInv ==
  /\ \A c \in Contexts : net[c] = "delivering" => lock = "message"
  /\ \A c \in Contexts : net[c] = "closing" => lock = "close"
  /\ \A c, d \in Contexts : {net[c], net[d]} \subseteq {"delivering", "closing"} => c = d

LEMMA NetInvStep == TypeOK /\ LockInv /\ HolderInv /\ NetInv /\ [Next]_vars => NetInv'
<1> SUFFICES ASSUME TypeOK, LockInv, HolderInv, NetInv, [Next]_vars PROVE NetInv'
  OBVIOUS
<1> USE DEF TypeOK, vars, tapiVars, contextVars, LockInv, NetInv
<1>1. CASE AppOpen \/ AppClose \/ AppMakeCall \/ ConnectFails \/ TSPI_lineClose
  BY <1>1 DEF AppOpen, OpenLine, AppClose, CloseLine, AppMakeCall, ConnectFails, TSPI_lineClose,
              Disconnect
<1>2. CASE DeleteLine
  BY <1>2 DEF DeleteLine
<1>3. CASE MessageReturns
  BY <1>3 DEF MessageReturns
<1>4. ASSUME NEW c \in Contexts, NEW w \in BOOLEAN, ConnectToServer(c, w) PROVE NetInv'
  BY <1>4 DEF ConnectToServer
<1>5. ASSUME NEW c \in Contexts, ConnectReturns(c) PROVE NetInv'
  BY <1>5 DEF ConnectReturns, HolderInv
<1>6. ASSUME NEW c \in Contexts, DisconnectReturns(c) \/ Rundown(c) PROVE NetInv'
  BY <1>6 DEF DisconnectReturns, Rundown, Disconnect
<1>7. CASE TapiRestart \/ ServiceRestart
  BY <1>7 DEF TapiRestart, ServiceRestart
<1>8. ASSUME NEW c \in Contexts, Receive(c) PROVE NetInv'
  BY <1>8 DEF Receive, NetStep
<1>9. ASSUME NEW c \in Contexts, SendOpen(c) PROVE NetInv'
  BY <1>9 DEF SendOpen, NetStep, OpenLine
<1>10. ASSUME NEW c \in Contexts, SendMessage(c) PROVE NetInv'
  BY <1>10 DEF SendMessage, NetStep
<1>f. ASSUME NEW c \in Contexts, SendFails(c) PROVE NetInv'
  BY <1>f DEF SendFails, SendOpenFails, SendLeaks, SendMessageFails, WaitForReply,
              NetStep
<1>11. ASSUME NEW c \in Contexts, SendClose(c) PROVE NetInv'
  BY <1>11 DEF SendClose, NetStep, CloseLine
<1>12. ASSUME NEW c \in Contexts, StopWebsocket(c) \/ CloseWebsocket(c) PROVE NetInv'
  BY <1>12 DEF StopWebsocket, CloseWebsocket
<1>13. CASE UNCHANGED vars
  BY <1>13
<1> QED
  BY <1>1, <1>f, <1>2, <1>3, <1>4, <1>5, <1>6, <1>7, <1>8, <1>9, <1>10, <1>11, <1>12, <1>13
  DEF Next, Rpc, Send, SendProceeds, NoSession, SendFails

\* Disconnect hands every open websocket to the thread that closes it, and only that does.
ClosingInv ==
  \A c \in Contexts :
    /\ state[c] = "dropping" => ws[c] # "open"
    /\ state[c] = "gone" => ws[c] \in {"closing", "stopping"}
    /\ ws[c] \in {"closing", "stopping"} => state[c] \in {"dropping", "gone"}

LEMMA ClosingInvStep == TypeOK /\ ClosingInv /\ [Next]_vars => ClosingInv'
<1> SUFFICES ASSUME TypeOK, ClosingInv, [Next]_vars PROVE ClosingInv'
  OBVIOUS
<1> USE DEF TypeOK, vars, tapiVars, contextVars, ClosingInv
<1>1. CASE AppOpen \/ AppClose \/ AppMakeCall \/ ConnectFails \/ MessageReturns \/ DeleteLine
  BY <1>1 DEF AppOpen, AppClose, AppMakeCall, ConnectFails, MessageReturns, DeleteLine
<1>2. CASE TSPI_lineClose
  BY <1>2 DEF TSPI_lineClose, Disconnect
<1>3. ASSUME NEW c \in Contexts, NEW w \in BOOLEAN, ConnectToServer(c, w) PROVE ClosingInv'
  BY <1>3 DEF ConnectToServer
<1>4. ASSUME NEW c \in Contexts, ConnectReturns(c) PROVE ClosingInv'
  BY <1>4 DEF ConnectReturns
<1>5. ASSUME NEW c \in Contexts, DisconnectReturns(c) PROVE ClosingInv'
  BY <1>5 DEF DisconnectReturns
<1>6. CASE TapiRestart \/ ServiceRestart \/ UNCHANGED vars
  BY <1>6 DEF TapiRestart, ServiceRestart
<1>7. ASSUME NEW c \in Contexts, Receive(c) \/ Send(c) PROVE ClosingInv'
  BY <1>7 DEF Receive, Send, SendProceeds, NoSession, SendFails, SendOpen, SendOpenFails, SendLeaks,
              SendMessage, SendMessageFails, WaitForReply, SendClose
<1>8. ASSUME NEW c \in Contexts, StopWebsocket(c) PROVE ClosingInv'
  BY <1>8 DEF StopWebsocket
<1>9. ASSUME NEW c \in Contexts, CloseWebsocket(c) PROVE ClosingInv'
  BY <1>9 DEF CloseWebsocket
<1>10. ASSUME NEW c \in Contexts, Rundown(c) PROVE ClosingInv'
  BY <1>10 DEF Rundown, Disconnect
<1> QED
  BY <1>1, <1>2, <1>3, <1>4, <1>5, <1>6, <1>7, <1>8, <1>9, <1>10 DEF Next, Rpc

LEMMA Waiting == Spec => [](OwnerInv /\ NetInv /\ ClosingInv)
<1>1. Init => OwnerInv /\ NetInv /\ ClosingInv
  BY ConnectionAssumption DEF Init, OwnerInv, NetInv, ClosingInv
<1>2. TypeOK /\ ConnectionInv /\ OwnerInv /\ NetInv /\ ClosingInv /\ [Next]_vars
        => (OwnerInv /\ NetInv /\ ClosingInv)'
  BY OwnerInvStep, NetInvStep, ClosingInvStep DEF ConnectionInv
<1> QED
  BY <1>1, <1>2, Invariant, PTL DEF Spec

\* A client has one context at most; and the one it disconnects has this very line object
\* for its hCallback, whatever places have been used again.
THEOREM OneContext == Spec => []OneContextPerLine
<1>1. ConnectionInv /\ OwnerInv => OneContextPerLine
  <2> SUFFICES ASSUME ConnectionInv, NEW c \in Contexts \ orphan, NEW d \in Contexts \ orphan,
                      Allocated(c), Allocated(d)
               PROVE  c = d
    BY DEF OneContextPerLine, OwnerInv
  <2> USE DEF ConnectionInv, Allocated, HolderInv
  <2>1. CASE state[c] = "new" /\ state[d] = "new"
    BY <2>1
  <2>2. CASE state[c] = "live" /\ state[d] = "live"
    BY <2>2
  <2>3. CASE state[c] # state[d]
    BY <2>3, ConnectionAssumption DEF LockInv
  <2> QED
    BY <2>1, <2>2, <2>3
<1> QED
  BY <1>1, Invariant, Waiting, PTL

\* A websocket thread in a call of TAPI, a close in Disconnect and a websocket that is being
\* closed each wait for a step that can be taken: none of them for one of the others.
THEOREM NobodyInACircle == Spec => []WaitsAreServed
<1>1. ConnectionInv /\ NetInv /\ ClosingInv => WaitsAreServed
  BY DEF ConnectionInv, HandleInv, NetInv, ClosingInv, WaitsAreServed
<1> QED
  BY <1>1, Invariant, Waiting, PTL

-----------------------------------------------------------------------------
(* What a step may never do *)

LEMMA DrainsStep ==
  ASSUME TypeOK, [Next]_vars, NEW d \in Contexts, ws[d] = "stopping"
  PROVE  net'[d] = net[d] \/ NetLeft[net'[d]] < NetLeft[net[d]]
<1> DEFINE Down == net'[d] = net[d] \/ NetLeft[net'[d]] < NetLeft[net[d]]
<1> USE DEF TypeOK, vars, tapiVars, contextVars, NetLeft
<1>1. CASE AppOpen \/ AppClose \/ AppMakeCall \/ ConnectFails \/ TSPI_lineClose \/ UNCHANGED vars
  BY <1>1 DEF AppOpen, AppClose, AppMakeCall, ConnectFails, TSPI_lineClose, Disconnect
<1>2. CASE DeleteLine
  BY <1>2 DEF DeleteLine
<1>3. CASE MessageReturns
  BY <1>3 DEF MessageReturns
<1>4. ASSUME NEW c \in Contexts, NEW w \in BOOLEAN, ConnectToServer(c, w) PROVE Down
  BY <1>4 DEF ConnectToServer
<1>5. ASSUME NEW c \in Contexts, ConnectReturns(c) \/ DisconnectReturns(c) \/ Rundown(c)
      PROVE  Down
  BY <1>5 DEF ConnectReturns, DisconnectReturns, Rundown, Disconnect
<1>6. CASE TapiRestart
  BY <1>6 DEF TapiRestart
<1>7. CASE ServiceRestart
  BY <1>7 DEF ServiceRestart
<1>8. ASSUME NEW c \in Contexts, Receive(c) PROVE Down
  BY <1>8 DEF Receive, NetStep
<1>9. ASSUME NEW c \in Contexts, SendOpen(c) PROVE Down
  BY <1>9 DEF SendOpen, NetStep
<1>10. ASSUME NEW c \in Contexts, SendMessage(c) PROVE Down
  BY <1>10 DEF SendMessage, NetStep
<1>f. ASSUME NEW c \in Contexts, SendFails(c) PROVE Down
  BY <1>f DEF SendFails, SendOpenFails, SendLeaks, SendMessageFails, WaitForReply,
              NetStep
<1>11. ASSUME NEW c \in Contexts, SendClose(c) PROVE Down
  BY <1>11 DEF SendClose, NetStep
<1>12. ASSUME NEW c \in Contexts, StopWebsocket(c) \/ CloseWebsocket(c) PROVE Down
  BY <1>12 DEF StopWebsocket, CloseWebsocket
<1> QED
  BY <1>1, <1>f, <1>2, <1>3, <1>4, <1>5, <1>6, <1>7, <1>8, <1>9, <1>10, <1>11, <1>12
  DEF Next, Rpc, Send, SendProceeds, NoSession, SendFails

\* The join in the client's destructor is for one message, and that has a few steps left.
THEOREM StoppedDrains == Spec => StoppedWebsocketDrains
<1> DEFINE Drains == \A c \in Contexts : ws[c] = "stopping" =>
                       net'[c] = net[c] \/ NetLeft[net'[c]] < NetLeft[net[c]]
<1>1. TypeOK /\ [Next]_vars => [Drains]_vars
  BY DrainsStep
<1> QED
  BY <1>1, TypeCorrect, PTL DEF Spec, StoppedWebsocketDrains

LEMMA HandlesStep == TypeOK /\ HandlesAreClosed /\ [Next]_vars => HandlesAreClosed'
<1> SUFFICES ASSUME TypeOK, HandlesAreClosed, [Next]_vars PROVE HandlesAreClosed'
  OBVIOUS
<1> USE ConnectionAssumption DEF TypeOK, vars, tapiVars, contextVars, HandlesAreClosed, Sending
<1>1. CASE AppOpen \/ AppClose \/ AppMakeCall \/ ConnectFails \/ TSPI_lineClose \/ UNCHANGED vars
  BY <1>1 DEF AppOpen, OpenLine, AppClose, CloseLine, AppMakeCall, ConnectFails, TSPI_lineClose,
              Disconnect
<1>2. CASE DeleteLine \/ MessageReturns
  BY <1>2 DEF DeleteLine, MessageReturns
<1>3. ASSUME NEW c \in Contexts, NEW w \in BOOLEAN, ConnectToServer(c, w)
      PROVE  HandlesAreClosed'
  BY <1>3 DEF ConnectToServer
<1>4. ASSUME NEW c \in Contexts, ConnectReturns(c) \/ DisconnectReturns(c) \/ Rundown(c)
      PROVE  HandlesAreClosed'
  BY <1>4 DEF ConnectReturns, DisconnectReturns, Rundown, Disconnect
<1>5. CASE TapiRestart \/ ServiceRestart
  BY <1>5 DEF TapiRestart, ServiceRestart
<1>6. ASSUME NEW c \in Contexts, Receive(c) PROVE HandlesAreClosed'
  BY <1>6 DEF Receive, NetStep
<1>7. ASSUME NEW c \in Contexts, SendOpen(c) PROVE HandlesAreClosed'
  BY <1>7 DEF SendOpen, NetStep, OpenLine
<1>8. ASSUME NEW c \in Contexts, SendMessage(c) PROVE HandlesAreClosed'
  BY <1>8 DEF SendMessage, NetStep
<1>9. ASSUME NEW c \in Contexts, SendClose(c) PROVE HandlesAreClosed'
  BY <1>9 DEF SendClose, NetStep, CloseLine
<1>f. ASSUME NEW c \in Contexts, SendFails(c) PROVE HandlesAreClosed'
  BY <1>f DEF SendFails, SendOpenFails, SendLeaks, SendMessageFails, WaitForReply, NetStep
<1>10. ASSUME NEW c \in Contexts, StopWebsocket(c) \/ CloseWebsocket(c) PROVE HandlesAreClosed'
  BY <1>10 DEF StopWebsocket, CloseWebsocket
<1> QED
  BY <1>1, <1>f, <1>2, <1>3, <1>4, <1>5, <1>6, <1>7, <1>8, <1>9, <1>10
  DEF Next, Rpc, Send, SendProceeds, NoSession, SendFails

\* A handle of SendString's is closed whichever of its calls failed; malloc's failure alone
\* leaves one behind.
THEOREM HandlesClosed == Spec => []HandlesAreClosed
<1>1. Init => HandlesAreClosed
  BY DEF Init, HandlesAreClosed
<1> QED
  BY <1>1, HandlesStep, TypeCorrect, PTL DEF Spec

LEMMA MisleadStep ==
  ASSUME TypeOK, ConnectionInv, OwnerInv, [Next]_vars,
         DisconnectedMeansNone, ~DisconnectedMeansNone'
  PROVE  \E c \in orphan : DisconnectReturns(c)
<1>d. PICK d \in Contexts : /\ state'[d] = "live" /\ ws'[d] = "open" /\ d \notin orphan'
                           /\ g_bConnected' = FALSE
  BY DEF DisconnectedMeansNone, TypeOK
<1> USE <1>d DEF TypeOK, vars, tapiVars, contextVars, DisconnectedMeansNone
<1>1. ~(AppOpen \/ AppClose \/ AppMakeCall \/ ConnectFails \/ MessageReturns \/ DeleteLine)
  BY DEF AppOpen, AppClose, AppMakeCall, ConnectFails, MessageReturns, DeleteLine
<1>2. ~(TSPI_lineClose \/ \E c \in Contexts : Rundown(c))
  BY DEF TSPI_lineClose, Rundown, Disconnect
<1>3. ~\E c \in Contexts, w \in BOOLEAN : ConnectToServer(c, w)
  BY DEF ConnectToServer
<1>4. ~\E c \in Contexts : ConnectReturns(c)
  BY DEF ConnectReturns
<1>5. ~(TapiRestart \/ ServiceRestart \/ UNCHANGED vars)
  BY DEF TapiRestart, ServiceRestart
<1>6. ~\E c \in Contexts : Receive(c) \/ Send(c)
  BY DEF Receive, Send, SendProceeds, NoSession, SendFails, SendOpen, SendOpenFails, SendLeaks,
         SendMessage, SendMessageFails, WaitForReply, SendClose
<1>7. ~\E c \in Contexts : StopWebsocket(c) \/ CloseWebsocket(c)
  BY DEF StopWebsocket, CloseWebsocket
<1>8. ASSUME NEW c \in Contexts, DisconnectReturns(c) PROVE c \in orphan
  <2> SUFFICES ASSUME c \notin orphan PROVE FALSE
    OBVIOUS
  <2>1. d # c /\ state[d] = "live" /\ d \notin orphan /\ state[c] = "dropping"
    BY <1>8 DEF DisconnectReturns
  <2> QED
    BY <2>1 DEF ConnectionInv, HolderInv, OwnerInv
<1> QED
  BY <1>1, <1>2, <1>3, <1>4, <1>5, <1>6, <1>7, <1>8 DEF Next, Rpc

\* The one way to the disagreement that DisconnectedMeansNone runs into: the rundown of a
\* dead client's context, and never the Disconnect of the client that is there.
THEOREM RundownMisleads == Spec => OnlyRundownMisleads
<1> DEFINE Mislead == DisconnectedMeansNone /\ ~DisconnectedMeansNone'
                        => \E c \in orphan : DisconnectReturns(c)
<1>1. (TypeOK /\ ConnectionInv /\ OwnerInv) /\ [Next]_vars => [Mislead]_vars
  BY MisleadStep
<1> QED
  BY <1>1, Invariant, Waiting, PTL DEF Spec, OnlyRundownMisleads

=============================================================================
