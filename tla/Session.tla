------------------------------- MODULE Session -------------------------------
(***************************************************************************)
(* What a line object and the service have in common, as Drvline sees it    *)
(* from the one side and Connection from the other: whether the line is     *)
(* there, whether the service has a context for it, and whether TAPI is in  *)
(* the line object with a message or to close it.  A message comes to a     *)
(* line that is there and that the service has a context for; a line goes   *)
(* when its session has been given up and no message is with it.  A line    *)
(* whose session was lost may connect again: nuacom.cpp never does.         *)
(***************************************************************************)
VARIABLES line, session, busy

vars == <<line, session, busy>>

Init == line = "none" /\ session = "none" /\ busy = "free"

Open == line = "none" /\ line' = "there" /\ UNCHANGED <<session, busy>>

Connect ==
  /\ line = "there" /\ busy = "free"
  /\ session \in {"none", "lost"} /\ session' = "live"
  /\ UNCHANGED <<line, busy>>

\* The service ends, whatever the line is in.
Lose == session = "live" /\ session' = "lost" /\ UNCHANGED <<line, busy>>

BeginMessage ==
  /\ line = "there" /\ session = "live"
  /\ busy = "free" /\ busy' = "message"
  /\ UNCHANGED <<line, session>>

EndMessage == busy = "message" /\ busy' = "free" /\ UNCHANGED <<line, session>>

\* The last who had the line open has closed it, or has died.
BeginClose ==
  /\ line = "there"
  /\ busy = "free" /\ busy' = "close" /\ session' = "none"
  /\ UNCHANGED line

\* It has died while its message was with the line.
EndMessageToClose ==
  /\ line = "there"
  /\ busy = "message" /\ busy' = "close" /\ session' = "none"
  /\ UNCHANGED line

EndClose == busy = "close" /\ busy' = "free" /\ line' = "none" /\ UNCHANGED session

\* TAPISRV dies and is started again.
Restart == line' = "none" /\ session' = "none" /\ busy' = "free"

Next ==
  \/ Open \/ Connect \/ Lose \/ BeginMessage \/ EndMessage \/ EndMessageToClose
  \/ BeginClose \/ EndClose \/ Restart

Spec == Init /\ [][Next]_vars
=============================================================================
