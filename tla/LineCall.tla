------------------------------ MODULE LineCall ------------------------------
(***************************************************************************)
(* What a line promises TAPI, seen from outside: one place for a call and   *)
(* one call state.  A call takes the place only when it is free and gives   *)
(* it up before another may have it; progress is reported for a call that   *)
(* is there; and a line does not stay DIALING.  A disconnect or an end may  *)
(* be reported after the call has left: the source does so.                 *)
(***************************************************************************)
CONSTANTS Calls, NoCall

VARIABLES call, state

Init == call = NoCall /\ state = "none"

Occupy(c) == call = NoCall /\ call' = c /\ UNCHANGED state
Vacate    == call' = NoCall /\ UNCHANGED state

Dial       == call # NoCall /\ state' = "dialing" /\ UNCHANGED call
Progress   == call # NoCall /\ state' \in {"ringback", "connected"} /\ UNCHANGED call
Disconnect == state' = "disconnected" /\ UNCHANGED call
EndCall    == state' = "idle" /\ UNCHANGED call

CloseLine == call' = NoCall /\ state' = "none"

Next ==
  \/ \E c \in Calls : Occupy(c)
  \/ Vacate \/ Dial \/ Progress \/ Disconnect \/ EndCall \/ CloseLine

LeaveDialing == state = "dialing" /\ (Progress \/ Disconnect \/ EndCall \/ CloseLine)

Safety == Init /\ [][Next]_<<call, state>>

Spec == Safety /\ WF_<<call, state>>(LeaveDialing)
=============================================================================
