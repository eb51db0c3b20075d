--------------------------------- MODULE Feed ---------------------------------
(***************************************************************************)
(* What nuacomsrv/Server.cpp relies on of a websocket (WebsocketAPI.h), and *)
(* what WebsocketAPI.cpp is to keep: between ConnectToWebsocket and the end *)
(* of CloseWebsocket it calls ProcessMessage for one message at a time, for *)
(* none that comes after the client is being deleted, and it is gone only   *)
(* when no message is with ProcessMessage any more.  The service may end.   *)
(*                                                                          *)
(* Connection implements it for every context, Websocket for one in detail. *)
(***************************************************************************)
VARIABLES
  phase,   \* "none", "open", "closing" since CloseWebsocketAsync, "stopping" the client
  message  \* "with" ProcessMessage, or "none"

vars == <<phase, message>>

Init == phase = "none" /\ message = "none"

ConnectToWebsocket == phase = "none" /\ phase' = "open" /\ UNCHANGED message

Receive == phase \in {"open", "closing"} /\ message = "none" /\ message' = "with" /\ UNCHANGED phase

ProcessMessage == message = "with" /\ message' = "none" /\ UNCHANGED phase

CloseWebsocket == phase = "open" /\ phase' = "closing" /\ UNCHANGED message

StopWebsocket == phase = "closing" /\ phase' = "stopping" /\ UNCHANGED message

DeleteWebsocket == phase = "stopping" /\ message = "none" /\ phase' = "none" /\ UNCHANGED message

ServiceEnds == phase' = "none" /\ message' = "none"

Next ==
  \/ ConnectToWebsocket \/ Receive \/ ProcessMessage
  \/ CloseWebsocket \/ StopWebsocket \/ DeleteWebsocket \/ ServiceEnds

Spec == Init /\ [][Next]_vars
=============================================================================
