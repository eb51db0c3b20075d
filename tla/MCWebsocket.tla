----------------------------- MODULE MCWebsocket -----------------------------
(* Websocket has no constants: it is checked as it is. *)
EXTENDS Websocket
=============================================================================
