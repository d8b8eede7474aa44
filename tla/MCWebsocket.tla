---------------------------- MODULE MCWebsocket ----------------------------
(* Instances of Websocket for TLC. *)
EXTENDS Websocket
=============================================================================
