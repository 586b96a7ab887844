---------------------------- MODULE MCWsManager ----------------------------
(* One dashboard that reconnects: its old session may still be registered. *)
EXTENDS WsManager
=============================================================================
