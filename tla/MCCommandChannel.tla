-------------------------- MODULE MCCommandChannel --------------------------
(* CommandChannel with the pipe thread and a plugin's thread. *)
EXTENDS CommandChannel

CONSTANTS pipe, plugin

BothCallers == {pipe, plugin}
OneCaller == {pipe}
=============================================================================
