--------------------------- MODULE MCPluginScope ---------------------------
(* PluginScope with three plugins, on the worker and the GUI thread. *)
EXTENDS PluginScope

WorkerAndGui == {"worker", "gui"}
Names == {"python", "anti_anti", "unpacker"}
=============================================================================
