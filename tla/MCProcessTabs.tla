---------------------------- MODULE MCProcessTabs ----------------------------
(* Processes by small ids. *)
EXTENDS ProcessTabs
=============================================================================
