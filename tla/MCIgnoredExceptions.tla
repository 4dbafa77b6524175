------------------------ MODULE MCIgnoredExceptions ------------------------
(* Codes by small numbers. *)
EXTENDS IgnoredExceptions
=============================================================================
