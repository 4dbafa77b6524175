------------------------------ MODULE MCCliTrace ------------------------------
(* Two threads; two call sites of the traced function and one through a       *)
(* pointer, which calls it or another.                                        *)
EXTENDS CliTrace, TLC

CONSTANTS t1, t2, once, again, either

ThreadsMC  == {t1, t2}
SymThreads == Permutations(ThreadsMC)
SitesMC    == {once, again, either}
TracedMC   == {once, again, either}
UntracedMC == {either}
=============================================================================
