------------------------- MODULE MCPersistedOptions -------------------------
(* PersistedOptions with a debug option and a code. *)
EXTENDS PersistedOptions

Codes      == {"c0000005", "406d1388"}
Seeds      == {"406d1388"}
Path       == {"cache", "own"}
Cache      == {"cache"}
Given      == {{"own"}}
SeveralLines == {<<None>>, <<"b", "a">>}
SymmetricTargets == Permutations(Targets)
=============================================================================
