---------------------------- MODULE MCBreakpoints ----------------------------
(* Breakpoints with an export, a name that is none, the entry point and a return address. *)
EXTENDS Breakpoints, TLC

CONSTANTS i1, i2, i3, sym, hidden, entry, ret

\* The engine picks any number, and nothing orders them.
IdsMC == {i1, i2, i3}
SymmetricIds == Permutations(IdsMC)

SymbolsMC == {sym, hidden}
ExportsMC == {sym}
OneSymbol == {sym}
AddrsMC == {entry, ret}

\* Nothing in Breakpoints compares addresses: one stands for every address.
OneAddr == {entry}

\* Every verb but bc of a row the list has not refreshed, within one session.
VerbsOne == AllVerbs \ {"bcrow"}
VerbsKill == {"bp", "tr", "kill", "breakentry"}
=============================================================================
