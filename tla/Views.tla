-------------------------------- MODULE Views --------------------------------
(***************************************************************************)
(* What a stopped target shows: the disassembly and dump panes of          *)
(* DbgSession's snapshot and the addresses they stand at, the search that  *)
(* moves both and remembers its last match, and the memory map.            *)
(*                                                                         *)
(* Every action is one command or event, executed by the worker: the       *)
(* commands name no snapshot, so when they were queued does not matter.    *)
(* The engine refuses to read or write a running target.                   *)
(***************************************************************************)
EXTENDS Integers, Sequences

CONSTANTS MaxAddr,    \* memory is 1..MaxAddr; 0 is no address
          Lettered,   \* the addresses whose hexadecimal starts with a letter
          Rsp,        \* the target's stack pointer
          Window,     \* kDumpBytes, and what kDisasmLines take
          UserMax,    \* kUserMax
          MaxRegions, \* the regions a walk may visit
          Users       \* what the users of these behaviours do, each with a target

Addr  == 1..MaxAddr
Byte  == {0, 1}
Panes == {"disasm", "dump"}

\* What QueryVirtual knows of an address space: regions without gaps from 0 on,
\* those that are not in use among them, and no more than a walk may visit.
Tiled(sp) ==
    /\ sp \in Seq([base : Nat, size : Nat \ {0}, free : BOOLEAN])
    /\ Len(sp) <= MaxRegions
    /\ \A i \in DOMAIN sp :
          sp[i].base = IF i = 1 THEN 0 ELSE sp[i - 1].base + sp[i - 1].size

\* A user keeps to some commands, addresses and patterns.  His target may stop
\* at rips, its memory hold contents, its address space be one of spaces.
ASSUME ViewsAssumption ==
    /\ MaxAddr \in Nat /\ Window \in Nat \ {0} /\ MaxRegions \in Nat /\ UserMax \in Nat
    /\ Lettered \subseteq Addr /\ Rsp \in Addr
    /\ \A u \in Users :
          /\ u.targets \subseteq Addr /\ u.rips \subseteq 0..MaxAddr
          /\ u.patterns \subseteq Seq(Byte) /\ u.contents \subseteq [Addr -> Byte]
          /\ \A sp \in u.spaces : Tiled(sp)

VARIABLES
    active,   \* sessionActive
    stopped,  \* stopped
    mem, rip, \* the target's memory and instruction pointer
    regsRip,  \* regs.rip, mirrored at the last stop
    view,     \* disasmViewAddr and dumpViewAddr
    pane,     \* disasmLines and dumpBytes
    lastSearch, lastSearchAt,  \* m_lastSearch, m_lastSearchAt
    space,    \* the regions of the target's address space
    regions,  \* memoryRegions
    poked,    \* ghost: by pane, what was written since it was read
    from,     \* ghost: where the last search by pattern began, or 0 when
              \* memory has changed since
    shown,    \* ghost: the matches it and its searchnexts have shown
    walked,   \* ghost: the address space the last memmap walked
    user      \* who uses this behaviour's debugger

target == <<active, stopped, mem, rip, space>>
panes  == <<regsRip, view, pane, poked>>
search == <<lastSearch, lastSearchAt>>
swept  == <<from, shown>>
map    == <<regions, walked>>
viewVars == <<target, panes, search, swept, map, user>>

ViewsInit ==
    /\ active = FALSE /\ stopped = FALSE
    /\ rip = 0 /\ regsRip = 0
    /\ view = [p \in Panes |-> 0] /\ pane = [p \in Panes |-> <<>>]
    /\ lastSearch = <<>> /\ lastSearchAt = 0
    /\ regions = <<>>
    /\ poked = [p \in Panes |-> {}]
    /\ from = 0 /\ shown = {} /\ walked = <<>>
    /\ user \in Users
    /\ mem \in user.contents /\ space \in user.spaces

-----------------------------------------------------------------------------
(* Reading memory *)

Least(S) == CHOOSE n \in S : \A m \in S : n <= m

\* What a pane at address a shows: nothing at 0, and no more than is mapped.
ReadMemory(m, a) ==
    IF a = 0 THEN <<>>
    ELSE SubSeq(m, a, Least({a + Window - 1, MaxAddr}))

Matches(m, p) ==
    {a \in Addr : /\ a + Len(p) - 1 <= MaxAddr
                  /\ \A i \in 1..Len(p) : m[a + i - 1] = p[i]}

Found(m, start, p) == {a \in Matches(m, p) : a >= start}

\* The panes stand at v, and those of P are read again from m, if m is readable.
Refresh(P, v, m, readable) ==
    /\ view' = v
    /\ pane' = [p \in Panes |->
                  IF p \notin P THEN pane[p]
                  ELSE IF readable THEN ReadMemory(m, v[p]) ELSE <<>>]
    /\ poked' = [p \in Panes |-> IF p \in P THEN {} ELSE poked[p]]

MemoryChanged == from' = 0 /\ shown' = {}

-----------------------------------------------------------------------------
(* Sessions and stops *)

\* launch, attach, restart: the panes keep what they showed.
Start ==
    /\ active' = TRUE /\ stopped' = FALSE
    /\ mem' \in user.contents /\ space' \in user.spaces /\ MemoryChanged
    /\ UNCHANGED <<rip, panes, search, map, user>>

\* Variant: the target is left as stopped as it was.
EndStopped ==
    /\ active
    /\ active' = FALSE
    /\ UNCHANGED <<stopped, mem, rip, space, panes, search, swept, map, user>>

\* kill, detach, or the last process exits.
End ==
    /\ active
    /\ active' = FALSE /\ stopped' = FALSE
    /\ UNCHANGED <<mem, rip, space, panes, search, swept, map, user>>

\* Variant: the dump is left as it was.
RefreshAfterStopDisasm(m, r) ==
    /\ regsRip' = r
    /\ Refresh({"disasm"}, [disasm |-> r, dump |-> IF view["dump"] = 0 THEN Rsp ELSE view["dump"]], m, TRUE)

RefreshAfterStop(m, r) ==
    /\ regsRip' = r
    /\ Refresh(Panes, [disasm |-> r, dump |-> IF view["dump"] = 0 THEN Rsp ELSE view["dump"]], m, TRUE)

\* The target stops for the user, or `proc` shows another stopped process.
Stop ==
    /\ active
    /\ stopped => "proc" \in user.does
    /\ stopped' = TRUE
    /\ mem' \in user.contents /\ rip' \in user.rips /\ space' \in user.spaces /\ MemoryChanged
    /\ RefreshAfterStop(mem', rip')
    /\ UNCHANGED <<active, search, map, user>>

Resume ==
    /\ stopped
    /\ stopped' = FALSE
    /\ UNCHANGED <<active, mem, rip, space, panes, search, swept, map, user>>

-----------------------------------------------------------------------------
(* Commands *)

\* resolveAddr: a token that does not start with a digit is a register's name,
\* and one no register has reads as 0.
ResolveAddr(a) == IF a \in Lettered THEN 0 ELSE a

\* u, at, follow, orig, d, db, dw, dd: a pane is pointed at an address.
Point(p, a) ==
    /\ active
    /\ Refresh({p}, [view EXCEPT ![p] = a], mem, stopped)

SetView ==
    /\ "view" \in user.does
    /\ \E p \in Panes, a \in user.targets : Point(p, ResolveAddr(a))
    /\ UNCHANGED <<target, regsRip, search, swept, map, user>>

\* orig, u rip: the engine's register, not the mirrored one.
ViewRip ==
    /\ "view" \in user.does /\ stopped
    /\ Point("disasm", rip)
    /\ UNCHANGED <<target, regsRip, search, swept, map, user>>

\* goto evaluates an expression, letters or not.
Goto ==
    /\ "goto" \in user.does
    /\ \E a \in user.targets : Point("disasm", a)
    /\ UNCHANGED <<target, regsRip, search, swept, map, user>>

\* reg rip: the mirrored registers and the panes stay.
SetRip ==
    /\ "reg" \in user.does /\ stopped
    /\ rip' \in user.targets
    /\ UNCHANGED <<active, stopped, mem, space, panes, search, swept, map, user>>

\* poke writes one byte here; no pane is read again.
Poke ==
    /\ "poke" \in user.does /\ stopped
    /\ \E a \in user.targets, b \in Byte :
          /\ ResolveAddr(a) # 0
          /\ mem' = [mem EXCEPT ![a] = b]
          /\ poked' = [p \in Panes |-> poked[p] \cup {a}]
    /\ MemoryChanged
    /\ UNCHANGED <<active, stopped, rip, space, regsRip, view, pane, search, map, user>>

\* Both panes go to the match; one that fails is forgotten.
ShowMatch(start, p, before) ==
    /\ p # <<>> /\ Found(mem, start, p) # {}
    /\ LET found == Least(Found(mem, start, p)) IN
          /\ lastSearch' = p /\ lastSearchAt' = found
          /\ shown' = IF from' = 0 THEN {} ELSE before \cup {found}
          /\ Refresh(Panes, [q \in Panes |-> found], mem, TRUE)

SearchStart ==
    LET seen == IF view["dump"] # 0 THEN view["dump"] ELSE regsRip
    IN  IF seen = 0 THEN 1 ELSE seen

Search ==
    /\ "search" \in user.does /\ stopped
    /\ from' = SearchStart
    /\ \E p \in user.patterns : ShowMatch(SearchStart, p, {})
    /\ UNCHANGED <<target, regsRip, map, user>>

\* Variant: the next search skips the match.
NextStartPast == lastSearchAt + Len(lastSearch)

NextStart == lastSearchAt + 1

SearchNext ==
    /\ "search" \in user.does /\ stopped
    /\ from' = from
    /\ ShowMatch(NextStart, lastSearch, shown)
    /\ UNCHANGED <<target, regsRip, map, user>>

-----------------------------------------------------------------------------
(* The memory map *)

\* QueryVirtual: the regions that hold address a, one or none.
QueryVirtual(sp, a) == {i \in DOMAIN sp : sp[i].base <= a /\ a < sp[i].base + sp[i].size}

\* Variant: a free region ends the walk.
VisitUntilFree(w, r) ==
    IF r.free THEN w ELSE [addr |-> r.base + r.size, out |-> Append(w.out, r)]

\* A region that holds the address ends beyond it, so the walk goes forward.
Visit(w, r) ==
    [addr |-> r.base + r.size, out |-> IF r.free THEN w.out ELSE Append(w.out, r)]

\* One iteration: at the top, or where QueryVirtual fails, the walk stands still.
Advance(sp, w) ==
    LET here == QueryVirtual(sp, w.addr)
    IN  IF w.addr >= UserMax \/ here = {} THEN w
        ELSE Visit(w, sp[CHOOSE i \in here : TRUE])

MemoryRegions(sp) ==
    LET walk[n \in 0..MaxRegions] ==
          IF n = 0 THEN [addr |-> 0, out |-> <<>>] ELSE Advance(sp, walk[n - 1])
    IN  walk[MaxRegions].out

MemMap ==
    /\ "memmap" \in user.does /\ stopped
    /\ regions' = MemoryRegions(space) /\ walked' = space
    /\ UNCHANGED <<target, panes, search, swept, user>>

ViewsNext ==
    \/ Start \/ End \/ Stop \/ Resume
    \/ SetView \/ ViewRip \/ Goto \/ SetRip \/ Poke
    \/ Search \/ SearchNext \/ MemMap

-----------------------------------------------------------------------------
(* Properties *)

ViewsTypeOK ==
    /\ active \in BOOLEAN /\ stopped \in BOOLEAN /\ (stopped => active)
    /\ mem \in [Addr -> Byte] /\ rip \in 0..MaxAddr /\ regsRip \in 0..MaxAddr
    /\ view \in [Panes -> 0..MaxAddr]
    /\ pane \in [Panes -> Seq(Byte)]
    /\ lastSearch \in Seq(Byte) /\ lastSearchAt \in 0..MaxAddr
    /\ space \in user.spaces /\ walked \in user.spaces \cup {<<>>}
    /\ poked \in [Panes -> SUBSET Addr]
    /\ from \in 0..MaxAddr /\ shown \subseteq Addr
    /\ user \in Users

\* Whenever the target is stopped, a pane shows what its address holds, but for
\* bytes written since it was read: whichever way the address moved, whichever
\* process is shown, and whatever ran in between.
Shows(p) ==
    LET held == ReadMemory(mem, view[p]) IN
    /\ Len(pane[p]) = Len(held)
    /\ \A i \in DOMAIN held : pane[p][i] = held[i] \/ view[p] + i - 1 \in poked[p]

PanesShowMemory == stopped => \A p \in Panes : Shows(p)

\* Without the exception: violated by `poke`, which reads no pane again.
PanesShowWrites ==
    stopped => \A p \in Panes : pane[p] = ReadMemory(mem, view[p])

\* A search and its searchnexts show every match from where the search began
\* to the last one shown, overlapping ones too, wherever the panes were moved
\* in between and whichever searches failed.
SearchShowsAll ==
    from # 0 => shown = {a \in Matches(mem, lastSearch) : from <= a /\ a <= lastSearchAt}

\* The mirrored registers are the target's: violated by `reg`, which leaves the
\* mirror, and what the panes and `search` make of it, as at the last stop.
RegsMirrored == stopped => regsRip = rip

\* The memory map lists the regions in use below kUserMax, every one of them,
\* once and in order, however many free ones lie between.
MapListsAll ==
    /\ {regions[k] : k \in DOMAIN regions} =
          {walked[i] : i \in {i \in DOMAIN walked : ~walked[i].free /\ walked[i].base < UserMax}}
    /\ \A k, l \in DOMAIN regions : k < l => regions[k].base < regions[l].base
=============================================================================
