-------------------------- MODULE NavigationProofs --------------------------
(***************************************************************************)
(* Theorems about Views and Navigation, for every size of memory, every    *)
(* window, every set of users and every bound on what waits.               *)
(***************************************************************************)
EXTENDS Navigation, TLAPS, WellFoundedInduction, SequenceTheorems

\* A sweep has shown a match at or after its start.
SweepBegun == from # 0 => from <= lastSearchAt

ViewsInv ==
    /\ ViewsTypeOK
    /\ PanesShowMemory
    /\ SearchShowsAll
    /\ SweepBegun

NavInv ==
    /\ TypeOK
    /\ HistoryFollows
    /\ JumpAwaited

\* The commands that wait, whoever queued them.
Waiting == Seq([pane : Panes, at : 0..MaxAddr])
-----------------------------------------------------------------------------
(* Least, ReadMemory and Matches *)

\* The least of some numbers is one of them.
LEMMA LeastIs ==
    ASSUME NEW S \in SUBSET Nat, S # {}
    PROVE  Least(S) \in S /\ \A m \in S : Least(S) <= m
<1>1. \E n \in S : \A m \in S : ~(<<m, n>> \in OpToRel(<, Nat))
  BY WFMin, NatLessThanWellFounded
<1>2. OpToRel(<, Nat) = {ss \in Nat \X Nat : ss[1] < ss[2]}
  BY Zenon DEF OpToRel
<1>3. \A m, n \in Nat : m < n => <<m, n>> \in OpToRel(<, Nat)
  BY <1>2
<1>4. \E n \in S : \A m \in S : ~(m < n)
  BY <1>1, <1>3
<1>5. \E n \in S : \A m \in S : n <= m
  BY <1>4
<1> QED
  BY <1>5 DEF Least

\* What a pane shows is bytes, as many as are mapped up to the window, and each
\* is the one at its address.
LEMMA ReadIs ==
    ASSUME NEW m \in [Addr -> Byte], NEW a \in 0..MaxAddr
    PROVE  /\ ReadMemory(m, a) \in Seq(Byte)
           /\ Len(ReadMemory(m, a)) =
                 IF a = 0 THEN 0 ELSE Least({a + Window - 1, MaxAddr}) - a + 1
           /\ \A i \in DOMAIN ReadMemory(m, a) :
                 a + i - 1 \in Addr /\ ReadMemory(m, a)[i] = m[a + i - 1]
<1>1. CASE a = 0
  BY <1>1 DEF ReadMemory
<1>2. CASE a # 0
  <2> DEFINE last == Least({a + Window - 1, MaxAddr})
  <2>1. {a + Window - 1, MaxAddr} \in SUBSET Nat
    BY <1>2, ViewsAssumption
  <2>2. last \in {a + Window - 1, MaxAddr} /\ last <= a + Window - 1 /\ last <= MaxAddr
    BY <2>1, LeastIs
  <2>3. last \in Addr /\ a \in Addr /\ a <= last /\ last - a + 1 \in Nat
    BY <2>2, <1>2, ViewsAssumption DEF Addr
  <2> HIDE DEF last
  <2>4. m \in Seq(Byte) /\ Len(m) = MaxAddr
    BY ViewsAssumption, IsASeq DEF Addr
  <2>5. /\ SubSeq(m, a, last) \in Seq(Byte)
        /\ Len(SubSeq(m, a, last)) = last - a + 1
        /\ \A i \in 1..(last - a + 1) : SubSeq(m, a, last)[i] = m[a + i - 1]
    BY <2>3, <2>4, SubSeqProperties, ViewsAssumption DEF Addr
  <2>6. DOMAIN SubSeq(m, a, last) = 1..(last - a + 1)
    BY <2>5, <2>3, LenProperties
  <2>7. ReadMemory(m, a) = SubSeq(m, a, last)
    BY <1>2 DEF ReadMemory, last
  <2>8. \A i \in 1..(last - a + 1) : a + i - 1 \in Addr
    BY <2>3, ViewsAssumption DEF Addr
  <2> QED
    BY <2>5, <2>6, <2>7, <2>8, <1>2 DEF last
<1> QED
  BY <1>1, <1>2

\* A pane that is read again shows bytes.
LEMMA RefreshType ==
    ASSUME ViewsTypeOK, NEW P \in SUBSET Panes, NEW v \in [Panes -> 0..MaxAddr],
           NEW m \in [Addr -> Byte], NEW r \in BOOLEAN, Refresh(P, v, m, r)
    PROVE  /\ view' \in [Panes -> 0..MaxAddr]
           /\ pane' \in [Panes -> Seq(Byte)]
           /\ poked' \in [Panes -> SUBSET Addr]
<1>1. \A p \in Panes : ReadMemory(m, v[p]) \in Seq(Byte)
  BY ReadIs
<1>2. <<>> \in Seq(Byte)
  OBVIOUS
<1>3. \A p \in Panes : pane[p] \in Seq(Byte)
  BY DEF ViewsTypeOK
<1>4. pane' \in [Panes -> Seq(Byte)]
  BY <1>1, <1>2, <1>3 DEF Refresh
<1> QED
  BY <1>4 DEF Refresh, ViewsTypeOK

\* It shows what its address holds, and the other panes go on showing that.
LEMMA RefreshShows ==
    ASSUME ViewsTypeOK, NEW P \in SUBSET Panes, NEW v \in [Panes -> 0..MaxAddr],
           mem' \in [Addr -> Byte], Refresh(P, v, mem', TRUE),
           \A p \in Panes \ P : mem' = mem /\ v[p] = view[p] /\ Shows(p)
    PROVE  \A p \in Panes : Shows(p)'
<1> SUFFICES ASSUME NEW p \in Panes PROVE Shows(p)'
  OBVIOUS
<1>1. CASE p \in P
  <2>1. view'[p] = v[p] /\ pane'[p] = ReadMemory(mem', v[p])
    BY <1>1 DEF Refresh
  <2> QED
    BY <2>1 DEF Shows
<1>2. CASE p \notin P
  <2>1. view'[p] = view[p] /\ pane'[p] = pane[p] /\ poked'[p] = poked[p]
    BY <1>2 DEF Refresh
  <2> QED
    BY <2>1, <1>2 DEF Shows
<1> QED
  BY <1>1, <1>2

\* One pane moved by a command.
LEMMA PointKeeps ==
    ASSUME ViewsTypeOK, PanesShowMemory, NEW p \in Panes, NEW a \in 0..MaxAddr,
           Point(p, a), UNCHANGED <<target, regsRip, search, swept, map, user>>
    PROVE  ViewsTypeOK' /\ PanesShowMemory' /\ view'[p] = a
<1> DEFINE v == [view EXCEPT ![p] = a]
<1>1. v \in [Panes -> 0..MaxAddr] /\ Refresh({p}, v, mem, stopped)
  BY DEF Point, ViewsTypeOK
<1> HIDE DEF v
<1>2. view' \in [Panes -> 0..MaxAddr] /\ pane' \in [Panes -> Seq(Byte)]
      /\ poked' \in [Panes -> SUBSET Addr]
  <2>1. stopped \in BOOLEAN /\ mem \in [Addr -> Byte] /\ {p} \in SUBSET Panes
    BY DEF ViewsTypeOK
  <2> QED
    BY <1>1, <2>1, RefreshType
<1>3. ViewsTypeOK'
  BY <1>2 DEF ViewsTypeOK, target, search, swept, map
<1>4. CASE stopped
  <2>1. Refresh({p}, v, mem', TRUE) /\ mem' \in [Addr -> Byte]
    BY <1>1, <1>4 DEF target, ViewsTypeOK, Refresh
  <2>2. \A q \in Panes \ {p} : mem' = mem /\ v[q] = view[q] /\ Shows(q)
    BY <1>4 DEF v, PanesShowMemory, target, ViewsTypeOK
  <2>3. \A q \in Panes : Shows(q)'
    BY <1>1, <2>1, <2>2, RefreshShows
  <2> QED
    BY <2>3, <1>3, <1>1 DEF PanesShowMemory, Refresh, v, ViewsTypeOK
<1>5. CASE ~stopped
  BY <1>5, <1>3, <1>1 DEF PanesShowMemory, target, Refresh, v, ViewsTypeOK
<1> QED
  BY <1>4, <1>5 DEF ViewsTypeOK

\* Both panes at a match.
LEMMA ShowMatchKeeps ==
    ASSUME ViewsTypeOK, stopped, NEW start \in Nat, NEW p \in Seq(Byte), NEW before,
           before \subseteq Addr, from' \in 0..MaxAddr,
           ShowMatch(start, p, before), UNCHANGED <<target, regsRip, map, user>>
    PROVE  ViewsTypeOK' /\ PanesShowMemory'
<1> DEFINE found == Least(Found(mem, start, p))
           v     == [q \in Panes |-> found]
<1>1. Found(mem, start, p) \in SUBSET Addr /\ Found(mem, start, p) # {}
  BY DEF ShowMatch, Found, Matches
<1>2. found \in Addr
  BY <1>1, LeastIs DEF Addr
<1>3. Refresh(Panes, v, mem, TRUE) /\ v \in [Panes -> 0..MaxAddr]
  <2>1. Refresh(Panes, v, mem, TRUE)
    BY DEF ShowMatch
  <2>2. found \in 0..MaxAddr
    BY <1>2, ViewsAssumption DEF Addr
  <2> QED
    BY <2>1, <2>2
<1>4. mem \in [Addr -> Byte] /\ mem' = mem /\ stopped' = stopped
  BY DEF ViewsTypeOK, target
<1>5. lastSearch' = p /\ lastSearchAt' = found /\ shown' \subseteq Addr
  BY <1>2 DEF ShowMatch
<1> HIDE DEF found, v
<1>6. view' \in [Panes -> 0..MaxAddr] /\ pane' \in [Panes -> Seq(Byte)]
      /\ poked' \in [Panes -> SUBSET Addr]
  BY <1>3, <1>4, RefreshType
<1>7. ViewsTypeOK'
  BY <1>2, <1>5, <1>6 DEF ViewsTypeOK, target, map, Addr
<1>8. Refresh(Panes, v, mem', TRUE) /\ mem' \in [Addr -> Byte]
  BY <1>3, <1>4
<1>9. \A q \in Panes : Shows(q)'
  BY <1>3, <1>8, RefreshShows
<1> QED
  BY <1>7, <1>9 DEF PanesShowMemory

\* A stop reads both panes.
LEMMA StopKeeps ==
    ASSUME ViewsTypeOK, Stop
    PROVE  ViewsTypeOK' /\ PanesShowMemory'
<1> DEFINE v == [disasm |-> rip', dump |-> IF view["dump"] = 0 THEN Rsp ELSE view["dump"]]
<1>1. user \in Users /\ mem' \in [Addr -> Byte] /\ rip' \in 0..MaxAddr
      /\ space' \in user.spaces
  BY ViewsAssumption DEF Stop, ViewsTypeOK
<1>2. Rsp \in 0..MaxAddr /\ view["dump"] \in 0..MaxAddr
  BY ViewsAssumption DEF ViewsTypeOK, Panes, Addr
<1>3. v \in [Panes -> 0..MaxAddr]
  BY <1>1, <1>2 DEF Panes
<1>4. Refresh(Panes, v, mem', TRUE) /\ regsRip' = rip'
  BY DEF Stop, RefreshAfterStop
<1> HIDE DEF v
<1>5. view' \in [Panes -> 0..MaxAddr] /\ pane' \in [Panes -> Seq(Byte)]
      /\ poked' \in [Panes -> SUBSET Addr]
  BY <1>1, <1>3, <1>4, RefreshType
<1>6. ViewsTypeOK'
  BY <1>1, <1>4, <1>5, ViewsAssumption DEF ViewsTypeOK, Stop, MemoryChanged, search, map
<1>7. \A q \in Panes : Shows(q)'
  BY <1>1, <1>3, <1>4, RefreshShows
<1> QED
  BY <1>6, <1>7 DEF PanesShowMemory

\* A byte written is one the panes are excused for.
LEMMA PokeKeeps ==
    ASSUME ViewsTypeOK, PanesShowMemory, Poke
    PROVE  ViewsTypeOK' /\ PanesShowMemory'
<1>1. PICK a \in user.targets, b \in Byte :
         /\ mem' = [mem EXCEPT ![a] = b]
         /\ poked' = [p \in Panes |-> poked[p] \cup {a}]
  BY DEF Poke
<1>2. a \in Addr /\ mem \in [Addr -> Byte] /\ mem' \in [Addr -> Byte]
  BY <1>1, ViewsAssumption DEF ViewsTypeOK
<1>3. poked' \in [Panes -> SUBSET Addr]
  BY <1>1, <1>2 DEF ViewsTypeOK
<1>4. ViewsTypeOK'
  BY <1>2, <1>3, ViewsAssumption DEF ViewsTypeOK, Poke, MemoryChanged, search, map
<1>5. ASSUME NEW p \in Panes, stopped PROVE Shows(p)'
  <2>1. view[p] \in 0..MaxAddr /\ view' = view /\ pane' = pane
    BY DEF ViewsTypeOK, Poke
  <2> DEFINE old == ReadMemory(mem, view[p])
             new == ReadMemory(mem', view[p])
  <2>2. /\ Len(new) = Len(old)
        /\ old \in Seq(Byte) /\ new \in Seq(Byte)
        /\ \A i \in DOMAIN old : view[p] + i - 1 \in Addr /\ old[i] = mem[view[p] + i - 1]
        /\ \A i \in DOMAIN new : view[p] + i - 1 \in Addr /\ new[i] = mem'[view[p] + i - 1]
    BY <1>2, <2>1, ReadIs
  <2>3. Len(pane[p]) = Len(old)
        /\ \A i \in DOMAIN old : pane[p][i] = old[i] \/ view[p] + i - 1 \in poked[p]
    BY <1>5 DEF PanesShowMemory, Shows
  <2> HIDE DEF old, new
  <2>4. DOMAIN new = DOMAIN old
    BY <2>2, LenProperties
  <2>5. ASSUME NEW i \in DOMAIN new
        PROVE  pane[p][i] = new[i] \/ view[p] + i - 1 \in poked'[p]
    <3>1. CASE view[p] + i - 1 = a
      BY <3>1, <1>1
    <3>2. CASE view[p] + i - 1 # a
      <4>1. new[i] = old[i]
        BY <3>2, <1>1, <1>2, <2>2, <2>4
      <4> QED
        BY <4>1, <2>3, <2>4, <1>1
    <3> QED
      BY <3>1, <3>2
  <2>6. Len(pane[p]) = Len(new)
    BY <2>2, <2>3
  <2> QED
    BY <2>1, <2>5, <2>6 DEF Shows, new
<1> QED
  BY <1>4, <1>5 DEF PanesShowMemory, Poke

-----------------------------------------------------------------------------
(* The search *)

\* A search that goes on where the matches shown so far end shows the next.
LEMMA NextMatchShown ==
    ASSUME ViewsTypeOK, NEW start \in Nat, NEW p, NEW before, from' \in Nat,
           from' # 0 => /\ from' <= start
                        /\ before = {a \in Matches(mem, p) : from' <= a /\ a < start},
           ShowMatch(start, p, before), mem' = mem
    PROVE  SearchShowsAll' /\ SweepBegun'
<1> SUFFICES ASSUME from' # 0 PROVE SearchShowsAll' /\ SweepBegun'
  BY DEF SearchShowsAll, SweepBegun
<1> DEFINE found == Least(Found(mem, start, p))
<1>1. Found(mem, start, p) = {a \in Matches(mem, p) : a >= start}
  BY DEF Found
<1>2. Matches(mem, p) \subseteq Nat
  BY DEF Matches, Addr
<1>3. /\ Found(mem, start, p) # {} /\ lastSearch' = p /\ lastSearchAt' = found
      /\ shown' = before \cup {found}
  BY DEF ShowMatch
<1>4. found \in Found(mem, start, p) /\ \A a \in Found(mem, start, p) : found <= a
  BY <1>1, <1>2, <1>3, LeastIs
<1> HIDE DEF found
<1>5. \A a \in Matches(mem, p) : from' <= a /\ a <= found <=> a \in shown'
  BY <1>1, <1>2, <1>3, <1>4
<1>6. shown' \subseteq Matches(mem, p)
  BY <1>1, <1>3, <1>4
<1>7. shown' = {a \in Matches(mem, p) : from' <= a /\ a <= found}
  BY <1>5, <1>6
<1>8. from' <= found
  BY <1>1, <1>2, <1>4
<1> QED
  BY <1>3, <1>7, <1>8 DEF SearchShowsAll, SweepBegun

LEMMA SearchKeeps ==
    ASSUME ViewsInv, Search
    PROVE  ViewsInv'
<1>1. SearchStart \in 1..MaxAddr
  BY ViewsAssumption DEF SearchStart, ViewsInv, ViewsTypeOK, Panes, Addr
<1>2. PICK p \in user.patterns : ShowMatch(SearchStart, p, {})
  BY DEF Search
<1>3. p \in Seq(Byte)
  BY ViewsAssumption DEF ViewsInv, ViewsTypeOK
<1>4. from' = SearchStart /\ stopped /\ UNCHANGED <<target, regsRip, map, user>>
  BY DEF Search
<1>5. SearchStart \in Nat /\ from' \in 0..MaxAddr /\ {} \subseteq Addr
  BY <1>1, <1>4
<1>6. ViewsTypeOK' /\ PanesShowMemory'
  BY <1>2, <1>3, <1>4, <1>5, ShowMatchKeeps DEF ViewsInv
<1>7. {} = {a \in Matches(mem, p) : from' <= a /\ a < SearchStart}
  BY <1>1, <1>4 DEF Matches, Addr
<1>8. SearchShowsAll' /\ SweepBegun'
  BY <1>2, <1>4, <1>5, <1>7, NextMatchShown DEF ViewsInv, target
<1> QED
  BY <1>6, <1>8 DEF ViewsInv

LEMMA SearchNextKeeps ==
    ASSUME ViewsInv, SearchNext
    PROVE  ViewsInv'
<1>1. NextStart = lastSearchAt + 1 /\ lastSearchAt \in Nat /\ NextStart \in Nat
  BY DEF NextStart, ViewsInv, ViewsTypeOK
<1>2. ShowMatch(NextStart, lastSearch, shown) /\ from' = from /\ stopped
  BY DEF SearchNext
<1>3. UNCHANGED <<target, regsRip, map, user>>
  BY DEF SearchNext
<1>4. lastSearch \in Seq(Byte) /\ shown \subseteq Addr /\ from \in 0..MaxAddr
  BY DEF ViewsInv, ViewsTypeOK
<1>5. ViewsTypeOK' /\ PanesShowMemory'
  BY <1>1, <1>2, <1>3, <1>4, ShowMatchKeeps DEF ViewsInv
<1>6. from # 0 => /\ from <= NextStart
                  /\ shown = {a \in Matches(mem, lastSearch) : from <= a /\ a < NextStart}
  BY <1>1, <1>4 DEF ViewsInv, SearchShowsAll, SweepBegun, Matches, Addr
<1>7. SearchShowsAll' /\ SweepBegun'
  BY <1>1, <1>2, <1>3, <1>4, <1>6, NextMatchShown DEF ViewsInv, target
<1> QED
  BY <1>5, <1>7 DEF ViewsInv

\* What moves no memory and no search leaves the sweep as it was.
LEMMA SweepKept ==
    ASSUME SearchShowsAll, SweepBegun,
           from' = 0 \/ UNCHANGED <<mem, search, swept>>
    PROVE  SearchShowsAll' /\ SweepBegun'
  BY DEF SearchShowsAll, SweepBegun, search, swept

-----------------------------------------------------------------------------
(* Every step of Views *)

LEMMA ViewsKeeps ==
    ASSUME ViewsInv, ViewsNext
    PROVE  ViewsInv'
<1> USE DEF ViewsInv
<1>1. CASE Start
  <2>1. mem' \in [Addr -> Byte] /\ from' \in 0..MaxAddr
    BY <1>1, ViewsAssumption DEF Start, ViewsTypeOK, MemoryChanged
  <2>2. ViewsTypeOK'
    BY <1>1, <2>1 DEF Start, ViewsTypeOK, MemoryChanged, panes, search, map
  <2>3. PanesShowMemory'
    BY <1>1 DEF Start, PanesShowMemory
  <2> QED
    BY <1>1, <2>2, <2>3, SweepKept DEF Start, MemoryChanged
<1>2. CASE End
  BY <1>2, SweepKept DEF End, ViewsTypeOK, PanesShowMemory, panes, search, swept, map
<1>3. CASE Stop
  BY <1>3, StopKeeps, SweepKept DEF Stop, MemoryChanged
<1>4. CASE Resume
  BY <1>4, SweepKept DEF Resume, ViewsTypeOK, PanesShowMemory, panes, search, swept, map
<1>5. CASE SetView
  <2>1. PICK p \in Panes, a \in user.targets : Point(p, ResolveAddr(a))
    BY <1>5 DEF SetView
  <2>2. ResolveAddr(a) \in 0..MaxAddr
    BY ViewsAssumption DEF ResolveAddr, ViewsTypeOK, Addr
  <2> QED
    BY <1>5, <2>1, <2>2, PointKeeps, SweepKept DEF SetView, target
<1>6. CASE ViewRip
  <2>1. "disasm" \in Panes /\ rip \in 0..MaxAddr
    BY DEF Panes, ViewsTypeOK
  <2> QED
    BY <1>6, <2>1, PointKeeps, SweepKept DEF ViewRip, target
<1>7. CASE Goto
  <2>1. PICK a \in user.targets : Point("disasm", a)
    BY <1>7 DEF Goto
  <2>2. "disasm" \in Panes /\ a \in 0..MaxAddr
    BY ViewsAssumption DEF Panes, ViewsTypeOK, Addr
  <2> QED
    BY <1>7, <2>1, <2>2, PointKeeps, SweepKept DEF Goto, target
<1>8. CASE SetRip
  <2>1. rip' \in 0..MaxAddr
    BY <1>8, ViewsAssumption DEF SetRip, ViewsTypeOK, Addr
  <2>2. ViewsTypeOK' /\ PanesShowMemory'
    BY <1>8, <2>1 DEF SetRip, ViewsTypeOK, PanesShowMemory, Shows, panes, search, swept, map
  <2> QED
    BY <1>8, <2>2, SweepKept DEF SetRip
<1>9. CASE Poke
  BY <1>9, PokeKeeps, SweepKept DEF Poke, MemoryChanged
<1>10. CASE Search
  BY <1>10, SearchKeeps
<1>11. CASE SearchNext
  BY <1>11, SearchNextKeeps
<1>12. CASE MemMap
  <2>1. ViewsTypeOK' /\ PanesShowMemory'
    BY <1>12 DEF MemMap, ViewsTypeOK, PanesShowMemory, Shows, target, panes, search, swept
  <2> QED
    BY <1>12, <2>1, SweepKept DEF MemMap, target
<1> QED
  BY <1>1, <1>2, <1>3, <1>4, <1>5, <1>6, <1>7, <1>8, <1>9, <1>10, <1>11, <1>12 DEF ViewsNext

-----------------------------------------------------------------------------
(* The history *)

\* What a frame makes of the history, and that it follows the pane if it did.
LEMMA TrackFollows ==
    ASSUME TypeOK, HistoryFollows, JumpAwaited, NEW h, h = Track(nav, view["disasm"])
    PROVE  /\ h \in [stack : Seq(Addr), pos : Nat, last : 0..MaxAddr, suppress : BOOLEAN]
           /\ h.pos \in DOMAIN h.stack \/ h = NoHistory
           /\ h.suppress => nav.suppress
           /\ view["disasm"] \in {h.last, 0}
           /\ h.suppress \/ view["disasm"] \in {nav.last, 0} => h = nav
           /\ ~slipped => \A i \in 1..(Len(h.stack) - 1) : h.stack[i] # h.stack[i + 1]
           /\ ~slipped /\ ~h.suppress /\ h.pos > 0 => h.stack[h.pos] = h.last
<1> DEFINE at == view["disasm"]
<1>1. /\ nav \in [stack : Seq(Addr), pos : Nat, last : 0..MaxAddr, suppress : BOOLEAN]
      /\ at \in 0..MaxAddr /\ DOMAIN nav.stack = 1..Len(nav.stack) /\ Len(nav.stack) \in Nat
  BY LenProperties DEF TypeOK, ViewsTypeOK, Panes
<1>2. CASE at = 0 \/ at = nav.last
  <2>1. h = nav
    BY <1>2 DEF Track
  <2> QED
    BY <1>1, <1>2, <2>1 DEF HistoryFollows
<1>3. CASE ~(at = 0 \/ at = nav.last) /\ nav.suppress
  <2>1. h = [stack |-> nav.stack, pos |-> nav.pos, last |-> at, suppress |-> FALSE]
    BY <1>3 DEF Track
  <2>2. h.stack = nav.stack /\ h.pos = nav.pos /\ h.last = at /\ h.suppress = FALSE
    BY <1>1, <2>1
  <2>3. ~slipped => nav.stack[nav.pos] = at
    BY <1>3 DEF HistoryFollows, JumpAwaited, IsKey, Jump
  <2>4. nav.pos \in DOMAIN nav.stack
    BY <1>3 DEF HistoryFollows, NoHistory
  <2> QED
    BY <1>1, <1>3, <2>1, <2>2, <2>3, <2>4 DEF HistoryFollows
<1>4. CASE ~(at = 0 \/ at = nav.last) /\ ~nav.suppress
  <2> DEFINE kept == SubSeq(nav.stack, 1, nav.pos)
  <2>1. /\ h = [stack |-> Append(kept, at), pos |-> nav.pos + 1, last |-> at, suppress |-> FALSE]
        /\ at \in Addr
    BY <1>1, <1>4 DEF Track, Recorded, Addr
  <2>2. /\ h.stack = Append(kept, at) /\ h.pos = nav.pos + 1
        /\ h.last = at /\ h.suppress = FALSE
    BY <1>1, <1>4, <2>1
  <2>3. nav.pos \in 0..Len(nav.stack) /\ (nav.pos = 0 => nav.stack = <<>>)
    BY <1>1 DEF HistoryFollows, NoHistory
  <2>4. /\ kept \in Seq(Addr) /\ Len(kept) = nav.pos
        /\ \A i \in 1..nav.pos : kept[i] = nav.stack[i]
    BY <1>1, <2>3, SubSeqProperties
  <2> HIDE DEF kept
  <2>5. /\ h.stack \in Seq(Addr) /\ Len(h.stack) = nav.pos + 1
        /\ \A i \in 1..nav.pos : h.stack[i] = nav.stack[i]
        /\ h.stack[nav.pos + 1] = at
    BY <1>1, <2>1, <2>2, <2>4, AppendProperties
  <2>6. h \in [stack : Seq(Addr), pos : Nat, last : 0..MaxAddr, suppress : BOOLEAN]
    BY <1>1, <2>1, <2>2, <2>5
  <2>7. DOMAIN h.stack = 1..(nav.pos + 1)
    BY <2>5, LenProperties
  <2>8. ASSUME ~slipped, NEW i \in 1..nav.pos PROVE h.stack[i] # h.stack[i + 1]
    <3>1. CASE i = nav.pos
      BY <3>1, <1>1, <1>4, <2>5, <2>8 DEF HistoryFollows
    <3>2. CASE i # nav.pos
      <4>1. Len(nav.stack) \in Nat
        BY <1>1
      <4>2. i \in 1..(Len(nav.stack) - 1) /\ i + 1 \in 1..nav.pos
        BY <2>3, <3>2, <4>1
      <4>3. nav.stack[i] # nav.stack[i + 1]
        BY <1>1, <2>8, <4>2 DEF HistoryFollows
      <4> QED
        BY <2>5, <4>2, <4>3
    <3> QED
      BY <3>1, <3>2
  <2>9. h.pos \in DOMAIN h.stack /\ h.stack[h.pos] = h.last
    BY <1>1, <2>2, <2>5, <2>7
  <2>10. ~slipped => \A i \in 1..(Len(h.stack) - 1) : h.stack[i] # h.stack[i + 1]
    BY <1>1, <2>5, <2>8
  <2>11. ~(h.suppress \/ at \in {nav.last, 0}) /\ at = h.last
    BY <1>4, <2>2
  <2> QED
    BY <2>6, <2>9, <2>10, <2>11
<1> QED
  BY <1>2, <1>3, <1>4

LEMMA FrameKeeps ==
    ASSUME NavInv, Frame
    PROVE  NavInv'
<1> DEFINE h == Track(nav, view["disasm"])
<1>1. nav' = h /\ UNCHANGED <<viewVars, jumps, byJump, slipped>>
  BY DEF Frame
<1>2. UNCHANGED <<view, jumps, byJump, slipped>> /\ ViewsTypeOK'
  BY <1>1 DEF NavInv, TypeOK, ViewsTypeOK, viewVars, target, panes, search, swept, map
<1>3. /\ h \in [stack : Seq(Addr), pos : Nat, last : 0..MaxAddr, suppress : BOOLEAN]
      /\ h.pos \in DOMAIN h.stack \/ h = NoHistory
      /\ view["disasm"] \in {h.last, 0}
      /\ h.suppress \/ view["disasm"] \in {nav.last, 0} => h = nav
      /\ ~slipped => \A i \in 1..(Len(h.stack) - 1) : h.stack[i] # h.stack[i + 1]
      /\ ~slipped /\ ~h.suppress /\ h.pos > 0 => h.stack[h.pos] = h.last
  BY TrackFollows DEF NavInv
<1> HIDE DEF h
<1>4. TypeOK'
  BY <1>1, <1>2, <1>3 DEF NavInv, TypeOK
<1>5. HistoryFollows'
  BY <1>1, <1>2, <1>3 DEF NavInv, HistoryFollows
<1>6. JumpAwaited'
  BY <1>1, <1>2, <1>3 DEF NavInv, JumpAwaited
<1> QED
  BY <1>4, <1>5, <1>6 DEF NavInv

LEMMA KeyFrameKeeps ==
    ASSUME NavInv, NEW key \in Keys, KeyFrame(key)
    PROVE  NavInv'
<1> DEFINE h == Track(nav, view["disasm"])
           g == Go(h, key)
           entry == h.stack[g.pos]
<1>1. /\ nav' = g /\ CanGo(h, key) /\ jumps' = Append(jumps, Jump("disasm", entry))
      /\ slipped' = (slipped \/ h.suppress \/ entry \in Lettered)
      /\ UNCHANGED <<viewVars, byJump>>
  BY DEF KeyFrame
<1>2. UNCHANGED <<view, byJump>> /\ ViewsTypeOK' /\ jumps \in Waiting
  BY <1>1 DEF NavInv, TypeOK, ViewsTypeOK, viewVars, target, panes, search, swept, map, Waiting
<1>3. /\ h \in [stack : Seq(Addr), pos : Nat, last : 0..MaxAddr, suppress : BOOLEAN]
      /\ h.pos \in DOMAIN h.stack \/ h = NoHistory
      /\ view["disasm"] \in {h.last, 0}
      /\ h.suppress \/ view["disasm"] \in {nav.last, 0} => h = nav
      /\ ~slipped => \A i \in 1..(Len(h.stack) - 1) : h.stack[i] # h.stack[i + 1]
      /\ ~slipped /\ ~h.suppress /\ h.pos > 0 => h.stack[h.pos] = h.last
  BY TrackFollows DEF NavInv
<1>4. Len(h.stack) \in Nat /\ DOMAIN h.stack = 1..Len(h.stack)
  BY <1>3, LenProperties
<1> HIDE DEF h
<1>5. /\ g.stack = h.stack /\ g.last = h.last /\ g.suppress = TRUE
      /\ g.pos = IF key = "back" THEN h.pos - 1 ELSE h.pos + 1
      /\ g = [stack |-> h.stack, pos |-> g.pos, last |-> h.last, suppress |-> TRUE]
  BY DEF Go, Position
<1>6. h.pos \in DOMAIN h.stack /\ g.pos \in DOMAIN h.stack
  <2>1. h # NoHistory
    BY <1>1 DEF CanGo, NoHistory
  <2> QED
    BY <1>1, <1>3, <1>4, <1>5, <2>1 DEF CanGo
<1>7. entry \in Addr /\ entry \in 0..MaxAddr
  <2>1. entry \in Addr
    BY <1>3, <1>6, ElementOfSeq, <1>4
  <2> QED
    BY <2>1, ViewsAssumption DEF Addr
<1> HIDE DEF g, entry
<1>8. /\ jumps' \in Waiting /\ Len(jumps') = Len(jumps) + 1
      /\ \A i \in 1..Len(jumps) : jumps'[i] = jumps[i]
      /\ jumps'[Len(jumps) + 1] = Jump("disasm", entry)
      /\ DOMAIN jumps' = 1..(Len(jumps) + 1) /\ DOMAIN jumps = 1..Len(jumps)
      /\ Len(jumps) \in Nat
  <2>1. Jump("disasm", entry) \in [pane : Panes, at : 0..MaxAddr]
    BY <1>7 DEF Jump, Panes
  <2> QED
    BY <1>1, <1>2, <2>1, AppendProperties, LenProperties DEF Waiting
<1>9. g \in [stack : Seq(Addr), pos : Nat, last : 0..MaxAddr, suppress : BOOLEAN]
  <2>1. g.pos \in Nat
    BY <1>4, <1>6
  <2> QED
    BY <1>3, <1>5, <2>1
<1>10. TypeOK'
  <2>1. slipped' \in BOOLEAN /\ byJump' \in BOOLEAN
    BY <1>1, <1>2, <1>3 DEF NavInv, TypeOK
  <2> QED
    BY <1>1, <1>2, <1>8, <1>9, <2>1 DEF TypeOK, Waiting
<1>11. HistoryFollows'
  <2>1. g.pos \in DOMAIN g.stack
    BY <1>5, <1>6
  <2>2. ~slipped' => /\ ~slipped /\ ~h.suppress
    BY <1>1
  <2>3. ~slipped' => g.stack[g.pos] # g.last
    BY <1>3, <1>4, <1>5, <1>6, <2>2
  <2>4. Len(jumps) + 1 \in DOMAIN jumps' /\ entry = g.stack[g.pos]
    BY <1>8, <1>5 DEF entry
  <2>5. ~slipped' => \A i \in 1..(Len(g.stack) - 1) : g.stack[i] # g.stack[i + 1]
    BY <1>3, <1>5, <2>2
  <2>6. \E i \in DOMAIN jumps' : jumps'[i] = Jump("disasm", g.stack[g.pos])
    BY <1>8, <2>4
  <2> QED
    BY <1>1, <1>5, <2>1, <2>3, <2>5, <2>6 DEF HistoryFollows
<1>12. JumpAwaited'
  <2> SUFFICES ASSUME ~slipped' PROVE JumpAwaited'
    BY DEF JumpAwaited
  <2>1. ~slipped /\ ~h.suppress /\ entry \notin Lettered
    BY <1>1
  <2>2. \A i \in DOMAIN jumps : ~IsKey(jumps[i])
    BY <1>3, <2>1 DEF NavInv, JumpAwaited
  <2>3. \A i \in DOMAIN jumps' : IsKey(jumps'[i]) => i = Len(jumps) + 1
    BY <1>8, <2>2
  <2>4. jumps'[Len(jumps) + 1].at = entry
    BY <1>8 DEF Jump
  <2> QED
    BY <1>1, <1>2, <1>3, <1>5, <2>1, <2>3, <2>4 DEF JumpAwaited
<1> QED
  BY <1>10, <1>11, <1>12 DEF NavInv

LEMMA FormatKeeps ==
    ASSUME NavInv, FormatButton
    PROVE  NavInv'
<1> DEFINE new == Jump("dump", view["dump"])
<1>1. /\ jumps' = Append(jumps, new) /\ UNCHANGED <<viewVars, nav, byJump, slipped>>
  BY DEF FormatButton
<1>2. UNCHANGED <<view, nav, byJump, slipped>> /\ ViewsTypeOK' /\ jumps \in Waiting
  BY <1>1 DEF NavInv, TypeOK, ViewsTypeOK, viewVars, target, panes, search, swept, map, Waiting
<1>3. new \in [pane : Panes, at : 0..MaxAddr] /\ ~IsKey(new)
  BY DEF NavInv, TypeOK, ViewsTypeOK, Jump, Panes, IsKey
<1> HIDE DEF new
<1>4. /\ jumps' \in Waiting /\ Len(jumps') = Len(jumps) + 1
      /\ \A i \in 1..Len(jumps) : jumps'[i] = jumps[i]
      /\ jumps'[Len(jumps) + 1] = new
      /\ DOMAIN jumps' = 1..(Len(jumps) + 1) /\ DOMAIN jumps = 1..Len(jumps)
      /\ Len(jumps) \in Nat
  BY <1>1, <1>2, <1>3, AppendProperties, LenProperties DEF Waiting
<1>5. /\ DOMAIN jumps \subseteq DOMAIN jumps'
      /\ \A i \in DOMAIN jumps : jumps'[i] = jumps[i]
      /\ \A i \in DOMAIN jumps' : IsKey(jumps'[i]) => i \in DOMAIN jumps
  BY <1>3, <1>4 DEF IsKey
<1>6. TypeOK'
  BY <1>2, <1>4 DEF NavInv, TypeOK, Waiting
<1>7. HistoryFollows'
  BY <1>2, <1>5 DEF NavInv, HistoryFollows
<1>8. JumpAwaited'
  <2> SUFFICES ASSUME ~slipped' PROVE JumpAwaited'
    BY DEF JumpAwaited
  <2>1. ASSUME NEW i \in DOMAIN jumps', IsKey(jumps'[i])
        PROVE  /\ nav.suppress /\ view["disasm"] \in {nav.last, 0}
               /\ jumps'[i].at \notin Lettered
               /\ \A k \in DOMAIN jumps' : IsKey(jumps'[k]) => k = i
    <3>1. i \in DOMAIN jumps /\ IsKey(jumps[i]) /\ jumps'[i] = jumps[i]
      <4>1. i \in DOMAIN jumps
        BY <1>5, <2>1
      <4>2. jumps'[i] = jumps[i]
        BY <1>5, <4>1
      <4> QED
        BY <2>1, <4>1, <4>2 DEF IsKey
    <3>2. ASSUME NEW k \in DOMAIN jumps', IsKey(jumps'[k]) PROVE k = i
      <4>1. k \in DOMAIN jumps
        BY <1>5, <3>2
      <4>2. jumps'[k] = jumps[k]
        BY <1>5, <4>1
      <4>3. IsKey(jumps[k])
        BY <3>2, <4>2 DEF IsKey
      <4> QED
        BY <1>2, <3>1, <4>1, <4>3 DEF NavInv, JumpAwaited
    <3>3. nav.suppress /\ view["disasm"] \in {nav.last, 0} /\ jumps[i].at \notin Lettered
      BY <1>2, <3>1 DEF NavInv, JumpAwaited, IsKey
    <3> QED
      BY <3>1, <3>2, <3>3
  <2>2. byJump' => nav.suppress \/ view["disasm"] \in {nav.last, 0}
    BY <1>2 DEF NavInv, JumpAwaited
  <2> QED
    BY <1>2, <2>1, <2>2 DEF JumpAwaited
<1> QED
  BY <1>6, <1>7, <1>8 DEF NavInv

\* What is left when the first waiting jump is taken.
LEMMA TailIs ==
    ASSUME jumps \in Waiting, jumps # <<>>, jumps' = Tail(jumps)
    PROVE  /\ jumps' \in Waiting /\ 1 \in DOMAIN jumps /\ Head(jumps) = jumps[1]
           /\ Head(jumps) \in [pane : Panes, at : 0..MaxAddr]
           /\ \A i \in DOMAIN jumps' : i + 1 \in DOMAIN jumps /\ i # 0 /\ jumps'[i] = jumps[i + 1]
           /\ \A i \in DOMAIN jumps \ {1} : i - 1 \in DOMAIN jumps' /\ jumps'[i - 1] = jumps[i]
<1>1. /\ jumps' \in Waiting /\ Len(jumps') = Len(jumps) - 1
      /\ \A i \in 1..Len(jumps') : jumps'[i] = jumps[i + 1]
  BY HeadTailProperties DEF Waiting
<1>2. /\ DOMAIN jumps = 1..Len(jumps) /\ DOMAIN jumps' = 1..Len(jumps')
      /\ Len(jumps) \in Nat /\ Len(jumps) # 0
  BY <1>1, LenProperties, EmptySeq DEF Waiting
<1>3. Head(jumps) \in [pane : Panes, at : 0..MaxAddr]
  BY HeadTailProperties DEF Waiting
<1>4. Head(jumps) = jumps[1]
  BY <1>2
<1> QED
  BY <1>1, <1>2, <1>3, <1>4

LEMMA ExecuteJumpKeeps ==
    ASSUME ViewsInv, NavInv, ExecuteJump
    PROVE  ViewsInv' /\ NavInv'
<1> DEFINE j == Head(jumps)
<1>1. /\ jumps # <<>> /\ jumps' = Tail(jumps)
      /\ IF active THEN Point(j.pane, ResolveAddr(j.at)) ELSE UNCHANGED <<view, pane, poked>>
      /\ byJump' = (byJump \/ (j.pane = "disasm" /\ active))
      /\ slipped' = (slipped \/ (j.pane = "disasm" /\ ~active))
      /\ UNCHANGED <<target, regsRip, search, swept, map, user, nav>>
  BY DEF ExecuteJump
<1>2. /\ jumps \in Waiting /\ jumps' \in Waiting /\ 1 \in DOMAIN jumps /\ j = jumps[1]
      /\ j \in [pane : Panes, at : 0..MaxAddr]
      /\ \A i \in DOMAIN jumps' : i + 1 \in DOMAIN jumps /\ i # 0 /\ jumps'[i] = jumps[i + 1]
      /\ \A i \in DOMAIN jumps \ {1} : i - 1 \in DOMAIN jumps' /\ jumps'[i - 1] = jumps[i]
  <2>1. jumps \in Waiting
    BY DEF NavInv, TypeOK, Waiting
  <2> QED
    BY <1>1, <2>1, TailIs
<1>3. j.pane \in Panes /\ ResolveAddr(j.at) \in 0..MaxAddr /\ j.at \in 0..MaxAddr
  BY <1>2, ViewsAssumption DEF ResolveAddr
<1> HIDE DEF j
<1>4. ViewsInv' /\ view'["disasm"] = IF active /\ j.pane = "disasm" THEN ResolveAddr(j.at)
                                    ELSE view["disasm"]
  <2>1. CASE active
    <3>1. ViewsTypeOK' /\ PanesShowMemory' /\ view'[j.pane] = ResolveAddr(j.at)
      BY <1>1, <1>3, <2>1, PointKeeps DEF ViewsInv
    <3>2. SearchShowsAll' /\ SweepBegun'
      BY <1>1, SweepKept DEF ViewsInv, target
    <3>3. view' = [view EXCEPT ![j.pane] = ResolveAddr(j.at)]
      BY <1>1, <2>1 DEF Point, Refresh
    <3>4. "disasm" \in DOMAIN view
      BY DEF ViewsInv, ViewsTypeOK, Panes
    <3> QED
      BY <2>1, <3>1, <3>2, <3>3, <3>4 DEF ViewsInv
  <2>2. CASE ~active
    <3>1. ViewsTypeOK' /\ PanesShowMemory'
      BY <1>1, <2>2 DEF ViewsInv, ViewsTypeOK, PanesShowMemory, Shows, target, search, swept, map
    <3>2. SearchShowsAll' /\ SweepBegun'
      BY <1>1, SweepKept DEF ViewsInv, target
    <3> QED
      BY <1>1, <2>2, <3>1, <3>2 DEF ViewsInv
  <2> QED
    BY <2>1, <2>2
<1>5. TypeOK'
  BY <1>1, <1>2, <1>4 DEF NavInv, TypeOK, ViewsInv, Waiting
<1>6. CASE ~IsKey(j)
  <2>1. view'["disasm"] = view["disasm"] /\ byJump' = byJump /\ slipped' = slipped
        /\ nav' = nav
    BY <1>1, <1>4, <1>6 DEF IsKey, NavInv, TypeOK
  <2>2. HistoryFollows'
    <3>1. \A i \in DOMAIN jumps : jumps[i] = Jump("disasm", nav.stack[nav.pos])
             => \E k \in DOMAIN jumps' : jumps'[k] = jumps[i]
      BY <1>2, <1>6 DEF IsKey, Jump
    <3> QED
      BY <2>1, <3>1 DEF NavInv, HistoryFollows
  <2>3. JumpAwaited'
    <3> SUFFICES ASSUME ~slipped' PROVE JumpAwaited'
      BY DEF JumpAwaited
    <3>1. ASSUME NEW i \in DOMAIN jumps', IsKey(jumps'[i])
          PROVE  /\ nav.suppress /\ view["disasm"] \in {nav.last, 0}
                 /\ jumps'[i].at \notin Lettered
                 /\ \A k \in DOMAIN jumps : IsKey(jumps[k]) => k = i + 1
      BY <1>2, <2>1, <3>1 DEF NavInv, JumpAwaited, IsKey
    <3>2. ASSUME NEW i \in DOMAIN jumps', IsKey(jumps'[i]),
                 NEW k \in DOMAIN jumps', IsKey(jumps'[k])
          PROVE  k = i
      <4>1. k + 1 = i + 1
        BY <1>2, <3>1, <3>2 DEF IsKey
      <4>2. i \in Nat /\ k \in Nat
        BY <1>2, LenProperties DEF Waiting
      <4> QED
        BY <4>1, <4>2
    <3>3. byJump' => nav.suppress \/ view["disasm"] \in {nav.last, 0}
      BY <2>1 DEF NavInv, JumpAwaited
    <3> QED
      BY <2>1, <3>1, <3>2, <3>3 DEF JumpAwaited
  <2> QED
    BY <1>4, <1>5, <2>2, <2>3 DEF NavInv
<1>7. CASE IsKey(j)
  <2> SUFFICES ASSUME ~slipped' PROVE HistoryFollows' /\ JumpAwaited'
    BY <1>1, <1>4, <1>5 DEF NavInv, HistoryFollows, JumpAwaited
  <2>1. ~slipped /\ active /\ nav' = nav
    BY <1>1, <1>7 DEF IsKey
  <2>2. /\ nav.suppress /\ view["disasm"] \in {nav.last, 0} /\ j.at \notin Lettered
        /\ \A k \in DOMAIN jumps : IsKey(jumps[k]) => k = 1
    BY <1>2, <1>7, <2>1 DEF NavInv, JumpAwaited
  <2>3. nav.pos \in DOMAIN nav.stack
    BY <2>2 DEF NavInv, HistoryFollows, NoHistory
  <2>4. nav.stack[nav.pos] # 0
    <3>1. nav.stack \in Seq(Addr)
      BY DEF NavInv, TypeOK
    <3>2. nav.stack[nav.pos] \in Addr
      BY <2>3, <3>1, LenProperties
    <3> QED
      BY <3>2 DEF Addr
  <2>5. \E i \in DOMAIN jumps : jumps[i] = Jump("disasm", nav.stack[nav.pos])
    BY <2>1, <2>2, <2>4 DEF NavInv, HistoryFollows
  <2>6. j.at = nav.stack[nav.pos]
    BY <1>2, <2>2, <2>5 DEF IsKey, Jump
  <2>7. view'["disasm"] = nav.stack[nav.pos]
    BY <1>4, <1>7, <2>1, <2>2, <2>6 DEF IsKey, ResolveAddr
  <2>8. HistoryFollows'
    BY <2>1, <2>2, <2>7 DEF NavInv, HistoryFollows
  <2>9. ASSUME NEW i \in DOMAIN jumps' PROVE ~IsKey(jumps'[i])
    <3>1. i \in Nat
      BY <1>2, LenProperties DEF Waiting
    <3> QED
      BY <1>2, <2>2, <3>1 DEF IsKey
  <2>10. JumpAwaited'
    BY <2>1, <2>2, <2>9 DEF JumpAwaited
  <2> QED
    BY <2>8, <2>10
<1> QED
  BY <1>6, <1>7

\* A command that moves the pane while a jump waits is a slip; one that does not
\* leaves the history alone.
LEMMA OtherKeeps ==
    ASSUME ViewsInv, NavInv, Other
    PROVE  ViewsInv' /\ NavInv'
<1>1. ViewsInv' /\ UNCHANGED <<nav, jumps>>
  BY ViewsKeeps DEF Other
<1>2. CASE view'["disasm"] = view["disasm"]
  <2>1. UNCHANGED <<byJump, slipped>>
    BY <1>2 DEF Other
  <2> QED
    BY <1>1, <1>2, <2>1 DEF NavInv, TypeOK, ViewsInv, HistoryFollows, JumpAwaited
<1>3. CASE view'["disasm"] # view["disasm"]
  <2>1. byJump' = FALSE /\ slipped' = (slipped \/ nav.suppress)
    BY <1>3 DEF Other
  <2>2. TypeOK'
    BY <1>1, <2>1 DEF NavInv, TypeOK, ViewsInv
  <2>3. HistoryFollows' /\ JumpAwaited'
    BY <1>1, <2>1 DEF NavInv, HistoryFollows, JumpAwaited
  <2> QED
    BY <1>1, <2>2, <2>3 DEF NavInv
<1> QED
  BY <1>2, <1>3

-----------------------------------------------------------------------------
(* The invariant and what follows from it *)

LEMMA InvInit ==
    ASSUME Init
    PROVE  ViewsInv /\ NavInv
<1> USE DEF Init, ViewsInit, NavInit
<1>1. 0 \in 0..MaxAddr /\ <<>> \in Seq(Byte) /\ <<>> \in Seq(Addr) /\ <<>> \in Waiting
  BY ViewsAssumption DEF Waiting
<1>2. mem \in [Addr -> Byte]
  BY ViewsAssumption
<1>3. ViewsTypeOK
  BY <1>1, <1>2 DEF ViewsTypeOK
<1>4. PanesShowMemory /\ SearchShowsAll /\ SweepBegun
  BY DEF PanesShowMemory, SearchShowsAll, SweepBegun
<1>5. TypeOK
  BY <1>1, <1>3 DEF TypeOK, NoHistory, Waiting
<1>6. HistoryFollows
  BY DEF HistoryFollows, NoHistory
<1>7. JumpAwaited
  BY DEF JumpAwaited
<1> QED
  BY <1>3, <1>4, <1>5, <1>6, <1>7 DEF ViewsInv, NavInv

LEMMA ViewsStill ==
    ASSUME ViewsInv, UNCHANGED viewVars
    PROVE  ViewsInv'
  BY DEF ViewsInv, ViewsTypeOK, PanesShowMemory, Shows, SearchShowsAll, SweepBegun,
         viewVars, target, panes, search, swept, map

LEMMA InvNext ==
    ASSUME ViewsInv, NavInv, [Next]_vars
    PROVE  ViewsInv' /\ NavInv'
<1>1. CASE Frame
  BY <1>1, FrameKeeps, ViewsStill DEF Frame
<1>2. ASSUME NEW key \in Keys, KeyFrame(key) PROVE ViewsInv' /\ NavInv'
  BY <1>2, KeyFrameKeeps, ViewsStill DEF KeyFrame
<1>3. CASE FormatButton
  BY <1>3, FormatKeeps, ViewsStill DEF FormatButton
<1>4. CASE ExecuteJump
  BY <1>4, ExecuteJumpKeeps
<1>5. CASE Other
  BY <1>5, OtherKeeps
<1>6. CASE UNCHANGED vars
  <2>1. ViewsInv' /\ UNCHANGED <<view, nav, jumps, byJump, slipped>>
    BY <1>6, ViewsStill DEF vars, viewVars, panes, history
  <2> QED
    BY <2>1 DEF ViewsInv, NavInv, TypeOK, HistoryFollows, JumpAwaited
<1> QED
  BY <1>1, <1>2, <1>3, <1>4, <1>5, <1>6 DEF Next

LEMMA Invariance == Spec => [](ViewsInv /\ NavInv)
<1>1. Init => ViewsInv /\ NavInv
  BY InvInit
<1>2. ViewsInv /\ NavInv /\ [Next]_vars => (ViewsInv /\ NavInv)'
  BY InvNext
<1> QED
  BY <1>1, <1>2, PTL DEF Spec

\* Every variable of the snapshot, the search and the history keeps its type.
THEOREM TypeCorrect == Spec => []TypeOK
<1>1. ViewsInv /\ NavInv => TypeOK
  BY DEF NavInv
<1> QED
  BY <1>1, Invariance, PTL

\* At every stop the panes show what their addresses hold, but for bytes written
\* since they were read: RefreshAfterStop_NoLock and the view commands suffice.
THEOREM PanesAreRead == Spec => []PanesShowMemory
<1>1. ViewsInv /\ NavInv => PanesShowMemory
  BY DEF ViewsInv
<1> QED
  BY <1>1, Invariance, PTL

\* search and searchnext show every match, in any memory, for any pattern.
THEOREM SearchIsComplete == Spec => []SearchShowsAll
<1>1. ViewsInv /\ NavInv => SearchShowsAll
  BY DEF ViewsInv
<1> QED
  BY <1>1, Invariance, PTL

\* The history follows the pane, however long it grows, while keys wait for the
\* jump before them and name addresses the dispatcher reads as such.
THEOREM HistoryIsKept == Spec => []HistoryFollows
<1>1. ViewsInv /\ NavInv => HistoryFollows
  BY DEF NavInv
<1> QED
  BY <1>1, Invariance, PTL

\* Then no jump is recorded as if the user had gone there anew.
THEOREM NoJumpRecorded == Spec => JumpsNotRecordedUnhurried
<1> DEFINE Recording == nav'.stack # nav.stack => ~byJump \/ slipped
<1>1. ASSUME NavInv, [Next]_vars PROVE [Recording]_vars
  <2>1. ASSUME NEW h, h = Track(nav, view["disasm"]), h.stack # nav.stack
        PROVE  ~byJump \/ slipped
    <3>1. ~(view["disasm"] = 0 \/ view["disasm"] = nav.last) /\ ~nav.suppress
      BY <2>1 DEF Track
    <3> QED
      BY <1>1, <3>1 DEF NavInv, JumpAwaited
  <2>2. CASE Frame
    BY <2>1, <2>2 DEF Frame
  <2>3. ASSUME NEW key \in Keys, KeyFrame(key) PROVE Recording
    <3>1. nav'.stack = Track(nav, view["disasm"]).stack
      BY <2>3 DEF KeyFrame, Go
    <3> QED
      BY <2>1, <3>1
  <2>4. CASE FormatButton \/ ExecuteJump \/ Other \/ UNCHANGED vars
    BY <2>4 DEF FormatButton, ExecuteJump, Other, vars, history
  <2> QED
    BY <1>1, <2>2, <2>3, <2>4 DEF Next
<1> QED
  BY <1>1, Invariance, PTL DEF Spec, JumpsNotRecordedUnhurried

-----------------------------------------------------------------------------
(* The memory map *)

\* Where the first k regions of an address space end.
EndOf(sp, k) == IF k = 0 THEN 0 ELSE sp[k].base + sp[k].size

Regions == [base : Nat, size : Nat \ {0}, free : BOOLEAN]

\* A walk over an address space has visited its first k regions.
Visited(sp, k, w) ==
    /\ w.addr = EndOf(sp, k)
    /\ w.out \in Seq(Regions)
    /\ {w.out[j] : j \in DOMAIN w.out} = {sp[i] : i \in {i \in 1..k : ~sp[i].free}}
    /\ \A j, l \in DOMAIN w.out : j < l => w.out[j].base < w.out[l].base
    /\ \A i \in 1..k : sp[i].base < UserMax

\* Regions do not overlap, and each begins where those before it end.
LEMMA TiledIs ==
    ASSUME NEW sp, Tiled(sp)
    PROVE  /\ DOMAIN sp = 1..Len(sp) /\ Len(sp) \in Nat
           /\ \A i \in 1..Len(sp) : sp[i] \in Regions
           /\ \A i \in 1..Len(sp) :
                 sp[i].base \in Nat /\ sp[i].size \in Nat \ {0} /\ sp[i].base = EndOf(sp, i - 1)
           /\ \A k \in 0..Len(sp) : EndOf(sp, k) \in Nat
           /\ \A j \in 1..Len(sp) : \A i \in 1..(j - 1) : sp[i].base + sp[i].size <= sp[j].base
<1>1. DOMAIN sp = 1..Len(sp) /\ Len(sp) \in Nat
  BY DEF Tiled
<1>s. sp \in Seq(Regions)
  BY DEF Tiled, Regions
<1>r. \A i \in 1..Len(sp) : sp[i] \in Regions
  BY <1>s
<1>2. \A i \in 1..Len(sp) : sp[i].base \in Nat /\ sp[i].size \in Nat \ {0}
  BY <1>r DEF Regions
<1>3. \A i \in 1..Len(sp) : sp[i].base = IF i = 1 THEN 0 ELSE sp[i - 1].base + sp[i - 1].size
  BY <1>1 DEF Tiled
<1>4. \A i \in 1..Len(sp) : sp[i].base = EndOf(sp, i - 1)
  BY <1>1, <1>3 DEF EndOf
<1>5. \A k \in 0..Len(sp) : EndOf(sp, k) \in Nat
  BY <1>1, <1>2 DEF EndOf
<1> DEFINE Bad == {j \in 1..Len(sp) : \E i \in 1..(j - 1) : ~(sp[i].base + sp[i].size <= sp[j].base)}
<1>6. Bad = {}
  <2>1. SUFFICES ASSUME Bad # {} PROVE FALSE
    OBVIOUS
  <2>2. Bad \in SUBSET Nat
    BY <1>1
  <2> DEFINE j == Least(Bad)
  <2>3. j \in Bad /\ \A m \in Bad : j <= m
    BY <2>1, <2>2, LeastIs
  <2> HIDE DEF j
  <2>4. PICK i \in 1..(j - 1) : ~(sp[i].base + sp[i].size <= sp[j].base)
    BY <2>3
  <2>5. j \in 2..Len(sp) /\ j - 1 \in 1..Len(sp) /\ j - 1 \notin Bad
    BY <1>1, <2>3, <2>4
  <2>6. sp[j].base = sp[j - 1].base + sp[j - 1].size
    BY <1>3, <2>5
  <2>7. i \in 1..(j - 2)
    BY <2>4, <2>5, <2>6, <1>2
  <2>8. sp[i].base + sp[i].size <= sp[j - 1].base
    BY <2>5, <2>7
  <2>9. i \in 1..Len(sp)
    BY <2>5, <2>7
  <2>10. /\ sp[j - 1].base \in Nat /\ sp[j - 1].size \in Nat \ {0}
         /\ sp[i].base \in Nat /\ sp[i].size \in Nat \ {0}
    BY <1>2, <2>5, <2>9
  <2> QED
    BY <2>4, <2>6, <2>8, <2>10
<1> QED
  BY <1>r, <1>1, <1>2, <1>4, <1>5, <1>6

\* One iteration visits the next region, or the walk is at its end.
LEMMA AdvanceIs ==
    ASSUME NEW sp, Tiled(sp), NEW k \in 0..Len(sp), NEW w, Visited(sp, k, w)
    PROVE  IF k = Len(sp) \/ EndOf(sp, k) >= UserMax THEN Advance(sp, w) = w
           ELSE Visited(sp, k + 1, Advance(sp, w))
<1> DEFINE here == QueryVirtual(sp, w.addr)
<1>n. DOMAIN sp = 1..Len(sp) /\ Len(sp) \in Nat /\ \A i \in 1..Len(sp) : sp[i] \in Regions
  BY TiledIs
<1>l. Len(sp) \in Nat
  BY TiledIs
<1>0. /\ DOMAIN sp = 1..Len(sp) /\ Len(sp) \in Nat
      /\ \A i \in 1..Len(sp) :
            sp[i].base \in Nat /\ sp[i].size \in Nat \ {0} /\ sp[i].base = EndOf(sp, i - 1)
      /\ EndOf(sp, k) \in Nat
      /\ \A j \in 1..Len(sp) : \A i \in 1..(j - 1) : sp[i].base + sp[i].size <= sp[j].base
  BY TiledIs
<1>a. w.addr = EndOf(sp, k)
  BY DEF Visited
<1>b. \A i \in 1..k : sp[i].base + sp[i].size <= EndOf(sp, k)
  BY <1>0 DEF EndOf
<1>1. CASE EndOf(sp, k) >= UserMax
  BY <1>1, <1>a DEF Advance
<1>2. CASE k = Len(sp)
  <2>1. here = {}
    BY <1>0, <1>2, <1>a, <1>b DEF QueryVirtual
  <2> QED
    BY <1>2, <2>1 DEF Advance
<1>3. CASE k # Len(sp) /\ ~(EndOf(sp, k) >= UserMax)
  <2>1. k + 1 \in 1..Len(sp) /\ sp[k + 1].base = EndOf(sp, k)
    <3>1. k + 1 \in 1..Len(sp) /\ (k + 1) - 1 = k
      BY <1>l, <1>3
    <3> QED
      BY <1>0, <3>1
  <2>2. k + 1 \in here
    BY <1>0, <1>a, <2>1 DEF QueryVirtual
  <2>3. ASSUME NEW i \in here PROVE i = k + 1
    <3>1. i \in 1..Len(sp) /\ sp[i].base <= EndOf(sp, k) /\ EndOf(sp, k) < sp[i].base + sp[i].size
      BY <1>0, <1>a DEF QueryVirtual
    <3>2. ~(i <= k)
      BY <1>0, <1>b, <3>1
    <3>3. ~(k + 1 < i)
      <4>1. SUFFICES ASSUME k + 1 < i PROVE FALSE
        OBVIOUS
      <4>2. k + 1 \in 1..(i - 1)
        BY <3>1, <4>1
      <4>3. sp[k + 1].base + sp[k + 1].size <= sp[i].base
        BY <1>0, <3>1, <4>2
      <4>4. sp[i].base \in Nat /\ sp[k + 1].base \in Nat /\ sp[k + 1].size \in Nat \ {0}
        BY <1>0, <2>1, <3>1
      <4> QED
        BY <2>1, <3>1, <4>3, <4>4
    <3> QED
      BY <3>1, <3>2, <3>3
  <2> DEFINE r == sp[k + 1]
  <2>4. Advance(sp, w) = Visit(w, r)
    <3>1. (CHOOSE i \in here : TRUE) = k + 1
      BY <2>2, <2>3
    <3>2. here # {} /\ ~(w.addr >= UserMax)
      BY <1>3, <1>a, <2>2
    <3> HIDE DEF here
    <3>3. Advance(sp, w) = IF w.addr >= UserMax \/ here = {} THEN w ELSE Visit(w, sp[CHOOSE i \in here : TRUE])
      BY DEF Advance, here
    <3> QED
      BY <3>1, <3>2, <3>3
  <2> HIDE DEF here
  <2>5. EndOf(sp, k + 1) = r.base + r.size
    BY <2>1 DEF EndOf
  <2>6. r \in Regions /\ w.out \in Seq(Regions)
    BY <1>n, <2>1 DEF Visited
  <2>7. \A i \in 1..(k + 1) : sp[i].base < UserMax
    <3>1. UserMax \in Nat
      BY ViewsAssumption
    <3>2. r.base < UserMax
      <4>1. EndOf(sp, k) \in Nat /\ r.base = EndOf(sp, k)
        BY <1>0, <2>1
      <4> QED
        BY <1>3, <3>1, <4>1
    <3> QED
      BY <3>2 DEF Visited
  <2>8. CASE r.free
    <3>1. Advance(sp, w) = [addr |-> r.base + r.size, out |-> w.out]
      BY <2>4, <2>8 DEF Visit
    <3>2. {i \in 1..(k + 1) : ~sp[i].free} = {i \in 1..k : ~sp[i].free}
      BY <2>8
    <3>3. Visited(sp, k + 1, Advance(sp, w))
      <4> DEFINE a == Advance(sp, w)
      <4>1. a.addr = EndOf(sp, k + 1) /\ a.out = w.out
        BY <2>5, <3>1
      <4>2. {w.out[j] : j \in DOMAIN w.out} = {sp[i] : i \in {i \in 1..(k + 1) : ~sp[i].free}}
        BY <3>2 DEF Visited
      <4> HIDE DEF a
      <4>3. Visited(sp, k + 1, a)
        BY <2>6, <2>7, <4>1, <4>2 DEF Visited
      <4> QED
        BY <4>3 DEF a
    <3> QED
      BY <1>3, <3>3
  <2>9. CASE ~r.free
    <3> DEFINE out == Append(w.out, r)
               n == Len(w.out)
    <3>1. Advance(sp, w) = [addr |-> r.base + r.size, out |-> out]
      BY <2>4, <2>9 DEF Visit
    <3>2. /\ out \in Seq(Regions)
          /\ n \in Nat /\ DOMAIN w.out = 1..n /\ DOMAIN out = 1..(n + 1) /\ out[n + 1] = r
          /\ \A j \in 1..n : out[j] = w.out[j]
      BY <2>6
    <3> HIDE DEF out, n
    <3>3. {out[j] : j \in DOMAIN out} = {w.out[j] : j \in DOMAIN w.out} \cup {r}
      BY <3>2
    <3>4. {sp[i] : i \in {i \in 1..(k + 1) : ~sp[i].free}} =
             {sp[i] : i \in {i \in 1..k : ~sp[i].free}} \cup {r}
      BY <2>9
    <3>5. \A j \in 1..n : w.out[j].base < r.base
      <4>1. SUFFICES ASSUME NEW j \in 1..n PROVE w.out[j].base < r.base
        OBVIOUS
      <4>2. PICK i \in 1..k : w.out[j] = sp[i]
        BY <3>2 DEF Visited
      <4>3. i \in 1..Len(sp)
        BY <1>0
      <4>4. /\ sp[i].base \in Nat /\ sp[i].size \in Nat \ {0}
            /\ sp[i].base + sp[i].size <= r.base /\ r.base \in Nat
        BY <1>0, <1>b, <2>1, <4>3
      <4> QED
        BY <4>2, <4>4
    <3>6. \A j, l \in 1..(n + 1) : j < l => out[j].base < out[l].base
      BY <3>2, <3>5 DEF Visited
    <3>7. {out[j] : j \in DOMAIN out} = {sp[i] : i \in {i \in 1..(k + 1) : ~sp[i].free}}
      BY <3>3, <3>4 DEF Visited
    <3>8. Visited(sp, k + 1, Advance(sp, w))
      <4> DEFINE a == Advance(sp, w)
      <4>1. a.addr = EndOf(sp, k + 1) /\ a.out = out
        BY <2>5, <3>1
      <4> HIDE DEF a
      <4>2. Visited(sp, k + 1, a)
        BY <2>7, <3>2, <3>6, <3>7, <4>1 DEF Visited
      <4> QED
        BY <4>2 DEF a
    <3> QED
      BY <1>3, <3>8
  <2> QED
    BY <1>3, <2>8, <2>9
<1> QED
  BY <1>1, <1>2, <1>3

Unwalked == [addr |-> 0, out |-> <<>>]

\* walk is what MemoryRegions defines it to be, up to the iteration m.
WalkIs(sp, walk, m) ==
    walk = [n \in 0..m |-> IF n = 0 THEN Unwalked ELSE Advance(sp, walk[n - 1])]

LEMMA WalkExists == ASSUME NEW sp, NEW m \in Nat PROVE \E walk : WalkIs(sp, walk, m)
<1> DEFINE Bad == {n \in Nat : ~\E walk : WalkIs(sp, walk, n)}
<1>1. SUFFICES ASSUME Bad # {} PROVE FALSE
  OBVIOUS
<1> DEFINE n == Least(Bad)
<1>2. n \in Bad /\ \A i \in Bad : n <= i
  <2>1. Bad \in SUBSET Nat
    OBVIOUS
  <2> QED
    BY <1>1, <2>1, LeastIs
<1> HIDE DEF n
<1>3. n # 0
  <2>1. WalkIs(sp, [i \in 0..0 |-> Unwalked], 0)
    BY DEF WalkIs
  <2> QED
    BY <1>2, <2>1
<1>4. n \in Nat /\ n - 1 \in Nat /\ n - 1 \notin Bad
  BY <1>2, <1>3
<1>5. PICK short : WalkIs(sp, short, n - 1)
  BY <1>4
<1> DEFINE walk == [i \in 0..n |-> IF i = n THEN Advance(sp, short[n - 1]) ELSE short[i]]
<1>6. ASSUME NEW i \in 0..n
      PROVE  walk[i] = IF i = 0 THEN Unwalked ELSE Advance(sp, walk[i - 1])
  <2>1. CASE i = n
    <3>1. walk[n - 1] = short[n - 1]
      BY <1>4
    <3> QED
      BY <1>3, <2>1, <3>1
  <2>2. CASE i # n
    <3>1. i \in 0..(n - 1)
      BY <1>4, <2>2
    <3>2. short[i] = IF i = 0 THEN Unwalked ELSE Advance(sp, short[i - 1])
      BY <1>5, <3>1 DEF WalkIs
    <3>3. i # 0 => walk[i - 1] = short[i - 1]
      BY <1>4, <3>1
    <3> QED
      BY <2>2, <3>2, <3>3
  <2> QED
    BY <2>1, <2>2
<1>7. WalkIs(sp, walk, n)
  <2>1. walk = [i \in 0..n |-> walk[i]]
    OBVIOUS
  <2> HIDE DEF walk
  <2> QED
    BY <1>6, <2>1 DEF WalkIs
<1> QED
  BY <1>2, <1>7

\* After n iterations the first n regions are visited, or all there are up to
\* kUserMax.
LEMMA WalkVisits ==
    ASSUME NEW sp, Tiled(sp), NEW walk, WalkIs(sp, walk, MaxRegions), NEW m \in 0..MaxRegions
    PROVE  \E k \in 0..Len(sp) :
              /\ Visited(sp, k, walk[m])
              /\ k = m \/ k = Len(sp) \/ EndOf(sp, k) >= UserMax
<1> DEFINE Good(n, k) == /\ Visited(sp, k, walk[n])
                         /\ k = n \/ k = Len(sp) \/ EndOf(sp, k) >= UserMax
           Bad == {n \in 0..MaxRegions : ~\E k \in 0..Len(sp) : Good(n, k)}
<1>a. Len(sp) \in Nat /\ MaxRegions \in Nat
  BY TiledIs, ViewsAssumption
<1>b. \A n \in 0..MaxRegions : walk[n] = IF n = 0 THEN Unwalked ELSE Advance(sp, walk[n - 1])
  BY DEF WalkIs
<1>1. SUFFICES ASSUME Bad # {} PROVE FALSE
  OBVIOUS
<1> DEFINE n == Least(Bad)
<1>2. n \in Bad /\ \A i \in Bad : n <= i
  <2>1. Bad \in SUBSET Nat
    BY <1>a
  <2> HIDE DEF Bad
  <2> QED
    BY <1>1, <2>1, LeastIs
<1> HIDE DEF n
<1>3. n # 0
  <2>1. walk[0] = Unwalked
    BY <1>a, <1>b
  <2>2. Visited(sp, 0, Unwalked)
    BY DEF Visited, Unwalked, EndOf
  <2>3. Good(0, 0) /\ 0 \in 0..Len(sp)
    BY <1>a, <2>1, <2>2
  <2> QED
    BY <1>2, <2>3
<1>4. n \in 0..MaxRegions /\ n - 1 \in 0..MaxRegions /\ n - 1 \notin Bad
  BY <1>2, <1>3, <1>a
<1>5. PICK k \in 0..Len(sp) : Good(n - 1, k)
  BY <1>4
<1>6. walk[n] = Advance(sp, walk[n - 1])
  BY <1>3, <1>4, <1>b
<1>7. CASE k = Len(sp) \/ EndOf(sp, k) >= UserMax
  <2>1. walk[n] = walk[n - 1]
    BY <1>5, <1>6, <1>7, AdvanceIs
  <2> QED
    BY <1>2, <1>5, <1>7, <2>1
<1>8. CASE ~(k = Len(sp) \/ EndOf(sp, k) >= UserMax)
  <2>1. Visited(sp, k + 1, walk[n])
    BY <1>5, <1>6, <1>8, AdvanceIs
  <2>2. k + 1 = n /\ k + 1 \in 0..Len(sp)
    BY <1>4, <1>5, <1>8, <1>a
  <2> QED
    BY <1>2, <2>1, <2>2
<1> QED
  BY <1>7, <1>8

\* What the walk lists.
LEMMA MapIs ==
    ASSUME NEW sp, Tiled(sp)
    PROVE  LET list == MemoryRegions(sp)
           IN  /\ {list[k] : k \in DOMAIN list} =
                     {sp[i] : i \in {i \in DOMAIN sp : ~sp[i].free /\ sp[i].base < UserMax}}
               /\ \A k, l \in DOMAIN list : k < l => list[k].base < list[l].base
<1> DEFINE walk[n \in 0..MaxRegions] ==
             IF n = 0 THEN [addr |-> 0, out |-> <<>>] ELSE Advance(sp, walk[n - 1])
           list == MemoryRegions(sp)
<1>a. Len(sp) \in Nat /\ MaxRegions \in Nat /\ Len(sp) <= MaxRegions /\ UserMax \in Nat
  BY TiledIs, ViewsAssumption DEF Tiled
<1>1. WalkIs(sp, walk, MaxRegions)
  BY <1>a, WalkExists DEF WalkIs, Unwalked
<1>2. list = walk[MaxRegions].out
  BY DEF MemoryRegions
<1> HIDE DEF walk, list
<1>3. PICK k \in 0..Len(sp) : /\ Visited(sp, k, walk[MaxRegions])
                              /\ k = Len(sp) \/ EndOf(sp, k) >= UserMax
  <2>1. MaxRegions \in 0..MaxRegions
    BY <1>a
  <2> QED
    BY <1>1, <1>a, <2>1, WalkVisits
<1>4. DOMAIN sp = 1..Len(sp)
  BY TiledIs
<1>5. \A i \in 1..Len(sp) : i > k => ~(sp[i].base < UserMax)
  <2>1. SUFFICES ASSUME NEW i \in 1..Len(sp), i > k PROVE ~(sp[i].base < UserMax)
    OBVIOUS
  <2>2. EndOf(sp, k) >= UserMax /\ EndOf(sp, k) \in Nat /\ sp[i].base \in Nat
    BY <1>3, <1>a, <2>1, TiledIs
  <2>3. EndOf(sp, k) <= sp[i].base
    <3>1. CASE k = 0
      BY <2>2, <3>1 DEF EndOf
    <3>2. CASE k # 0
      <4>1. k \in 1..(i - 1)
        BY <1>a, <2>1, <3>2
      <4> QED
        BY <2>1, <3>2, <4>1, TiledIs DEF EndOf
    <3> QED
      BY <3>1, <3>2
  <2> QED
    BY <1>a, <2>2, <2>3
<1>6. {i \in DOMAIN sp : ~sp[i].free /\ sp[i].base < UserMax} = {i \in 1..k : ~sp[i].free}
  <2>1. \A i \in 1..k : i \in 1..Len(sp) /\ sp[i].base < UserMax
    BY <1>3, <1>a DEF Visited
  <2>2. \A i \in 1..Len(sp) : sp[i].base < UserMax => i \in 1..k
    BY <1>a, <1>5
  <2> QED
    BY <1>4, <2>1, <2>2
<1> QED
  BY <1>2, <1>3, <1>6 DEF Visited, list

\* No command but memmap touches the list.
LEMMA MapKept == [Next]_vars /\ ~MemMap => UNCHANGED map
<1> SUFFICES ASSUME [Next]_vars, ~MemMap PROVE UNCHANGED map
  OBVIOUS
<1>1. CASE Other
  <2>1. ViewsNext
    BY <1>1 DEF Other
  <2> QED
    BY <2>1 DEF ViewsNext, Start, End, Stop, Resume, SetView, ViewRip, Goto, SetRip, Poke,
                Search, SearchNext
<1>2. CASE Frame \/ FormatButton \/ UNCHANGED vars
  BY <1>2 DEF Frame, FormatButton, vars, viewVars
<1>3. ASSUME NEW key \in Keys, KeyFrame(key) PROVE UNCHANGED map
  BY <1>3 DEF KeyFrame, viewVars
<1>4. CASE ExecuteJump
  BY <1>4 DEF ExecuteJump
<1> QED
  BY <1>1, <1>2, <1>3, <1>4 DEF Next

\* memmap lists the regions in use, every one of them, once and in order, in any
\* address space, for any kUserMax and any number of free regions between.
THEOREM MapAlwaysListsAll == Spec => []MapListsAll
<1>1. Init => MapListsAll
  BY DEF Init, ViewsInit, MapListsAll
<1>2. ViewsInv /\ MapListsAll /\ [Next]_vars => MapListsAll'
  <2> SUFFICES ASSUME ViewsInv, MapListsAll, [Next]_vars PROVE MapListsAll'
    OBVIOUS
  <2>1. CASE MemMap
    <3>1. Tiled(space)
      BY ViewsAssumption DEF ViewsInv, ViewsTypeOK
    <3>2. regions' = MemoryRegions(space) /\ walked' = space
      BY <2>1 DEF MemMap
    <3> QED
      BY <3>1, <3>2, MapIs DEF MapListsAll
  <2>2. CASE ~MemMap
    BY <2>2, MapKept DEF MapListsAll, map
  <2> QED
    BY <2>1, <2>2
<1> QED
  BY <1>1, <1>2, Invariance, PTL DEF Spec
=============================================================================
