----------------------------- MODULE Navigation -----------------------------
(***************************************************************************)
(* The history of the disassembly pane: the GUI thread's g_navStack, which *)
(* each frame grows when the snapshot's address has moved, and its back    *)
(* and forward keys, composed with the worker's Views.                     *)
(*                                                                         *)
(* A key moves g_navPos at once and queues a `u` for the worker; until the *)
(* pane has moved g_navSuppress keeps the jump from being recorded.  The   *)
(* dump's format buttons queue the address of the snapshot they are drawn  *)
(* from, too.  A frame is atomic here: it reads one snapshot, and what it  *)
(* queues could have been queued as late as it is executed.                *)
(***************************************************************************)
EXTENDS Views

CONSTANT MaxJumps \* bound on the commands that wait

\* How long g_navStack may grow for a user.
ASSUME NavigationAssumption ==
    MaxJumps \in Nat /\ \A u \in Users : u.history \in Nat

VARIABLES
    nav,     \* g_navStack, g_navPos, g_lastNavView and g_navSuppress
    jumps,   \* the queued commands that name an address of a snapshot
    byJump,  \* ghost: the disassembly pane was last moved by a key
    slipped  \* ghost: a key, or another move, came before a jump arrived

history == <<nav, jumps, byJump, slipped>>
vars == <<viewVars, history>>

Keys == {"back", "forward"}
Jump(p, a) == [pane |-> p, at |-> a]

NoHistory == [stack |-> <<>>, pos |-> 0, last |-> 0, suppress |-> FALSE]

NavInit ==
    /\ nav = NoHistory
    /\ jumps = <<>> /\ byJump = FALSE /\ slipped = FALSE

Init == ViewsInit /\ NavInit

-----------------------------------------------------------------------------
(* The GUI thread *)

Recorded(h, at) == Append(SubSeq(h.stack, 1, h.pos), at)

\* Variant: a jump's arrival leaves g_navSuppress set.
TrackSuppressed(h, at) ==
    IF at = 0 \/ at = h.last THEN h
    ELSE IF h.suppress THEN [h EXCEPT !.last = at]
    ELSE [stack |-> Recorded(h, at), pos |-> h.pos + 1, last |-> at, suppress |-> FALSE]

\* The pane has moved: record it, dropping what was ahead, unless a jump did it.
Track(h, at) ==
    IF at = 0 \/ at = h.last THEN h
    ELSE IF h.suppress THEN [stack |-> h.stack, pos |-> h.pos, last |-> at, suppress |-> FALSE]
    ELSE [stack |-> Recorded(h, at), pos |-> h.pos + 1, last |-> at, suppress |-> FALSE]

CanGo(h, key) == IF key = "back" THEN h.pos > 1 ELSE h.pos < Len(h.stack)

Position(h, key) == IF key = "back" THEN h.pos - 1 ELSE h.pos + 1

\* Variant: the key's own move is not marked.
GoUnmarked(h, key) == [h EXCEPT !.pos = Position(h, key)]

Go(h, key) ==
    [stack |-> h.stack, pos |-> Position(h, key), last |-> h.last, suppress |-> TRUE]

\* A frame without a key.
Frame ==
    /\ nav' = Track(nav, view["disasm"])
    /\ Len(nav'.stack) <= user.history
    /\ UNCHANGED <<viewVars, jumps, byJump, slipped>>

\* A frame with one, which acts on what the frame has just recorded.  Two keys in
\* one frame are as two frames.
KeyFrame(key) ==
    LET h == Track(nav, view["disasm"])
        entry == h.stack[Go(h, key).pos]
    IN
    /\ "keys" \in user.does /\ Len(jumps) < MaxJumps
    /\ Len(h.stack) <= user.history /\ CanGo(h, key)
    /\ nav' = Go(h, key)
    /\ jumps' = Append(jumps, Jump("disasm", entry))
    /\ slipped' = (slipped \/ h.suppress \/ entry \in Lettered)
    /\ UNCHANGED <<viewVars, byJump>>

\* Hex, Word or Dword: the same address again, in another width.
FormatButton ==
    /\ "format" \in user.does /\ Len(jumps) < MaxJumps
    /\ jumps' = Append(jumps, Jump("dump", view["dump"]))
    /\ UNCHANGED <<viewVars, nav, byJump, slipped>>

-----------------------------------------------------------------------------
(* The worker *)

\* Variant: u and d are refused while the target runs.
ExecuteJumpStopped ==
    /\ jumps # <<>>
    /\ jumps' = Tail(jumps)
    /\ LET j == Head(jumps) IN
          /\ IF stopped THEN Point(j.pane, ResolveAddr(j.at))
             ELSE UNCHANGED <<view, pane, poked>>
          /\ byJump' = (byJump \/ (j.pane = "disasm" /\ stopped))
          /\ slipped' = (slipped \/ (j.pane = "disasm" /\ ~active))
    /\ UNCHANGED <<target, regsRip, search, swept, map, user, nav>>

\* A queued u or d.  Without a session it is refused.
ExecuteJump ==
    /\ jumps # <<>>
    /\ jumps' = Tail(jumps)
    /\ LET j == Head(jumps) IN
          /\ IF active THEN Point(j.pane, ResolveAddr(j.at))
             ELSE UNCHANGED <<view, pane, poked>>
          /\ byJump' = (byJump \/ (j.pane = "disasm" /\ active))
          /\ slipped' = (slipped \/ (j.pane = "disasm" /\ ~active))
    /\ UNCHANGED <<target, regsRip, search, swept, map, user, nav>>

\* Any other command or event.
Other ==
    /\ ViewsNext
    /\ IF view'["disasm"] = view["disasm"] THEN UNCHANGED <<byJump, slipped>>
       ELSE byJump' = FALSE /\ slipped' = (slipped \/ nav.suppress)
    /\ UNCHANGED <<nav, jumps>>

Next == Frame \/ (\E key \in Keys : KeyFrame(key)) \/ FormatButton \/ ExecuteJump \/ Other

Spec == Init /\ [][Next]_vars

\* The worker takes what is queued.
FairSpec == Spec /\ WF_vars(ExecuteJump)

-----------------------------------------------------------------------------
(* Properties *)

TypeOK ==
    /\ ViewsTypeOK
    /\ nav \in [stack : Seq(Addr), pos : Nat, last : 0..MaxAddr, suppress : BOOLEAN]
    /\ jumps \in Seq([pane : Panes, at : 0..MaxAddr])
    /\ byJump \in BOOLEAN /\ slipped \in BOOLEAN

\* The history follows the pane.  While every key waits for the jump before it,
\* and nothing else moves the pane meanwhile: the current entry is what the pane
\* showed in the last frame, or what a jump on its way will show; no entry repeats
\* its neighbour, so a key always moves the pane; and the position is an entry.
HistoryFollows ==
    /\ nav.pos \in DOMAIN nav.stack \/ nav = NoHistory
    /\ ~slipped =>
          /\ \A i \in 1..(Len(nav.stack) - 1) : nav.stack[i] # nav.stack[i + 1]
          /\ IF nav.suppress
             THEN /\ nav.stack[nav.pos] # nav.last
                  /\ \/ \E i \in DOMAIN jumps : jumps[i] = Jump("disasm", nav.stack[nav.pos])
                     \/ view["disasm"] = nav.stack[nav.pos]
             ELSE nav.pos > 0 => nav.stack[nav.pos] = nav.last

\* What HistoryFollows rests on: one jump is queued at a time, for an address the
\* worker will understand, and the pane stands still until it is executed.
IsKey(j) == j.pane = "disasm"
JumpAwaited ==
    ~slipped =>
        /\ \A i \in DOMAIN jumps : IsKey(jumps[i]) =>
              /\ nav.suppress /\ view["disasm"] \in {nav.last, 0}
              /\ jumps[i].at \notin Lettered
              /\ \A k \in DOMAIN jumps : IsKey(jumps[k]) => k = i
        /\ byJump => nav.suppress \/ view["disasm"] \in {nav.last, 0}

\* A back or forward jump is not recorded: violated when a second key comes
\* before the first jump has arrived, and the entries ahead are lost with it.
JumpsNotRecorded == [][nav'.stack # nav.stack => ~byJump]_vars

\* It is when keys wait for the jump before.
JumpsNotRecordedUnhurried == [][nav'.stack # nav.stack => ~byJump \/ slipped]_vars

\* A key takes the pane to the entry it chose, whatever the target does then.
OnEntry == nav.pos \in DOMAIN nav.stack /\ view["disasm"] = nav.stack[nav.pos]
JumpsArrive == []~slipped => (nav.suppress ~> OnEntry)

\* The format buttons keep the dump's address: violated at an address whose
\* hexadecimal starts with a letter, which the queued `db` takes for a register.
FormatKeepsAddress ==
    [][jumps # <<>> /\ jumps' = Tail(jumps) /\ Head(jumps).pane = "dump" /\ active
        => view'["dump"] = Head(jumps).at]_vars
=============================================================================
