----------------------------- MODULE Breakpoints -----------------------------
(***************************************************************************)
(* The breakpoints of DbgHost (dbghost.cpp): the user's, those armed for   *)
(* m_pending when a module loads, and the two internal ones, at the entry  *)
(* point and at the return address of a step-out.  The engine identifies   *)
(* all of them by small numbers that it hands out again; DbgHost remembers *)
(* two of these numbers, m_entryBpId and m_stepOutBpId, to tell its own    *)
(* breakpoints from the user's.                                            *)
(*                                                                         *)
(* The engine is external: it picks any free number, drops every           *)
(* breakpoint when a session ends, may or may not resolve an expression    *)
(* breakpoint itself while the module is loaded, and may or may not drop   *)
(* the offset of a breakpoint whose module unloads.  DbgHost resolves only *)
(* what it finds in the module's export table (Exports): a forwarder, or a *)
(* name that only symbols know, it leaves to the engine.  A call that sets *)
(* a breakpoint up may fail after the engine has made it (Fails).          *)
(* Hardware breakpoints differ from the others in how they fail and in     *)
(* nothing else that is kept here.  Editing a running target is atomic     *)
(* (DbgSession has the interruption); hit-trace breakpoints are left out.  *)
(***************************************************************************)
EXTENDS Naturals

CONSTANTS Symbols,    \* what bp may name as module!symbol
          Exports,    \* those of Symbols that ResolveExportByBase finds
          Addrs,      \* what bp may name as an address; return addresses
          Entry,      \* the entry point, one of Addrs
          Ids,        \* the engine's breakpoint numbers
          NoId,       \* DEBUG_ANY_ID
          Verbs,      \* the verbs the user sends
          Fails,      \* the calls of the engine that may fail
          MaxSessions \* bound on the sessions of a model

Places   == Symbols \cup Addrs
AllVerbs == {"bp", "hw", "bc", "bcrow", "tr", "kill", "restart", "breakentry"}
Owners   == {"user", "pending", "entry", "out"}
Bp       == [owner : Owners, at : Places, offset : BOOLEAN]
Free     == [owner |-> "free"]

\* What a call that fails after AddBreakpoint leaves: not enabled, with an offset
\* or without.
Stray(resolved) == [owner |-> "stray", at |-> "unknown", offset |-> resolved]

ASSUME BreakpointsAssumption ==
    /\ Exports \subseteq Symbols /\ Symbols \cap Addrs = {} /\ Entry \in Addrs
    /\ NoId \notin Ids /\ Free \notin Bp
    /\ Verbs \subseteq AllVerbs /\ MaxSessions \in Nat

\* SetOffset and SetOffsetExpression for a verb ("code") or for m_pending
\* ("module"), and SetDataParameters ("data").
ASSUME FailsAssumption == Fails \subseteq {"code", "module", "data"}

VARIABLES
    target,      \* "none" | "running" | "stopped"
    loaded,      \* the module of Symbols is in the target
    sessions,    \* sessions started
    bps,         \* the engine's breakpoints, by number
    pending,     \* m_pending: what is queued, and whether p.armed
    entryBpId,   \* m_entryBpId
    stepOutBpId, \* m_stepOutBpId
    breakAtEntry, expectInitialBreak,
    rows,        \* m_state.breakpoints, what the GUI lists
    clean,       \* ghost: DbgHost remembered nothing when this session started
    told,        \* ghost: the numbers of the breakpoints the user owns
    wanted,      \* ghost: places the user set this session and has not cleared
    lostAt       \* ghost: symbols whose entry of m_pending is spent, or that have
                 \* none, without a breakpoint that outlives the module

host   == <<pending, entryBpId, stepOutBpId>>
once   == <<breakAtEntry, expectInitialBreak>>
edits  == <<told, wanted, lostAt>>
ghosts == <<clean, edits>>
vars   == <<target, loaded, sessions, bps, host, once, rows, ghosts>>

FreeIds == {i \in Ids : bps[i] = Free}

\* Variant: Breakpoints without the check of m_stepOutBpId.
ShownStepOut == {i \in Ids \ {entryBpId} : bps[i] # Free /\ bps[i].offset}

\* DbgHost::Breakpoints: what is not internal and has an offset.
Shown == {i \in Ids \ {entryBpId, stepOutBpId} : bps[i] # Free /\ bps[i].offset}

\* SyncOptions_NoLock, which ends HandleCommand and HandleEvent.
SyncOptions ==
    rows' = CASE target' = "stopped" -> Shown'
              [] target' = "none"    -> {}
              [] OTHER               -> rows

-----------------------------------------------------------------------------
(* Sessions *)

Init ==
    /\ target = "none" /\ loaded = FALSE /\ sessions = 0
    /\ bps = [i \in Ids |-> Free]
    /\ pending = [s \in Symbols |-> "no"]
    /\ entryBpId = NoId /\ stepOutBpId = NoId
    /\ breakAtEntry = TRUE /\ expectInitialBreak = FALSE
    /\ rows = {} /\ clean = TRUE /\ told = {} /\ wanted = {} /\ lostAt = {}

\* DbgHost::EndSession, which touches none of host, and the engine's part.
EndSession ==
    /\ bps' = [i \in Ids |-> Free] /\ loaded' = FALSE
    /\ told' = {} /\ wanted' = {} /\ lostAt' = {}

SessionStarted ==
    /\ sessions < MaxSessions /\ sessions' = sessions + 1
    /\ target' = "running" /\ rows' = {}
    /\ expectInitialBreak' = TRUE /\ UNCHANGED breakAtEntry
    /\ clean' = /\ entryBpId' = NoId /\ stepOutBpId' = NoId
                /\ \A s \in Symbols : pending'[s] = "no"

Launch ==
    /\ target = "none"
    /\ EndSession /\ UNCHANGED host /\ SessionStarted

\* EndSession, ClearStepOut (of a breakpoint that is gone), m_pending.clear().
Restart ==
    /\ "restart" \in Verbs /\ sessions > 0
    /\ EndSession /\ stepOutBpId' = NoId /\ pending' = [s \in Symbols |-> "no"]
    /\ UNCHANGED entryBpId /\ SessionStarted

\* Mutant: Kill without the refresh that ends HandleCommand.
KillNoSync ==
    /\ "kill" \in Verbs /\ target # "none" /\ target' = "none"
    /\ EndSession /\ UNCHANGED <<rows, sessions, host, once, clean>>

Kill ==
    /\ "kill" \in Verbs /\ target # "none" /\ target' = "none"
    /\ EndSession /\ SyncOptions /\ UNCHANGED <<sessions, host, once, clean>>

\* The process exits: HandleEvent calls EndSession.
Exit ==
    /\ target = "running" /\ target' = "none"
    /\ EndSession /\ SyncOptions /\ UNCHANGED <<sessions, host, once, clean>>

BreakEntry ==
    /\ "breakentry" \in Verbs /\ breakAtEntry' = ~breakAtEntry
    /\ UNCHANGED <<target, loaded, sessions, bps, host, expectInitialBreak, rows, ghosts>>

-----------------------------------------------------------------------------
(* Editing *)

Set(i, who, p, resolved) ==
    bps' = [bps EXCEPT ![i] = [owner |-> who, at |-> p, offset |-> resolved]]

\* he, hr and hw take an address, or a register that holds one.
HwVerb(p) == "hw" \in Verbs /\ p \in Addrs

\* AddOffsetBreakpoint, AddHwBreakpoint, and AddDeferredBreakpoint where the
\* export resolves.
SetResolved(p) ==
    /\ p \in Symbols => loaded /\ p \in Exports
    /\ \E i \in FreeIds : Set(i, "user", p, TRUE) /\ told' = told \cup {i}
    /\ UNCHANGED pending

\* An expression for the engine, which may resolve it in a module that is loaded.
SetExpression(p) ==
    /\ p \in Symbols /\ ~(loaded /\ p \in Exports)
    /\ \E i \in FreeIds, resolved \in BOOLEAN :
          /\ resolved => loaded
          /\ Set(i, "user", p, resolved) /\ told' = told \cup {i}

\* Mutant: the expression only, nothing queued for the module load.
SetDeferredUnqueued(p) == SetExpression(p) /\ UNCHANGED pending

\* AddDeferredBreakpoint otherwise: the expression, and an entry of m_pending
\* unless there is one, armed or not.
SetDeferred(p) ==
    /\ SetExpression(p)
    /\ pending' = [pending EXCEPT ![p] = IF @ = "no" THEN "waiting" ELSE @]

SetBp(p) ==
    /\ "bp" \in Verbs \/ HwVerb(p)
    /\ target # "none"
    /\ SetResolved(p) \/ SetDeferred(p)
    /\ wanted' = wanted \cup {p}
    /\ lostAt' = IF p \in Symbols /\ ~loaded /\ pending[p] = "armed" THEN lostAt ELSE lostAt \ {p}
    /\ UNCHANGED <<target, loaded, sessions, entryBpId, stepOutBpId, once, clean>>
    /\ SyncOptions

\* A verb answers that it failed, but AddBreakpoint did not: the breakpoint it
\* made stays in the engine, and nobody knows its number.  Of a hardware one
\* the offset was set, and only its parameters were refused.
SetFails(p) ==
    /\ "bp" \in Verbs \/ HwVerb(p)
    /\ target # "none"
    /\ \E i \in FreeIds, f \in Fails \ {"module"} :
          /\ f = "data" => HwVerb(p)
          /\ bps' = [bps EXCEPT ![i] = Stray(f = "data")]
    /\ UNCHANGED <<target, loaded, sessions, host, once, ghosts>>
    /\ SyncOptions

\* RemoveBreakpointById (bc and hd), m_pending unchanged.
Clear(i) ==
    /\ target # "none" /\ bps[i] # Free
    /\ bps' = [bps EXCEPT ![i] = Free]
    /\ told' = told \ {i} /\ wanted' = wanted \ {bps[i].at}
    /\ UNCHANGED <<target, loaded, sessions, host, once, clean, lostAt>>
    /\ SyncOptions

\* bc of a number the user was given, or of a row of the list.
ClearBp(i) ==
    /\ \/ "bc" \in Verbs /\ i \in told
       \/ "bcrow" \in Verbs /\ i \in rows
    /\ Clear(i)

-----------------------------------------------------------------------------
(* Run control *)

Go ==
    /\ target = "stopped" /\ target' = "running"
    /\ UNCHANGED <<loaded, sessions, bps, host, once, rows, ghosts>>

\* Mutant: StepOut without ClearStepOut.
StepOutKeepsOld(ret) ==
    /\ "tr" \in Verbs /\ target = "stopped" /\ target' = "running"
    /\ \E i \in FreeIds : Set(i, "out", ret, TRUE) /\ stepOutBpId' = i
    /\ UNCHANGED <<loaded, sessions, pending, entryBpId, once, rows, ghosts>>

\* What ClearStepOut leaves in the engine.
Cleared == IF stepOutBpId = NoId THEN bps ELSE [bps EXCEPT ![stepOutBpId] = Free]

\* StepOut: ClearStepOut, then a breakpoint at the return address; Go.
StepOut(ret) ==
    /\ "tr" \in Verbs /\ target = "stopped" /\ target' = "running"
    /\ \E i \in {j \in Ids : Cleared[j] = Free} :
          /\ bps' = [Cleared EXCEPT ![i] = [owner |-> "out", at |-> ret, offset |-> TRUE]]
          /\ stepOutBpId' = i
    /\ UNCHANGED <<loaded, sessions, pending, entryBpId, once, rows, ghosts>>

\* StepOut fails once the old one is cleared, before or after AddBreakpoint.
StepOutFails ==
    /\ "tr" \in Verbs /\ "code" \in Fails /\ target = "stopped"
    /\ stepOutBpId' = NoId
    /\ \/ bps' = Cleared
       \/ \E i \in {j \in Ids : Cleared[j] = Free} :
             bps' = [Cleared EXCEPT ![i] = Stray(FALSE)]
    /\ UNCHANGED <<target, loaded, sessions, pending, entryBpId, once, ghosts>>
    /\ SyncOptions

ArmEntryBreakpoint == \E i \in FreeIds : Set(i, "entry", Entry, TRUE) /\ entryBpId' = i

\* The first exception after a launch: ArmEntryBreakpoint and Go, or a stop
\* when it is not wanted or fails.
LoaderBreak ==
    /\ target = "running" /\ expectInitialBreak /\ expectInitialBreak' = FALSE
    /\ \/ /\ breakAtEntry /\ UNCHANGED target
          /\ ArmEntryBreakpoint
       \/ /\ target' = "stopped" /\ UNCHANGED <<bps, entryBpId>>
       \/ /\ breakAtEntry /\ "code" \in Fails
          /\ target' = "stopped" /\ UNCHANGED entryBpId
          /\ \E i \in FreeIds : bps' = [bps EXCEPT ![i] = Stray(FALSE)]
    /\ UNCHANGED <<loaded, sessions, pending, stepOutBpId, breakAtEntry, ghosts>>
    /\ SyncOptions

\* A step, an exception or a pause surfaces.
Stop ==
    /\ target = "running" /\ ~expectInitialBreak /\ target' = "stopped"
    /\ UNCHANGED <<loaded, sessions, bps, host, once, ghosts>>
    /\ SyncOptions

\* Mutant: ClearEntryBp without the reset of m_entryBpId.
HitKeepsId(i) ==
    /\ target = "running" /\ ~expectInitialBreak /\ target' = "stopped"
    /\ bps[i] # Free /\ bps[i].offset /\ bps[i].owner # "stray"
    /\ bps' = IF i = entryBpId THEN [bps EXCEPT ![i] = Free] ELSE bps
    /\ UNCHANGED <<entryBpId, loaded, sessions, pending, stepOutBpId, once, ghosts>>
    /\ SyncOptions

\* A breakpoint that is enabled and has an offset is hit and reported as number i: at the
\* entry point it is cleared, if it is the number remembered.
Hit(i) ==
    /\ target = "running" /\ ~expectInitialBreak /\ target' = "stopped"
    /\ bps[i] # Free /\ bps[i].offset /\ bps[i].owner # "stray"
    /\ IF i = entryBpId
       THEN bps' = [bps EXCEPT ![i] = Free] /\ entryBpId' = NoId
       ELSE UNCHANGED <<bps, entryBpId>>
    /\ UNCHANGED <<loaded, sessions, pending, stepOutBpId, once, ghosts>>
    /\ SyncOptions

\* ResolvePendingForModule sets a breakpoint for every export that is queued and
\* not armed, and takes the entry as armed whether that worked or not; an entry
\* that is no export stays as it is.  The engine resolves what it can of the
\* expressions it was given.
ResolvePending ==
    LET waiting  == {s \in Exports : pending[s] = "waiting"}
        deferred == {i \in Ids : bps[i] # Free /\ bps[i].owner # "stray" /\ ~bps[i].offset}
    IN  /\ \E id \in [waiting -> FreeIds], resolved \in SUBSET deferred, failed \in SUBSET waiting :
              /\ \A s, t \in waiting : id[s] = id[t] => s = t
              /\ failed # {} => "module" \in Fails
              /\ LET made     == {id[s] : s \in waiting}
                     place(i) == CHOOSE s \in waiting : id[s] = i
                 IN  bps' = [i \in Ids |->
                         IF i \in made
                         THEN IF place(i) \in failed
                              THEN Stray(FALSE)
                              ELSE [owner |-> "pending", at |-> place(i), offset |-> TRUE]
                         ELSE IF i \in resolved THEN [bps[i] EXCEPT !.offset = TRUE]
                                                ELSE bps[i]]
              /\ told' = told \cup {id[s] : s \in waiting \ failed}
              /\ lostAt' = lostAt \cup failed
        /\ pending' = [s \in Symbols |-> IF s \in waiting THEN "armed" ELSE pending[s]]

\* The module loads; breakmod stops the target.
LoadModule ==
    /\ target = "running" /\ target' \in {"running", "stopped"}
    /\ ~loaded /\ loaded' = TRUE
    /\ ResolvePending
    /\ UNCHANGED <<sessions, entryBpId, stepOutBpId, once, clean, wanted>>
    /\ SyncOptions

\* What a module that goes away takes with it for good: nothing arms the places
\* whose entry is spent, or that were resolved without one, when it comes back.
Spent == {s \in Symbols : pending[s] = "armed" \/ (s \in wanted /\ pending[s] = "no")}

\* The module unloads (FreeLibrary): the callback does nothing, p.armed stays,
\* and the engine may drop the offsets of the breakpoints in it.
UnloadModule ==
    /\ target = "running" /\ loaded /\ loaded' = FALSE
    /\ \E gone \in SUBSET {i \in Ids : bps[i] \in Bp /\ bps[i].at \in Symbols} :
          bps' = [i \in Ids |-> IF i \in gone THEN [bps[i] EXCEPT !.offset = FALSE] ELSE bps[i]]
    /\ lostAt' = lostAt \cup Spent
    /\ UNCHANGED <<target, sessions, host, once, rows, clean, told, wanted>>

Next ==
    \/ Launch \/ Restart \/ Kill \/ Exit \/ BreakEntry
    \/ \E p \in Places : SetBp(p) \/ SetFails(p)
    \/ \E i \in Ids : ClearBp(i) \/ Hit(i)
    \/ \E a \in Addrs : StepOut(a)
    \/ StepOutFails \/ Go \/ LoaderBreak \/ Stop \/ LoadModule \/ UnloadModule

Spec == Init /\ [][Next]_vars

-----------------------------------------------------------------------------
(* Properties *)

TypeOK ==
    /\ target \in {"none", "running", "stopped"}
    /\ loaded \in BOOLEAN /\ sessions \in 0..MaxSessions
    /\ bps \in [Ids -> Bp \cup {Stray(TRUE), Stray(FALSE), Free}]
    /\ pending \in [Symbols -> {"no", "waiting", "armed"}]
    /\ entryBpId \in Ids \cup {NoId} /\ stepOutBpId \in Ids \cup {NoId}
    /\ breakAtEntry \in BOOLEAN /\ expectInitialBreak \in BOOLEAN
    /\ clean \in BOOLEAN /\ rows \subseteq Ids /\ told \subseteq Ids
    /\ wanted \subseteq Places /\ lostAt \subseteq Symbols
    /\ target = "none" => rows = {}

Owned(i) == IF bps[i] = Free THEN "free" ELSE bps[i].owner

\* What DbgHost takes for its own is its own, in every session it enters with
\* nothing remembered: the two numbers name exactly the internal breakpoints in
\* the engine (Breakpoints, HandleEvent and ClearStepOut all go by these numbers).
InternalTracked ==
    (target # "none" /\ clean) =>
        /\ {i \in Ids : Owned(i) = "entry"} = {entryBpId} \ {NoId}
        /\ {i \in Ids : Owned(i) = "out"} = {stepOutBpId} \ {NoId}

\* A breakpoint of the user's stays until the user clears it or the session
\* ends: only "the internal break-at-entry breakpoint" is cleared when it hits.
UserBpsKept == clean => \A i \in told : Owned(i) \in {"user", "pending"}

\* Breakpoints() lists every breakpoint that is the user's and has an address,
\* none of the internal ones ("ours, not the user's") and none that the verb
\* said it could not set, at every stop.
RowsShowUsers ==
    (target = "stopped" /\ clean) => rows = {i \in told : bps[i] # Free /\ bps[i].offset}

\* A breakpoint of the user's is in place at p.
InPlace(p) == \E i \in told : bps[i] # Free /\ bps[i].at = p /\ bps[i].offset

\* AddDeferredBreakpoint "resolves immediately ... otherwise defers until the
\* module loads".  With the module in the target the user has a breakpoint in
\* every place wanted, but for three causes: setting it failed when the module
\* loaded, or the module was unloaded and came back after the entry was spent
\* (both in lostAt), or the name is no export, when it is queued for the next
\* load and the engine has its expression.
DeferredArmed ==
    (loaded /\ clean) =>
        \A p \in wanted : \/ InPlace(p) \/ p \in lostAt
                          \/ p \in Symbols \ Exports /\ pending[p] = "waiting"

-----------------------------------------------------------------------------
(* Statements of the source that the code does not keep *)

\* The same without its three causes: a name "defers until the module loads", and
\* has its breakpoint then.
EveryNameArmed == loaded => \A p \in wanted : InPlace(p)

\* UserBpsKept without "clean": HandleEvent clears "the internal break-at-entry
\* breakpoint", never one of the user's, in any session.
UserBpsKeptAlways == \A i \in told : Owned(i) \in {"user", "pending"}

\* "bc <id>: remove a breakpoint by id", "breakpoints belong to the session that
\* just ended": a module that loads gets breakpoints only where the user has one.
ArmsOnlyWanted ==
    [][\A i \in Ids : Owned(i) = "free" /\ Owned(i)' = "pending" => bps'[i].at \in wanted]_vars

\* StepOut: "set a one-shot breakpoint at the current function's return address".
StepOutIsOneShot ==
    [][\A i \in Ids : (Hit(i) /\ Owned(i) = "out") => Owned(i)' = "free"]_vars
=============================================================================
