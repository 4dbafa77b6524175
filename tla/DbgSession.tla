----------------------------- MODULE DbgSession -----------------------------
(***************************************************************************)
(* Run control: the worker thread of DbgSession (dbgsession.cpp), the run  *)
(* control verbs of DispatchCommand (cmddispatch.cpp), and the parts of    *)
(* DbgHost (dbghost.cpp) that start, stop and resume the target, against   *)
(* the debug engine.                                                       *)
(*                                                                         *)
(* The engine is external: it has a target that runs or is in a break      *)
(* state, processes, break-in threads on their way, and it reports one     *)
(* event per wait.  DbgSession mirrors it in sessionActive and stopped,    *)
(* which is what every verb's guard and the GUI read.                      *)
(*                                                                         *)
(* Worker control:  "loop"  top of WorkerMain's loop: takes a command, a   *)
(*                          job or an event                                *)
(*                  "wait"  inside HandleCommand of a bp/bc that found the *)
(*                          target running: PumpOneEvent(5000)             *)
(*                  "edit"  the same handler after the wait                *)
(*                  "fire"  inside HandleEvent, in a plugin's Odbg_Paused, *)
(*                          where commands are dispatched inline           *)
(***************************************************************************)
EXTENDS Integers

CONSTANTS Verbs,       \* the verbs and jobs users and plugin threads send
          PluginVerbs, \* those a plugin issues from inside Odbg_Paused
          MaxProcs,    \* bound on the processes debugged at once
          MaxBreakins  \* bound on the break-ins outstanding at once

AllVerbs == {"launch", "attach", "restart", "kill", "g", "si", "pause", "bp",
             "ht", "childdbg", "breakentry", "ignoreexc",
             "Odbg_Go", "Odbg_Stepinto", "Odbg_Pause"}

\* A plugin's inline bp is not modelled: it could nest HandleEvent without
\* bound.
ASSUME SessionAssumption ==
    /\ Verbs \subseteq AllVerbs
    /\ PluginVerbs \subseteq AllVerbs \ {"bp"}
    /\ MaxProcs \in Nat \ {0} /\ MaxBreakins \in Nat

VARIABLES
    \* the engine
    engine,         \* "none" | "break" | "run": its execution status
    procs,          \* processes being debugged
    loaders,        \* of these, how many have their loader break ahead
    breakins,       \* injected break-in threads that have not reported yet
    stepping,       \* a single step is outstanding
    entryArmed,     \* the breakpoint at the entry point is in place
    \* DbgHost
    followChildren, breakAtEntry,
    ignoreBreak,    \* 0x80000003 is on the ignore list
    tracing,        \* HitTraceActive()
    lastTarget,     \* m_lastLaunch / m_lastAttachPid
    \* DbgSession
    sessionActive, stopped, expectInitialBreak, symLoaded,
    worker, ret,    \* worker control, and where HandleEvent returns to
    \* ghosts
    why,            \* the event behind the last stop that surfaced
    pauseAsked,     \* a pause was asked for and no break-in stop has answered it
    pausedOnce,     \* this session has surfaced a stop
    startedInside,  \* this session was started by a plugin from its callback
    stray           \* a break-in may be on its way that nobody waits for

target  == <<engine, procs, loaders, breakins, stepping, entryArmed>>
options == <<followChildren, breakAtEntry, ignoreBreak>>
mirror  == <<sessionActive, stopped>>
once    == <<expectInitialBreak, symLoaded>>
control == <<worker, ret>>
ghosts  == <<why, pauseAsked, pausedOnce, startedInside, stray>>
vars    == <<target, options, tracing, lastTarget, mirror, once, control, ghosts>>

-----------------------------------------------------------------------------
(* The engine *)

NoTarget ==
    /\ engine' = "none" /\ procs' = 0 /\ loaders' = 0 /\ breakins' = 0
    /\ stepping' = FALSE /\ entryArmed' = FALSE /\ stray' = FALSE

NewTarget ==
    /\ engine' = "run" /\ procs' = 1 /\ loaders' = 1 /\ breakins' = 0
    /\ stepping' = FALSE /\ entryArmed' = FALSE /\ stray' = FALSE

\* DbgHost::Go: SetExecutionStatus means nothing unless in a break state.
EngineGo == engine' = IF engine = "break" THEN "run" ELSE engine

\* DbgHost::BreakIn: a thread is injected into every process.  Of several that
\* are on their way whoever asked consumes one.
BreakIn ==
    /\ breakins + procs <= MaxBreakins
    /\ breakins' = breakins + procs
    /\ stray' = (stray \/ breakins > 0 \/ procs > 1)

\* The worker has left its wait.  That of a bp/bc may have missed its break-in.
LeaveWait == stray' = (breakins' > 0 /\ (stray \/ worker = "wait"))

\* Variants of EndSession: without m_hitTrace.Clear(); events of the processes
\* that go away are still delivered.
EndSessionKeepsTrace == NoTarget /\ UNCHANGED tracing
EndSessionKeepsEvents ==
    /\ engine' = "none" /\ procs' = 0 /\ UNCHANGED <<loaders, breakins, stray>>
    /\ stepping' = FALSE /\ entryArmed' = FALSE /\ tracing' = FALSE

\* DbgHost::EndSession
EndSession == NoTarget /\ tracing' = FALSE

-----------------------------------------------------------------------------
Init ==
    /\ engine = "none" /\ procs = 0 /\ loaders = 0 /\ breakins = 0
    /\ stepping = FALSE /\ entryArmed = FALSE
    /\ followChildren = FALSE /\ breakAtEntry = FALSE /\ ignoreBreak = FALSE
    /\ tracing = FALSE /\ lastTarget = "none"
    /\ sessionActive = FALSE /\ stopped = FALSE
    /\ expectInitialBreak = FALSE /\ symLoaded = FALSE
    /\ worker = "loop" /\ ret = "loop"
    /\ why = "none" /\ pauseAsked = FALSE /\ pausedOnce = FALSE
    /\ startedInside = FALSE /\ stray = FALSE

-----------------------------------------------------------------------------
(* Commands.  A command runs from the queue, or inline in a plugin's       *)
(* callback; a refused one changes nothing and is not an action.           *)

May(v) == \/ worker = "loop" /\ v \in Verbs
          \/ worker = "fire" /\ v \in PluginVerbs

\* Variant: the session inherits "symbols loaded" from the previous one.
SessionStartedKeepsSymbols(initialBreak) ==
    /\ sessionActive' = TRUE /\ stopped' = FALSE
    /\ expectInitialBreak' = initialBreak
    /\ pausedOnce' = FALSE /\ pauseAsked' = FALSE
    /\ startedInside' = (worker = "fire")
    /\ UNCHANGED <<symLoaded, why>>

\* res.sessionStarted
SessionStarted(initialBreak) ==
    /\ sessionActive' = TRUE /\ stopped' = FALSE
    /\ expectInitialBreak' = initialBreak
    /\ symLoaded' = FALSE
    /\ pausedOnce' = FALSE /\ pauseAsked' = FALSE
    /\ startedInside' = (worker = "fire")
    /\ UNCHANGED why

\* res.sessionEnded
SessionEnded == sessionActive' = FALSE /\ stopped' = FALSE

Launch ==
    /\ May("launch") /\ ~sessionActive
    /\ NewTarget /\ lastTarget' = "launch" /\ SessionStarted(TRUE)
    /\ UNCHANGED <<options, tracing, control>>

Attach ==
    /\ May("attach") /\ ~sessionActive
    /\ NewTarget /\ lastTarget' = "attach" /\ SessionStarted(FALSE)
    /\ UNCHANGED <<options, tracing, control>>

\* Restart ends the session before it knows whether the target starts again.
Restart ==
    /\ May("restart") /\ lastTarget # "none"
    /\ tracing' = FALSE
    /\ \/ NewTarget /\ SessionStarted(TRUE)
       \/ NoTarget /\ SessionEnded
          /\ UNCHANGED <<once, why, pauseAsked, pausedOnce, startedInside>>
    /\ UNCHANGED <<options, lastTarget, control>>

Kill ==
    /\ May("kill") /\ sessionActive
    /\ EndSession /\ SessionEnded
    /\ UNCHANGED <<options, lastTarget, once, control, why, pauseAsked, pausedOnce,
                   startedInside>>

\* g, ge, tr: resume a stopped target.
Run ==
    /\ May("g") /\ sessionActive /\ stopped
    /\ EngineGo /\ stopped' = FALSE
    /\ UNCHANGED <<procs, loaders, breakins, stepping, entryArmed, options,
                   tracing, lastTarget, sessionActive, once, control, ghosts>>

\* si, so
Step ==
    /\ May("si") /\ sessionActive /\ stopped
    /\ EngineGo /\ stepping' = (engine = "break") /\ stopped' = FALSE
    /\ UNCHANGED <<procs, loaders, breakins, entryArmed, options, tracing,
                   lastTarget, sessionActive, once, control, ghosts>>

Pause ==
    /\ May("pause") /\ sessionActive /\ ~stopped
    /\ BreakIn /\ pauseAsked' = TRUE
    /\ UNCHANGED <<engine, procs, loaders, stepping, entryArmed, options, tracing,
                   lastTarget, mirror, once, control, why, pausedOnce,
                   startedInside>>

\* ht on: from a stopped target, which it resumes.
TraceOn ==
    /\ May("ht") /\ sessionActive /\ stopped
    /\ tracing' = TRUE /\ EngineGo /\ stopped' = FALSE
    /\ UNCHANGED <<procs, loaders, breakins, stepping, entryArmed, options,
                   lastTarget, sessionActive, once, control, ghosts>>

\* ht off, htclear
TraceOff ==
    /\ May("ht") /\ sessionActive
    /\ tracing' = FALSE
    /\ UNCHANGED <<target, options, lastTarget, mirror, once, control, ghosts>>

SetOption ==
    /\ \/ /\ May("childdbg") /\ followChildren' = ~followChildren
          /\ UNCHANGED <<breakAtEntry, ignoreBreak>>
       \/ /\ May("breakentry") /\ breakAtEntry' = ~breakAtEntry
          /\ UNCHANGED <<followChildren, ignoreBreak>>
       \/ /\ May("ignoreexc") /\ ignoreBreak' = ~ignoreBreak
          /\ UNCHANGED <<followChildren, breakAtEntry>>
    /\ UNCHANGED <<target, tracing, lastTarget, mirror, once, control, ghosts>>

\* Jobs of the plugin API (RunOnWorker): no guard on the mirror.
JobGo ==
    /\ May("Odbg_Go")
    /\ EngineGo /\ stopped' = FALSE
    /\ UNCHANGED <<procs, loaders, breakins, stepping, entryArmed, options,
                   tracing, lastTarget, sessionActive, once, control, ghosts>>

JobStep ==
    /\ May("Odbg_Stepinto")
    /\ EngineGo /\ stepping' = (stepping \/ engine = "break") /\ stopped' = FALSE
    /\ UNCHANGED <<procs, loaders, breakins, entryArmed, options, tracing,
                   lastTarget, sessionActive, once, control, ghosts>>

JobPause ==
    /\ May("Odbg_Pause")
    /\ BreakIn /\ pauseAsked' = (pauseAsked \/ procs > 0)
    /\ UNCHANGED <<engine, procs, loaders, stepping, entryArmed, options, tracing,
                   lastTarget, mirror, once, control, why, pausedOnce,
                   startedInside>>

-----------------------------------------------------------------------------
(* bp/bc on a running target: interrupt, edit, resume *)

\* The edit of a stopped target changes nothing modelled here.
EditBegin ==
    /\ May("bp") /\ sessionActive /\ ~stopped
    /\ BreakIn
    /\ worker' = "wait"
    /\ UNCHANGED <<engine, procs, loaders, stepping, entryArmed, options, tracing,
                   lastTarget, mirror, once, ret, why, pauseAsked, pausedOnce,
                   startedInside>>

\* PumpOneEvent(5000) times out, or fails since there is no target.
WaitTimeout ==
    /\ worker = "wait"
    /\ worker' = "edit"
    /\ UNCHANGED <<target, options, tracing, lastTarget, mirror, once, ret, why,
                   pauseAsked, pausedOnce, startedInside>>
    /\ LeaveWait

\* Variant: the resume does not clear the mirror.
EditEndKeepsStopped ==
    /\ worker = "edit"
    /\ worker' = "loop" /\ EngineGo
    /\ UNCHANGED <<procs, loaders, breakins, stepping, entryArmed, options,
                   tracing, lastTarget, mirror, once, ret, ghosts>>

\* Variant: the target is left where the edit interrupted it.
EditEndNoResume ==
    /\ worker = "edit"
    /\ worker' = "loop"
    /\ UNCHANGED <<target, options, tracing, lastTarget, mirror, once, ret, ghosts>>

\* weInterrupted is "stopped" as it is now; the edit; the resume.
EditEnd ==
    /\ worker = "edit"
    /\ worker' = "loop"
    /\ IF stopped THEN EngineGo /\ stopped' = FALSE
                  ELSE UNCHANGED <<engine, stopped>>
    /\ UNCHANGED <<procs, loaders, breakins, stepping, entryArmed, options,
                   tracing, lastTarget, sessionActive, once, ret, ghosts>>

-----------------------------------------------------------------------------
(* Events: PumpOneEvent and HandleEvent *)

\* The worker is in a wait for an event of a running target.
Waiting == /\ engine = "run"
           /\ worker = "wait" \/ (worker = "loop" /\ sessionActive /\ ~stopped)

\* After a wait inside bp/bc, HandleEvent returns there.
Return == IF worker = "wait" THEN "edit" ELSE "loop"

\* Past the loader break, code of the debuggee runs.
Live == loaders < procs

\* A stop that surfaces, then FirePaused.
Surface(reason) ==
    /\ engine' = "break" /\ stopped' = TRUE /\ stepping' = FALSE
    /\ worker' = "fire" /\ ret' = Return
    /\ why' = reason /\ pausedOnce' = TRUE
    /\ pauseAsked' = (pauseAsked /\ reason # "breakin")
    /\ LeaveWait
    /\ UNCHANGED <<procs, options, tracing, lastTarget, sessionActive, symLoaded,
                   startedInside>>

\* HandleEvent calls Go without surfacing anything; a step under way is lost.
Resume ==
    /\ worker' = Return /\ stepping' = FALSE
    /\ LeaveWait
    /\ UNCHANGED <<engine, options, lastTarget, mirror, symLoaded, ret, why,
                   pauseAsked, pausedOnce, startedInside>>

\* A breakpoint of the user's, a module load, a new thread; the last two also
\* come before the loader break.
StopEvent ==
    /\ Waiting
    /\ UNCHANGED <<loaders, breakins, entryArmed, expectInitialBreak>>
    /\ Surface("event")

StepEvent ==
    /\ Waiting /\ stepping
    /\ UNCHANGED <<loaders, breakins, entryArmed, expectInitialBreak>>
    /\ Surface("event")

\* The internal breakpoint at the entry point: cleared, then a normal stop.
EntryEvent ==
    /\ Waiting /\ Live /\ entryArmed
    /\ UNCHANGED <<loaders, breakins, expectInitialBreak>>
    /\ Surface("event") /\ entryArmed' = FALSE

\* Variant of HandleException: the flag is left set.
HandleExceptionKeepsFlag(reason) ==
    \/ /\ expectInitialBreak /\ breakAtEntry
       /\ entryArmed' = TRUE /\ UNCHANGED expectInitialBreak
       /\ Resume /\ UNCHANGED <<procs, tracing>>
    \/ /\ Surface(reason)
       /\ UNCHANGED <<entryArmed, expectInitialBreak>>

\* HandleEvent, case Exception.  The first one after a launch is taken for
\* the loader break: run on to the entry point, if it can be armed.
HandleException(reason) ==
    /\ expectInitialBreak' = FALSE
    /\ \/ /\ expectInitialBreak /\ breakAtEntry
          /\ entryArmed' = TRUE
          /\ Resume /\ UNCHANGED <<procs, tracing>>
       \/ Surface(reason) /\ UNCHANGED entryArmed

LoaderEvent ==
    /\ Waiting /\ loaders > 0 /\ ~ignoreBreak
    /\ loaders' = loaders - 1 /\ UNCHANGED breakins
    /\ HandleException("loader")

BreakInEvent ==
    /\ Waiting /\ Live /\ breakins > 0 /\ ~ignoreBreak
    /\ breakins' = breakins - 1 /\ UNCHANGED loaders
    /\ HandleException("breakin")

FaultEvent ==
    /\ Waiting /\ Live
    /\ UNCHANGED <<loaders, breakins>>
    /\ HandleException("event")

\* 0x80000003 on the ignore list: the callback answers GO_NOT_HANDLED and
\* the wait goes on.
IgnoredBreak ==
    /\ Waiting /\ ignoreBreak
    /\ \/ loaders > 0 /\ loaders' = loaders - 1 /\ UNCHANGED breakins
       \/ Live /\ breakins > 0 /\ breakins' = breakins - 1 /\ UNCHANGED loaders
    /\ UNCHANGED <<engine, procs, stepping, entryArmed, options, tracing,
                   lastTarget, mirror, once, control, ghosts>>

\* A trace breakpoint: OnStop, Go.
TraceEvent ==
    /\ Waiting /\ Live /\ tracing
    /\ UNCHANGED <<procs, loaders, breakins, entryArmed, tracing,
                   expectInitialBreak>>
    /\ Resume

\* childdbg: the debuggee spawned a process; CreateProcess does not stop.
SpawnChild ==
    /\ Waiting /\ Live /\ followChildren /\ procs < MaxProcs
    /\ procs' = procs + 1 /\ loaders' = loaders + 1
    /\ UNCHANGED <<engine, breakins, stepping, entryArmed, options, tracing,
                   lastTarget, mirror, once, control, ghosts>>

\* HandleEvent, case ProcessExited.
ExitEvent ==
    /\ Waiting
    /\ worker' = Return
    /\ IF followChildren /\ procs > 1
       THEN /\ procs' = procs - 1
            /\ loaders' \in {l \in {loaders, loaders - 1} : l \in 0..(procs - 1)}
            /\ breakins' \in 0..breakins
            /\ stepping' = FALSE
            /\ LeaveWait
            /\ UNCHANGED <<engine, entryArmed, tracing, mirror>>
       ELSE EndSession /\ SessionEnded
    /\ UNCHANGED <<options, lastTarget, once, ret, why, pauseAsked, pausedOnce,
                   startedInside>>

\* The plugins have returned; the session's symbols are loaded once.
Fired ==
    /\ worker = "fire"
    /\ worker' = ret
    /\ symLoaded' = (symLoaded \/ sessionActive)
    /\ UNCHANGED <<target, options, tracing, lastTarget, mirror,
                   expectInitialBreak, ret, ghosts>>

-----------------------------------------------------------------------------
Event == StopEvent \/ StepEvent \/ EntryEvent \/ LoaderEvent \/ BreakInEvent
         \/ FaultEvent \/ IgnoredBreak \/ TraceEvent \/ SpawnChild \/ ExitEvent

Command == Launch \/ Attach \/ Restart \/ Kill \/ Run \/ Step \/ Pause
           \/ TraceOn \/ TraceOff \/ SetOption \/ JobGo \/ JobStep \/ JobPause

Edit == EditBegin \/ WaitTimeout \/ EditEnd

Next == Command \/ Edit \/ Event \/ Fired

Spec == Init /\ [][Next]_vars

\* The operating system runs the loader and the injected thread and the
\* engine reports what they raise; plugin callbacks return.
Fairness == WF_vars(LoaderEvent) /\ WF_vars(BreakInEvent) /\ WF_vars(Fired)

FairSpec == Spec /\ Fairness

-----------------------------------------------------------------------------
TypeOK ==
    /\ engine \in {"none", "break", "run"}
    /\ procs \in 0..MaxProcs /\ loaders \in 0..procs /\ breakins \in 0..MaxBreakins
    /\ stepping \in BOOLEAN /\ entryArmed \in BOOLEAN
    /\ followChildren \in BOOLEAN /\ breakAtEntry \in BOOLEAN
    /\ ignoreBreak \in BOOLEAN /\ tracing \in BOOLEAN
    /\ lastTarget \in {"none", "launch", "attach"}
    /\ sessionActive \in BOOLEAN /\ stopped \in BOOLEAN
    /\ expectInitialBreak \in BOOLEAN /\ symLoaded \in BOOLEAN
    /\ worker \in {"loop", "wait", "edit", "fire"} /\ ret \in {"loop", "edit"}
    /\ why \in {"none", "loader", "breakin", "event"}
    /\ pauseAsked \in BOOLEAN /\ pausedOnce \in BOOLEAN
    /\ startedInside \in BOOLEAN /\ stray \in BOOLEAN

\* What every guard in the dispatcher and every view in the GUI relies on:
\* the mirror agrees with the engine, at every point where another command,
\* job or plugin can look.
MirrorFaithful ==
    /\ sessionActive <=> engine # "none"
    /\ stopped <=> engine = "break"

\* A trace never outlives the process it was armed in.
TraceEndsWithSession == tracing => engine # "none"

\* "Interrupt it, make the edit, then resume ... so that edits feel seamless"
\* (HandleCommand), as far as it is true.  The handler of a bp on a running target
\* leaves it running or gone, whatever event the wait consumed and whatever a
\* plugin did in it.  The break-in it injected surfaces later, as a pause nobody
\* asked for, only if the wait was over before it came, or there were several
\* break-ins on their way: a second request, or one per process.
EditsAreSeamless ==
    [][/\ worker = "edit" /\ worker' # "edit" => engine' # "break"
       /\ worker = "loop" /\ engine = "run" /\ engine' = "break" /\ why' = "breakin"
             => pauseAsked \/ stray]_vars

\* Only a loader break is suppressed in favour of the entry point.
EntryRunOnlyFromLoader ==
    [][~entryArmed /\ entryArmed' => loaders' < loaders]_vars

\* Symbols count as loaded for a session only after its first pause.  A session
\* that a plugin started from inside Odbg_Paused is counted when the callback
\* that started it returns, and no other one is.
SymbolsAfterFirstPause == symLoaded => pausedOnce \/ startedInside

\* A pause that was accepted stops the target, also one asked for during the
\* start of the target, whose loader break is suppressed, unless the session
\* ends or is restarted first (which clears pauseAsked).
PauseTakesEffect == pauseAsked ~> (stopped \/ ~sessionActive \/ ~pauseAsked)

-----------------------------------------------------------------------------
(* Statements of the source's comments that the code does not keep *)

\* HandleCommand: "interrupt it, make the edit, then resume".  What is
\* resumed is the interruption, not a stop of the target's own.
EditResumesOnlyItself ==
    [][worker = "edit" /\ engine = "break" /\ engine' = "run" => why = "breakin"]_vars

\* ... so that edits feel seamless: nobody sees a break-in stop nobody asked
\* for.
NoUnaskedBreakIn ==
    [][worker = "loop" /\ engine = "run" /\ engine' = "break" /\ why' = "breakin"
          => pauseAsked]_vars

\* "Editing breakpoints requires the engine to be in a break state": the edit
\* is made in one, unless the session ended meanwhile.
EditInBreakState == worker = "edit" => engine # "run"

\* WorkerMain loads a session's symbols at its first pause, once.  What a plugin
\* restarts from inside Odbg_Paused counts as loaded before it has paused.
SymbolsOnlyAfterPause == symLoaded => pausedOnce

\* SetFollowChildren: "the toggle takes effect for children spawned from this
\* point on"; the processes already followed outlive one another (no kill or
\* restart among the verbs).
SurvivorsKept == [][procs > 1 => procs' > 0]_vars
=============================================================================
