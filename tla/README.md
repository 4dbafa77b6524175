# Open Debugger in TLA+

Open Debugger is a Windows debugger with a GUI: one worker thread owns the debug engine
(DbgEng), a GUI thread and a named pipe feed it commands, and plugins are called back
from both threads. This directory holds models of the parts of it that keep state and
interact, TLC configurations that check them on small instances, and proofs that hold
for every instance. Paths below are relative to the repository; the debug engine, the
operating system and the debuggee are modelled from how the code under `src/` uses them.

```
tlc -config MCHitTrace_all.cfg MCHitTrace      # a model check
tlapm HitTraceProofs.tla                       # the proofs of a module
```

## The system

| Component | State it keeps | Operations | Talks to |
|---|---|---|---|
| Hit trace (`hittrace`) | `m_active`, `m_executed`, `m_armed`, `m_blocks` | `Start`, `OnStop`, `WalkFrom`, `Arm`, `Stop`, `Clear` | engine (breakpoints, memory), called by the session |
| Session (`dbgsession`) | `sessionActive`, `stopped`, `expectInitialBreak`, `symLoaded`, the snapshot | `WorkerMain`, `HandleCommand`, `HandleEvent` | dispatcher, engine host, plugins, GUI (snapshot) |
| Engine host (`dbghost`) | ignored exceptions, pending breakpoints, `m_entryBpId`, `m_stepOutBpId`, options, last launch | launch, attach, restart, go, step, break-in, breakpoints | the debug engine |
| Dispatcher (`cmddispatch`) | none | one branch per verb, guarded by the session mirror | engine host |
| Command channel (`dbgsession`) | command queue, job queue, promises on the callers' stacks | `PushCommand`, `PushCommandBlocking`, `RunOnWorker` | GUI, pipe, plugins, worker |
| Plugins (`plugin_manager`, `host_exports`) | `g_currentPlugin`, list of plugins | `FirePaused`, `FireCommand`, `FireAction`, settings | worker and GUI thread |
| Settings (`settings`, `gui_main`) | `m_kv` and its file, `g_lastExe`, `g_rememberLastExe` | load, set, save, re-apply at start, save at exit | GUI thread, worker through commands, plugins |
| Views (`dbgsession`, `cmddispatch`) | addresses and contents of the panes, `m_lastSearch`, `memoryRegions` | `RefreshAfterStop`, `SetDisasmView`, `SetDumpView`, `search`, `searchnext`, `poke`, `MemoryRegions` | engine, snapshot |
| Navigation (`gui_main`) | `g_navStack`, `g_navPos`, `g_lastNavView`, `g_navSuppress` | grows each frame the pane has moved; back, forward | queues `u` for the worker |
| GUI (`gui_main`) | drawing state | sends commands, draws the snapshot | session |
| Process tabs (`dbghost`, `dbgsession`, `gui_main`) | `m_procNames`, `processes`, `currentProcEngineId`, `procSerial`, `g_procRequested` | `Processes`, `SyncProcesses_NoLock`, `proc`, `closeproc`, `DrawCpuWindow` | engine, worker, GUI thread |
| Ignored exceptions (`dbghost`, `cmddispatch`, `gui_main`) | `m_ignoredExceptions`, `m_seenExceptions` | `Exception` callback, `ignoreexc`, `catchexc`, `rmexc`, the page | engine, worker, GUI thread |
| Command line tool (`main`) | `breaksAdded`, `breakHits`, the trace | its own event loop: record, resume, one-shot step-out | engine host; no session, no pipe |

What is hard in it: the engine reports one event per wait and every event is handled in
two halves with plugin callbacks in between; a command may come from a queue, from a
plugin on the same stack or from a job; the session mirrors the engine's state rather
than asking for it; breakpoint numbers and memory of one session outlive it; the trace
claims code as executed before it runs; a promise lives on a caller's stack; and one
global names the plugin two threads run. `PROJECT.json` lists these hazards line by
line.

What makes each part correct, and is therefore checked: the trace records every
instruction that ran, unless it gave up for a named cause, and claims nothing that does
not run; the mirror agrees with the engine wherever somebody can look; a pause takes
effect and an edit does not stop the target; every queued command is executed once, in
order, with its promise alive; a plugin's settings are its own; settings come back in
the next run; the user's breakpoints stay, are listed, and are never taken for the
internal ones; the panes show what memory holds, a search every match, the map every
region, and the history of the pane follows it; what the CPU window shows is one live
process, the one commands act on; what is removed from the ignored exceptions is what
was meant; and the command line tool records every call, and returns of these only.

## Plan

Order: `HitTrace`, `DbgSession`, `CommandChannel` with its abstract specification
`RequestReply`, `PluginScope`, `PersistedOptions`, `Breakpoints`, `ProcessTabs`,
`CliTrace`, `IgnoredExceptions`, `Views` and `Navigation`; each with an `MC` module, the
last two with one between them. `DbgSession` abstracts the trace to `tracing` and the
breakpoints to `entryArmed`; `HitTrace` and `Breakpoints` are the details of these, with
the session abstracted to whether there is a target and whether it runs. `Navigation`
extends `Views`: the GUI thread's history composed with the worker's panes. Proofs sit
in `HitTraceProofs`, `DbgSessionProofs`, `BreakpointsProofs`, `ProcessTabsProofs`,
`NavigationProofs`, `PersistedOptionsProofs`, `CommandChannelProofs` and
`CliTraceProofs`. `PersistedOptionsProofs` also has the proofs about the two small
modules next to the settings, `IgnoredExceptions` and `PluginScope`.

Next, to model: the control pipe's connections and framing (`PipeServer`), the
parsing of export tables (`ResolveExportByBase` is whether a name is an export), a
trace over several threads, breakpoints of the trace whose number `bc` names.

## Modules

### HitTrace

A debuggee of `N` instructions, one thread, and the breakpoint trace over it. An
instruction is the opcode form that `ClassifyFlow` tells apart (short and near jumps,
conditional and loop forms, the `FF` group, returns, traps), with or without prefixes
that have to be skipped first; `ClassifyFlow` maps it to a flow kind, and `Reach`, where
the processor itself can go from it, is stated apart, so that a wrong kind shows as lost
coverage. `Execute`, `TakeTrap` and `Fault` are the processor; `BreakpointHit` is
`HandleEvent`'s breakpoint case and `OnStop`; `WalkLinear`, `WalkBranch`, `WalkFails`,
`WalkEnds` are the ways through `WalkFrom`'s loop; `Go`, `StepInto`, `Pause`, `TraceOn`
(`StartHitTrace`, `Start`), `TraceOff`, `TraceClear`, `EndSession`, `SetUserBp` are the
verbs. The trace gives up coverage for nine reasons (`Causes`): each place where the
code does records its reason in `lost`, so `Coverage` says exactly when the report is
complete. `returns` holds the return sites of calls made under the trace, which
`WalkFrom` has armed as fall-through. `held` is what the engine has of the trace's
breakpoints at each address, counted by what sets and removes them, and `armed` what
`m_armed` says: two tables that only the code keeps in step. Breakpoint edits on a
running target fail, which is what `dbgsession.cpp:297` says of the engine, so `ht off`
and `htclear` then empty one table and not the other; `left` records that this has
happened. A debuggee of several threads, setting `rip` with `reg`, and `bc` of the
number of one of the trace's breakpoints are left out.

### DbgSession

Run control: every verb of the dispatcher that starts, stops or resumes the target, the
plugin jobs, and `HandleEvent` by event. The two halves of an event are
`HandleException`, `StopEvent`, ... and `Fired`, with `worker = "fire"` between them,
when plugins may issue any command inline. `bp`/`bc` on a running target is `EditBegin`,
the wait for one event, `EditEnd`. Plugins may run any verb from a callback, also one
that starts a session; `startedInside` records that one did. `stray` records that the
wait of an edit was over before its break-in came, or that several were on their way.

The engine as external contract: a status, processes, loader breaks still to come,
injected break-in threads that have not reported, an outstanding step.
`ROADMAP.md:43-47` reports a pause that does not take on some targets; that is below
this contract and not reproduced.

### Breakpoints

The breakpoints by engine number and the four things the host remembers about them:
`m_pending`, `m_entryBpId`, `m_stepOutBpId` and the list of the snapshot. The engine
picks any free number, drops all at the end of a session, and may or may not resolve an
expression itself. Of the symbols some are exports (`Exports`), which is all that
`ResolveExportByBase` is about: another name is queued by `SetDeferred` although its
module is loaded, and `ResolvePending` leaves its entry as it is. A module may be
unloaded, with what is in it (`UnloadModule`), and come back. `Fails` names the calls
that may fail after `AddBreakpoint` has succeeded: what is left in the engine is a
`Stray`, which nobody knows the number of. Hardware breakpoints (`he`, `hr`, `hw`,
cleared by `hd`) are set at addresses only and fail in one more way: `SetDataParameters`
comes after the offset, so that their stray is listed. The interruption around an edit,
which only `bp` and `bc` have, is in `DbgSession`.

### CommandChannel and RequestReply

`RequestReply` is what a caller is promised: a request is executed once and the caller
goes on after that, and the commands the GUI pushes, which are numbered, are executed in
the order of their numbers. `CommandChannel` has the queue, the job queue, the promise
of each blocking caller, the worker loop, plugins that call inline from a callback and
the state mutex. `Abstract == INSTANCE RequestReply WITH ...` is the refinement: a
caller's request stands where its promise does, and the commands not executed yet are
the numbers in the queue and in the frames of the worker's stack (`PendingPosts`).
`ExecutesInOrder` is its safety part and `ExecutesEverything` its fairness.

### PluginScope

`Scope` (set `g_currentPlugin`, call, restore) as a stack per thread over one global,
with settings written under the name it holds. `overlapped` records that two threads
have been in plugins at once.

### ProcessTabs

The processes of the engine, the tabs mirrored from them at stops and the CPU window.
`SyncProcesses` is `SyncProcesses_NoLock` with `Processes`, which makes a process
current to name it and goes back unless the id is 0, which is that of the engine's first
process and the code's word for none (`None`); `Stop`, `Exit`, `Ended`, `Kill`,
`Start`, `Resume` are what the worker does with them; `Execute` takes `proc` and
`closeproc` from the queue; `Frame` is one call of `DrawCpuWindow`, with the tab it
selects and the `proc` it sends; `Click` and `CloseTab` are the user. The mirror of the
list is all that is kept of a snapshot; of the panes only the process they were read
from (`shown`).

### CliTrace

The loop of `odbg_cli` from the event `PumpOneEvent` returns to the resume, over the
call stacks of several threads and a number of processes. A frame is the site it returns
to and whether its function is the one of `-break`; a site that calls through a pointer
may call either. `HandlePlain`, `HandleExit`, `HandleReturn` and `HandleBreakpoint` are
the branches of the loop; `StepOut` replaces the one-shot breakpoint or fails before or
after clearing the last one; `Unwind` is an exception or a `longjmp` that leaves frames
without a return; `WaitStopped` is the next wait when the target was left stopped. A
`-break` that cannot be set leaves `breaks` at `"failed"`. The ghosts `calls` and `open`
count what should have been recorded, `outThread` and `outDepth` name the frame the
one-shot breakpoint was set for. The text of an event is left out.

### IgnoredExceptions

The list of ranges, the codes seen, the queue with the verbs that edit the list, the
engine's `Exception` callback, how the target goes on from it (`Go`, `GoPassException`)
and the page, drawn from the snapshot its frame took (`DrawPage`), which may be behind
the list. A command that removes a row carries the range its sender meant and whether a
removal came between page and command (`RemovalBetween`). No row is there twice, because
`AddIgnoredExceptionRange` looks for the range first; so the `erase(remove_if)` of
`catchexc` takes out one row at most. The definitions that would have a name of
`PersistedOptions` have one of their own (`ListNext`, `ExecuteEdit`, `waiting`), since
the proof module extends both.

### PersistedOptions

One run of `odbg` after another: `Start` loads the file, constructs the session and
queues the saved options as commands; `WorkerUp` and `WorkerFails` are the beginning of
`WorkerMain`; `SetOption`, `TypeCommand`, `OpenDialog`, `ToggleRemember` are the user,
`PluginStores` a plugin, `Execute` the worker; `Exit` is the end of `main`, `Crash` a
kill. Four kinds of settings take four ways: options through the queue into the host,
into the snapshot and at exit into the store; the symbol path from the command straight
into the store; the target through the snapshot or the Open dialog; a plugin's value,
also in its closing call, into the store. `Saved` is what `Save` and `Load` make of a
store: of a value of several lines the first comes back. `wanted` is what the next run
should find, and `lost` the options it will not find as they were left: those whose
commands had not run (`Unreached`), and seeded codes taken off the list. Window
rectangle, theme and scroll settings take the way of `remember` and are left out.

### Views and Navigation

`Views` is what a stopped target shows, by the worker: the disassembly and the dump pane
with the addresses they stand at, `RefreshAfterStop`, the commands that move or rewrite
(`u`, `d`, `goto`, `orig`, `poke`, `reg`), the search with the match it remembers, and
`MemoryRegions`, the walk over the address space as a recursive function of the number
of calls of `QueryVirtual` (`Advance` is one turn of its loop). Of an address space it
is assumed that the engine describes it as regions without holes or overlaps from 0 on
(`Tiled`); it may end before `kUserMax` or reach beyond. Memory is a few bytes, each of
which is 0 or 1. `ResolveAddr` keeps what `resolveAddr` does to an address whose
hexadecimal starts with a letter. `poked` remembers the bytes written since a pane was
read, `from` and `shown` what a search and its repetitions have shown.

`Navigation` adds the GUI thread: `Frame` is what each frame does to the history when
the address of the pane has changed (`Track`), `KeyFrame` a frame with back or forward,
which moves `g_navPos` at once and queues the jump, `FormatButton` the buttons of the
dump, `ExecuteJump` the worker that takes one, `Other` any step of `Views`. `slipped`
records that a key or another move came before a jump arrived; what holds of the history
then is only that its position is one of its entries.

## Runs

| Run | Instance | Shows | States |
|---|---|---|---|
| `trace_all` | every program of 3 instructions, every opcode form, without loss; 3 programs (straight run, trap in a loop, indirect call) with all causes of loss, a user breakpoint and the sweep cut at 2 | coverage complete up to the first named cause, the frontier armed, the sweep sound, table and engine agree but for what `ht off` on a running target leaves | 3.6 M |
| `session_all` | all verbs from users, all but `bp` from plugins, 2 processes, 3 break-ins | mirror faithful, no trace without target, an edit leaves the target running and its break-in surfaces late for two causes only, symbols after the first pause, no deadlock | 329 k |
| `session_pause` | 1 process, no edits, fairness | a pause takes effect, only the loader break is suppressed | 1.5 k |
| `channel_all` | a pipe and a plugin caller, 2 calls, 3 posts, callbacks 3 deep | promises alive, no callback under the mutex, in order, everything executed while the worker lives | 55 k |
| `options_all` | 2 options, one of them seeded, 2 targets, values of two lines, 2 waiting commands, the engine may fail to start, kills, exits at any moment | every setting comes back, but for what is named | 2.0 M |
| `bps_all` | 2 sessions, a symbol that is an export and one that is not, a module that comes back, 1 address, 3 numbers, hardware breakpoints, breakpoints and deferred ones that cannot be set | internal breakpoints tracked, the user's kept and listed, deferred ones armed but for three causes | 1.9 M |
| `tabs_all` | 3 processes from 0 on, 2 waiting commands, fairness | mirror and engine name one process and the panes are of it, or of process 0; live tabs are the live processes; a selected tab that asks is served | 376 k |
| `cli_all` | 2 threads of 3 frames, 3 sites of which one calls either function, budgets 0, 1 and 3, children, attached anywhere | every call recorded once, returns belong to recorded calls but for three causes, no child abandoned | 5.0 M |
| `exc_all` | 2 codes (3 ranges), 2 waiting commands, a page that is behind | a click removes the range it was made at, unless a removal came between | 730 k |
| `views_all` | 6 bytes, a window of 3, patterns that overlap themselves, address spaces of up to 6 regions, 2 waiting jumps, five users | panes show memory, search complete, map complete, history follows the pane, jumps arrive and are not recorded | 478 k |
| `scope_gui` | worker and GUI thread | **violated**: a setting is stored under the other plugin | |
| `bps_stale` | kill before the entry point, a second session | **violated**: a user breakpoint with a stale number is cleared | |

Where the code loses something, the property of the run says what and when: a cause is
a ghost variable that the action records (`lost`, `left`, `stray`, `startedInside`,
`lostAt`, `outThread`, `overlapped`), and the property says that there is no other. The
statement without the causes is in the table below, violated. What two runs still assume
of their users is in the same table: `bps_all` is about sessions entered with nothing
remembered (`clean`), clears no row that is not refreshed, and has no hardware
breakpoint whose parameters are refused; `session_pause` does not ignore 0x80000003. The
users of `views_all` each keep to some commands (`Everyone` in `MCNavigation`): one
follows addresses and uses the keys, one points the dump, one searches, writes and
switches process, one maps, one edits registers. Together they take every action; all in
one would be out of reach. The two violations are findings, quoted in `PROJECT.json`.

Further configurations exhibit statements of comments or documents that the code does
not keep. Those named `refuted` list several, each of which is violated; TLC shows the
first it meets, and commenting the others out shows one of choice.

| Configuration | Property |
|---|---|
| `MCHitTrace_refuted` | `CoverageAfterRestart`: `ht off`, `ht on` loses the frontier |
| | `SweepSoundUnderFaults`: a fault in a run leaves its rest marked |
| | `UserStopSurfaces`: a user breakpoint at an armed address is resumed |
| | `ScaffoldingIsOwned`: `ht off` while running leaves INT3s that `m_armed` does not know |
| | `ScaffoldingNeverSurfaces`: they stop the target |
| `MCDbgSession_refuted` | `EditInBreakState`: after a timeout the edit runs on a running target |
| | `EditResumesOnlyItself`: `bp` on a running target resumes a stop of the target's own ("interrupt it, make the edit, then resume", `dbgsession.cpp:298`) |
| | `NoUnaskedBreakIn`: an edit's break-in surfaces later |
| | `SurvivorsKept`: `childdbg` off ends followed children at the next exit |
| | `EntryRunOnlyFromLoader` with 0x80000003 ignored |
| `MCDbgSession_restarted` | `SymbolsOnlyAfterPause`: in a session that a plugin started from a callback symbols count as loaded before its first pause |
| `MCBreakpoints_refuted` | `RowsShowUsers`: a hardware breakpoint that was refused is listed |
| | `EveryNameArmed`: a deferred breakpoint that cannot be set counts as armed, a name that is no export and a module that comes back have none |
| | `ArmsOnlyWanted`: `bc` leaves the pending entry |
| | `StepOutIsOneShot`: it is not cleared when hit |
| `MCNavigation_refuted` | `PanesShowWrites`: `poke` reads no pane again |
| | `RegsMirrored`: `reg` leaves the mirrored registers |
| | `JumpsNotRecorded`: a second key before the first jump has arrived loses what is ahead |
| | `FormatKeepsAddress`: the format buttons at an address that starts with a letter |
| `MCPersistedOptions_refuted` | `SavedNotForgotten`: leaving before the worker has re-applied the saved options writes defaults over them |
| | `TargetSurvives`: the toggle switched on in the same run is not saved with the target ("so it survives odbg being killed", `gui_main.cpp:849`) |
| | `RemovedStaysRemoved`: a seeded exception taken off the list is on it again in the next run |
| | `ValuesComeBack`: of a plugin's value of two lines the second does not |
| `MCIgnoredExceptions_refuted` | `TakesTheRowClicked`: two quick clicks on Remove take away a row that was not meant |
| | `CatchTakesEffect`: `catchexc` of a code inside a range changes nothing, but answers "no longer ignoring" |
| | `PassPasses`: `ge` resumes with `DEBUG_STATUS_GO_HANDLED`, which keeps the exception from the handler it promises to pass it to (`cmddispatch.cpp:251`) |
| `MCProcessTabs_stuck` | `TabFollowed`: a `proc` refused, or answered between two frames, is not asked again ("the registers/stack/dump follow the tab", `gui_main.cpp:1580`) |
| `MCProcessTabs_zero` | `PanesAreCurrent`: `Processes` does not go back to the process of engine id 0 (`dbghost.cpp:352`), whose panes stay on |
| | `FirstTabServed`: the tab of process 0 asks for nothing, since 0 is also "nothing requested" (`gui_main.cpp:1583`) |
| `MCCliTrace_refuted` | `ReturnOfTheFunction`: `StepOut` sets its breakpoint for any thread and callee ("a one-shot breakpoint at the current function's return address", `dbghost.h:297`) |
| | `WaitsOnlyRunning`: after `StepOut` succeeds the tool waits without `Go` ("Caller should Go()", `dbghost.h:298`) |
| `MCCommandChannel_noengine` | `EveryCallReturns`: without an engine callers wait for ever |

`MCPluginScope_overlap` checks `OnlyOverlapMisnames` where both threads call plugins,
nested calls included, and finds no error: what `scope_gui` shows takes two threads in
plugins at once.

### Bounds

Three instructions hold every pair of neighbouring flow kinds, a back edge into the
middle of a block and a trap between two others, and TLC takes every such program
without loss; a longer program adds no new relation between a branch, what it arms and
what the sweep claims, and the proof of coverage is for every `N`. The forms that share
a kind are not put in every place of every program: `OtherForms` has each of them in
front of a run and a jump, where it is taken and not taken. Every cause of loss occurs
in one of the three chosen programs, which are few because a cause may strike at every
step. Two processes are the least with one that survives an exit; three break-ins leave
one of each process and one of an edit under way. Two calls are the least that can be
reordered, and three posts the least with one executing, one waiting and one that comes;
two levels of callbacks are the least where an inline command runs inside an inline
command. Three numbers hold the entry breakpoint, a step-out and one of the user's at
once, and two sessions are the least in which a number is stale. Three processes are the
least with one that shows, one that exits and one that starts in one run of the target,
and their numbers begin at 0, as the engine's do. Three frames of two threads hold a
traced function in itself, below and above another, and a thread that returns where
another is expected to. Two waiting commands are the least with a removal behind which
another is clicked. Two codes
make three ranges, one of which covers both others. Six bytes hold a pattern that
overlaps itself and a window that ends at the last of them. `MaxSessions`, `MaxProcs`,
`MaxBreakins`, `MaxCalls`, `MaxPosts`, `MaxQueue`, `MaxDepth`, `MaxCommands`, `MaxJumps`
and the length of a user's history are guards; none of the safety proofs uses more of
them than that they are numbers.

### Fairness

`DbgSession`: weak fairness of `LoaderEvent` and `BreakInEvent` (the system runs the
loader and the injected thread, and the engine reports what they raise in every wait)
and of `Fired` (callbacks return). `PauseTakesEffect` is stated for one process: with
two, the break-in may be due in the process that exits. `CommandChannel`: weak fairness
of the worker (its loop never blocks for more than a wait with a timeout) and of callers
taking their result, strong fairness of each plugin's return. `ProcessTabs`: weak
fairness of `Frame` (the GUI draws all the time) and of `Execute` (the worker drains its
queue), and none of the user or the debuggee. `Navigation`: weak fairness of
`ExecuteJump` alone, for the same reason; `JumpsArrive` needs no frame to be drawn.

## Proofs

All are safety properties, by an inductive invariant and PTL. Besides what each module
assumes of its constants (the named `ASSUME`s, which TLC evaluates), the theorems assume
only what is said here.

`HitTraceProofs` (assuming `ProgramAssumption`): `IInv` is the type invariant,
`ArmedInEngine` (every address in `m_armed` has its INT3, and no address another of the
trace's, unless some were left in a running target, which is what `left` says), "a walk
is under way only while the trace is on", "no debuggee, no trace", `Coverage` and
`Tracking`. `Tracking` is what makes `Coverage` inductive: unless something was lost,
the successors of everything executed are executed, armed, or where the walk is now; the
instruction about to run is executed or behind an INT3; and return sites are known.
Theorems: `TypeCorrect`, `CoverageComplete`, `FrontierAlwaysClosed`,
`ArmedAlwaysInEngine`, `SweepAlwaysSound`. The last rests on an invariant of its own,
`SInv`: whatever is marked before it has run lies in the straight run ahead of the
program counter (`SweepAhead`), and so does the instruction a walk has come to, so that
the walk marks only what will run; a step moves the program counter along that run or
ends it. The run ahead is the set of instructions with nothing but sequential ones
between the program counter and them (`Straight`, `RunAhead`). `ClassifyFlowSound` is
the lemma that ties the two halves of the model together: where the processor can go
from an instruction is where the walk arms something, or its kind is one of those whose
target the encoding does not settle.

`DbgSessionProofs` (`SessionAssumption`): `MirrorFaithful` is inductive with types and
`TraceEndsWithSession`; that the target runs when an edit returns follows from it, since
the resume goes by `stopped`. That a break-in nobody asked for stops the target only
where `stray` is set (`EditsAlwaysSeamless`) rests on `StrayInv`: a break-in on its way
that is no stray is the only one, and a pause or the wait of an edit expects it.
`SymbolsLoadedAfterPause` is for any plugins, those that start sessions from a callback
included: by `SymbolsInv` a plugin is called back only in a session that has paused or
was itself started from a callback, which are the cases the statement names.
`EntryRunAtLoader` (`EntryInv`) holds where nobody ignores 0x80000003.

`BreakpointsProofs` (`BreakpointsAssumption`): `IInv` adds to the types that the list is
fresh at every stop (`Listed`) and, for a session entered with nothing remembered, that
the remembered numbers name exactly the internal breakpoints (`Tracked`), the others are
those the user was told of (`ToldOwned`), every place the user wants has one, or is
queued for a load that will find it or for the engine, or is lost for a named cause
(`Waiting`), what counts as armed is an export that is loaded or was lost (`Unarmed`),
no entry breakpoint exists before the loader break (`Unentered`) and what a failed call
left behind has no offset (`Unlisted`); without a target the engine has none (`Gone`).
`InternalAlwaysTracked`, `UserBpsAlwaysKept`, `RowsAlwaysShowUsers` and
`DeferredAlwaysArmed` assume that no stale row is cleared (`UserClears`): the list is
not refreshed while the target runs, and `bc` of such a row can take the entry
breakpoint. `RowsAlwaysShowUsers` also assumes that the parameters of a hardware
breakpoint are not refused (`"data"` is not in `Fails`). `DeferredAlwaysArmed` is for
every failure and for modules that go and come back; its three causes, a failed set at
the load, a reload after the entry was spent and a name that is no export, are in the
statement.

`ProcessTabsProofs` (`IdsAssumption`): `TypeOK` is inductive, and `TabsMatchLive` and
`ShownIsCurrent` are relative to it, for a stop establishes both and no step while the
target is stopped touches one side alone. `TypeCorrect`, `TabsAlwaysMatch`, and
`ShownAlwaysCurrent`, for any ids, 0 among them: the window always names the process the
engine is in, and the panes are of that process or of process 0. That they can be of
process 0 while the engine is elsewhere is what `MCProcessTabs_zero` shows.

`NavigationProofs` (`ViewsAssumption`, `NavigationAssumption`): `ViewsInv` adds to
`PanesShowMemory` and `SearchShowsAll` that a search has shown a match at or after where
it began; `NavInv` adds to `HistoryFollows` the clause `JumpAwaited`: while nothing has
slipped, one jump waits at most, for an address the worker understands, and the pane
stands still until then. Theorems: `TypeCorrect`, `PanesAreRead`, `SearchIsComplete`,
`HistoryIsKept`, `NoJumpRecorded`, `MapAlwaysListsAll`. For the last, the recursive walk
is shown to exist (`WalkExists`) and, of the least turn where it would differ, not to:
after `n` turns it has visited exactly the `n` first regions (`WalkVisits`), and it ends
because the bases of tiled regions only grow. The search rests on `Least`, the smallest
of a set of numbers, whose existence is the well-foundedness of the naturals.

`PersistedOptionsProofs` (`OptionsAssumption`): `SettingsAlwaysComeBack`, whenever the
user leaves, whatever is turned off and however many lines a value has; what does not
come back is named in the statement. The invariant says what a queue means: what the
user wants of an option is what its last command in the queue says, and without one,
what the host has; and between runs, that the file has what is wanted but for `lost`,
the options whose last command the worker never came to and the seeded codes taken off.

In the same module, `ExceptionListTypes` and `RemovalTakesWhatWasMeant`
(`CodesAssumption`), for any user, however quick: a removal takes away the range it was
meant for unless another removal ran between the drawing of the page and the click or
was waiting at the click. What it needs is `RemovalsAreCurrent`: the row number
in a removal that waits and is not late still names its range, because what is ahead of
it only appends rows. And `SettingsApartButForOverlap`, for any number of threads and
inline commands to any depth: until two threads are in plugins at the same time, a
plugin's values are stored under its own name and no name stays parked. `Nested` is the
reason, the name to go back to is that of the call one below, and `Others`, one thread
at most is in plugins; after an overlap neither need hold (`scope_gui`).

`CommandChannelProofs` (`ChannelAssumption`): `TypeCorrect`, `PromisesAlwaysAlive`,
`CallbacksAlwaysUnlocked`, and `ChannelExecutesInOrder`, the safety part of the
refinement. The invariant has a caller's request in one place only, queue, jobs or stack
(`Once`), its caller waiting for that very request (`Promises`), the GUI's commands in
queue and stack in the order of their numbers (`Ordered`), and the mutex held across a
step by nothing that has a callback above it (`Locking`). `Once` is what makes
`Promises` inductive: an answer wakes the caller whose request it was and takes the
ground from no other. `Ordered` makes the command that ends the oldest, which is what a
step of `RequestReply` asks.

`CliTraceProofs` (`CliAssumption`): `TypeCorrect`, `CallsAlwaysRecorded`,
`ReturnsAlwaysMatch`, `NoChildEverAbandoned`, for any threads, stacks and sites, the
ones that call several functions included. `Frontier` is the strengthening: while the
frame the one-shot breakpoint was set for is on the stack of its thread, and its site
calls only the traced function (`Watched`), every frame from it to the top that returns
there is recorded, apart from a call being handled; the first return there by that
thread is therefore of a recorded call. The other returns are the three causes that
`ReturnMatchesCall` names: another thread, a site with other callees, an unwound frame.

Only model-checked are the liveness properties `PauseTakesEffect`, `ExecutesEverything`,
`SelectionServed` and `JumpsArrive`, which rest on fairness and so on what steps are
enabled: the temporal prover knows no `ENABLED`. Absence of deadlock, too, is left to
TLC, in the configurations that do not switch it off. Statements the tables above call
violated are of course not proved; the theorems name, in the statement, the cause that
breaks the stronger one, or the assumption under which they hold.

## Not modelled

The control pipe's connections and its framing of messages; the pipe thread is only one
of the blocking callers of `CommandChannel`. The loading of plugin DLLs is the operating
system's. The stack pane, disassembly and symbol lookup and the drawing code compute
answers from the engine and keep no state that another part reads; verbs that only print
change nothing. The build, site and third-party headers have no behaviour.
