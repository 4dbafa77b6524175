-------------------------- MODULE PersistedOptions --------------------------
(***************************************************************************)
(* What odbg remembers between runs (settings.cpp): main (gui_main.cpp)    *)
(* loads the file into g_settings and re-applies the saved debug options   *)
(* as commands, the worker executes them, SyncOptions mirrors the host's   *)
(* into the snapshot, and at exit main puts the snapshot's options and the *)
(* last target into g_settings, closes the plugins and saves.  The symbol  *)
(* path and the settings of plugins go straight into g_settings, from the  *)
(* worker; the Open dialog saves all there is the moment it launches.      *)
(*                                                                         *)
(* An option is on or off: childdbg, breakmod, breakthread, and every code *)
(* of the ignore list.  A plugin's value is the lines of its text.         *)
(***************************************************************************)
EXTENDS Naturals, Sequences, SequencesExt

CONSTANTS Options,     \* the options that are saved
          Seeded,      \* those a new DbgHost has on: code 406D1388 is ignored
          Entries,     \* entries of a symbol path
          DefaultPath, \* the path of an installation that has none saved
          Paths,       \* the paths that sympath and symadd are given
          Targets,     \* command lines that can be launched
          Lines,       \* the lines a plugin's value can have
          Values,      \* the values plugins store, sequences of lines
          MaxCommands  \* bound on the queue when the user adds to it

ASSUME OptionsAssumption ==
    /\ IsFiniteSet(Options) /\ Seeded \subseteq Options
    /\ Paths \cup {DefaultPath} \subseteq (SUBSET Entries) \ {{}}
    /\ "(none)" \notin Targets
    /\ "(none)" \in Lines /\ <<"(none)">> \in Values
    /\ Values \subseteq Seq(Lines) \ {<<>>}
    /\ MaxCommands \in Nat

VARIABLES
    file,    \* odbg_settings.ini
    store,   \* g_settings: m_kv
    run,     \* "off" "starting" (worker before its loop) "up" "failed" (no engine)
    host,    \* DbgHost: options on, symbol path
    mirror,  \* the snapshot: options on, last target launched
    queue,   \* commands in m_queue
    gui,     \* g_lastExe, g_rememberLastExe
    wanted,  \* ghost: what the next run should find
    lost     \* ghost: options that the end of the last run has given up

vars == <<file, store, run, host, mirror, queue, gui, wanted, lost>>

None == "(none)"

\* The keys of the store.
Settings == [options : SUBSET Options, path : SUBSET Entries,
             exe : Targets \cup {None}, remember : BOOLEAN,
             value : Seq(Lines) \ {<<>>}]

NoSettings ==
    [options |-> {}, path |-> {}, exe |-> None, remember |-> TRUE, value |-> <<None>>]

Commands == [verb : {"option"}, option : Options, on : BOOLEAN]
                \cup [verb : {"sympath", "symadd"}, path : Paths]
                \cup [verb : {"launch"}, target : Targets]

SetTo(option, on) == [verb |-> "option", option |-> option, on |-> on]

ApplyTo(options, cmd) == IF cmd.on THEN options \cup {cmd.option}
                                   ELSE options \ {cmd.option}

-----------------------------------------------------------------------------
NoHost   == [options |-> {}, path |-> {}]
NoMirror == [options |-> {}, target |-> None]
NoGui    == [exe |-> None, remember |-> TRUE]

\* A first installation: nothing is saved.
Init ==
    /\ file = NoSettings /\ store = NoSettings /\ run = "off"
    /\ host = NoHost /\ mirror = NoMirror /\ queue = <<>> /\ gui = NoGui
    /\ wanted = [NoSettings EXCEPT !.options = Seeded]
    /\ lost = {}

\* The memory of the process is gone.
Ends ==
    /\ run # "off" /\ run' = "off"
    /\ store' = NoSettings
    /\ host' = NoHost /\ mirror' = NoMirror /\ queue' = <<>> /\ gui' = NoGui

\* Save writes every key and its value on a line, and Load keeps the lines
\* that have a key: of a value of several lines the first comes back.
Saved(settings) == [settings EXCEPT !.value = <<Head(@)>>]

\* One command for every option that was saved, in some order.
Reapply(options) == SetToSeq({SetTo(o, TRUE) : o \in options})

\* main loads the settings, constructs the session and queues the options.
\* Of an option that was lost, the user wants from here on what this run has.
Start ==
    /\ run = "off" /\ run' = "starting"
    /\ store' = file
    /\ gui' = [exe |-> IF file.remember THEN file.exe ELSE None,
               remember |-> file.remember]
    /\ host' = [NoHost EXCEPT !.options = Seeded]
    /\ mirror' = NoMirror
    /\ queue' = Reapply(file.options)
    /\ wanted' = [wanted EXCEPT !.exe = gui'.exe,
                    !.options = (@ \ lost) \cup (lost \cap (file.options \cup Seeded))]
    /\ lost' = {}
    /\ UNCHANGED file

\* The engine is up: the symbol path is set, plugins are loaded, SyncOptions.
WorkerUp ==
    /\ run = "starting" /\ run' = "up"
    /\ host' = [host EXCEPT !.path = IF store.path = {} THEN DefaultPath ELSE store.path]
    /\ mirror' = [mirror EXCEPT !.options = host.options]
    /\ UNCHANGED <<file, store, queue, gui, wanted, lost>>

\* dbgeng.dll is missing.
WorkerFails ==
    /\ run = "starting" /\ run' = "failed"
    /\ UNCHANGED <<file, store, host, mirror, queue, gui, wanted, lost>>

Push(cmd) ==
    /\ run # "off" /\ Len(queue) < MaxCommands
    /\ queue' = Append(queue, cmd)

\* The user sets an option, from a menu, the command bar or the pipe.
SetOption ==
    /\ \E cmd \in [verb : {"option"}, option : Options, on : BOOLEAN] :
         /\ Push(cmd)
         /\ wanted' = [wanted EXCEPT !.options = ApplyTo(@, cmd)]
    /\ UNCHANGED <<file, store, run, host, mirror, gui, lost>>

\* sympath, symadd or launch, typed or from the pipe.
TypeCommand ==
    /\ \E cmd \in Commands : cmd.verb # "option" /\ Push(cmd)
    /\ UNCHANGED <<file, store, run, host, mirror, gui, wanted, lost>>

\* Launch in the Open dialog.
OpenDialog ==
    /\ \E t \in Targets :
         /\ Push([verb |-> "launch", target |-> t])
         /\ gui' = [gui EXCEPT !.exe = t]
         /\ store' = IF gui.remember THEN [store EXCEPT !.exe = t] ELSE store
         /\ wanted' = [wanted EXCEPT !.exe = IF mirror.target = None THEN t ELSE @]
    /\ file' = IF gui.remember THEN Saved(store') ELSE file
    /\ UNCHANGED <<run, host, mirror, lost>>

ToggleRemember ==
    /\ run # "off"
    /\ gui' = [gui EXCEPT !.remember = ~@]
    /\ UNCHANGED <<file, store, run, host, mirror, queue, wanted, lost>>

\* A plugin calls Odbg_Setsetting from one of its callbacks.
PluginStores ==
    /\ run = "up"
    /\ \E v \in Values : /\ store' = [store EXCEPT !.value = v]
                         /\ wanted' = [wanted EXCEPT !.value = v]
    /\ UNCHANGED <<file, run, host, mirror, queue, gui, lost>>

-----------------------------------------------------------------------------
(* HandleCommand, then SyncOptions *)

ApplyOption(cmd) ==
    /\ cmd.verb = "option"
    /\ host' = [host EXCEPT !.options = ApplyTo(@, cmd)]
    /\ mirror' = [mirror EXCEPT !.options = host'.options]
    /\ UNCHANGED <<store, wanted>>

\* The path goes to the engine and into the store.
ApplyPath(cmd) ==
    /\ cmd.verb \in {"sympath", "symadd"}
    /\ LET path == IF cmd.verb = "symadd" THEN host.path \cup cmd.path ELSE cmd.path
       IN  /\ host' = [host EXCEPT !.path = path]
           /\ store' = [store EXCEPT !.path = path]
           /\ wanted' = [wanted EXCEPT !.path = path]
    /\ UNCHANGED mirror

\* The session knows the target once it has launched; it may not.
ApplyLaunch(cmd) ==
    /\ cmd.verb = "launch"
    /\ \/ /\ mirror' = [mirror EXCEPT !.target = cmd.target]
          /\ wanted' = [wanted EXCEPT !.exe = cmd.target]
       \/ UNCHANGED <<mirror, wanted>>
    /\ UNCHANGED <<store, host>>

Execute ==
    /\ run = "up" /\ queue # <<>>
    /\ queue' = Tail(queue)
    /\ \/ ApplyOption(Head(queue))
       \/ ApplyPath(Head(queue))
       \/ ApplyLaunch(Head(queue))
    /\ UNCHANGED <<file, run, gui, lost>>

-----------------------------------------------------------------------------
\* What main puts into the store at exit: "whatever launched last wins".
Final ==
    [store EXCEPT !.options = mirror.options,
                  !.remember = gui.remember,
                  !.exe = IF ~gui.remember THEN None
                          ELSE IF mirror.target # None THEN mirror.target ELSE gui.exe]

\* Options whose last command the worker has not come to; with no engine, and
\* before it is up, the snapshot has none.
Unreached ==
    IF run = "up"
    THEN {o \in Options : \E i \in DOMAIN queue :
                             queue[i].verb = "option" /\ queue[i].option = o}
    ELSE Options

\* What the next run will not have as the user left it: an option that was not
\* reached and that no DbgHost has by itself, a seeded code that is off.
Leave(value) ==
    /\ wanted' = [wanted EXCEPT !.value = value, !.remember = gui.remember]
    /\ lost' = (Unreached \ Seeded) \cup (Seeded \ wanted.options)

\* The plugins are loaded by the worker once it is up.
ClosingValues == {store.value} \cup (IF run = "up" THEN Values ELSE {})

\* Variant: the file is written before the plugins are closed.
ExitSavesFirst ==
    /\ Ends
    /\ file' = Saved(Final)
    /\ \E v \in ClosingValues : Leave(v)

\* The end of main, at any moment the window is up: a plugin may store something
\* in its Odbg_Pluginclose.
Exit ==
    /\ Ends
    /\ \E v \in ClosingValues :
         /\ file' = Saved([Final EXCEPT !.value = v])
         /\ Leave(v)

\* odbg is killed: what was set since the last save is not saved.
Crash ==
    /\ Ends
    /\ wanted' = [file EXCEPT !.options = @ \cup Seeded] /\ lost' = {}
    /\ UNCHANGED file

Next ==
    \/ Start \/ WorkerUp \/ WorkerFails
    \/ SetOption \/ TypeCommand \/ OpenDialog \/ ToggleRemember \/ PluginStores
    \/ Execute \/ Exit \/ Crash

Spec == Init /\ [][Next]_vars

-----------------------------------------------------------------------------
\* What was set comes back, with exceptions that have a name.  Once the worker
\* has drained the commands, the options of whichever run saved them are on and
\* no other, and the symbol path is the last one given; a plugin reads the first
\* line of what was stored last.  Between runs the file has what the user, the
\* commands and the plugins left, the target that launched last among it, but for
\* the options whose commands were never run, the seeded codes that were taken
\* off, and the lines of a value behind the first.
SettingsComeBack ==
    /\ run = "up" /\ queue = <<>> =>
          /\ host.options = wanted.options
          /\ host.path = IF wanted.path = {} THEN DefaultPath ELSE wanted.path
    /\ run # "off" => Head(store.value) = Head(wanted.value)
    /\ run = "off" =>
          /\ (file.options \cup Seeded) \ lost = wanted.options \ lost
          /\ file.path = wanted.path /\ file.value = <<Head(wanted.value)>>
          /\ file.remember = wanted.remember
          /\ file.remember => file.exe = wanted.exe

-----------------------------------------------------------------------------
(* Statements of the program's own that it does not keep *)

\* settings.h: the store is for "everything odbg remembers between runs", the
\* debug options among it.  The end of a run forgets no saved option that the
\* user has not turned off.
SavedNotForgotten ==
    [][run # "off" /\ run' = "off"
         => file.options \cap wanted.options \subseteq file'.options]_vars

\* The same of a code the user took off the ignore list, the worker having done it.
RemovedStaysRemoved ==
    [][Exit /\ run = "up" /\ queue = <<>>
         => file'.options \cup Seeded = wanted.options]_vars

\* And of what plugins store, through Odbg_Setsetting, as it was stored.
ValuesComeBack == run = "off" => file.value = wanted.value

\* gui_main.cpp, Open dialog: "Remember the target now rather than at exit, so
\* it survives odbg being killed".  A run finds the target that was opened.
TargetSurvives ==
    [][OpenDialog /\ gui.remember => file'.remember /\ file'.exe = gui'.exe]_vars
=============================================================================
