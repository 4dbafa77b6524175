----------------------------- MODULE ProcessTabs -----------------------------
(***************************************************************************)
(* The debugged processes and the tabs of the CPU window that show them.   *)
(* DbgSession mirrors the engine's process list into m_state.processes at  *)
(* every stop and executes proc and closeproc; the GUI draws a tab for     *)
(* each, lets a new process pull the selection once, and asks with proc    *)
(* for the process whose tab is selected.                                  *)
(*                                                                         *)
(* A frame of the GUI is one step: it draws from a snapshot and pushes at  *)
(* most one command, so a worker step between the two is the same as one   *)
(* after both.  The verbs that resume or end the target are steps of the   *)
(* worker, whoever asked for them: the GUI, the pipe or a plugin, which    *)
(* need not wait for the queue.  Children are followed.                    *)
(***************************************************************************)
EXTENDS Naturals, Sequences

CONSTANTS Ids,       \* the engine ids of processes, which DbgEng counts from 0
          MaxQueue   \* bound on the commands that wait; one place is kept for
                     \* what the GUI asks by itself

ASSUME IdsAssumption == Ids \subseteq Nat /\ MaxQueue \in Nat

\* What cur, currentProcEngineId and g_procRequested hold for no process, and for
\* the engine's first one.
None == 0

VARIABLES
    live,        \* processes the engine debugs
    used,        \* ids of this session; the engine gives none of them again
    current,     \* the engine's current process
    procNames,   \* m_procNames: whom DbgHost has named in this session
    active, stopped,
    tabs,        \* m_state.processes
    currentProc, \* m_state.currentProcEngineId
    shown,       \* the process m_state.regs, disasmLines and stack came from
    focus,       \* m_state.focusProcEngineId
    fresh,       \* m_state.procSerial # g_seenProcSerial
    queue,       \* proc and closeproc commands that wait
    selected,    \* the tab ImGui has selected
    requested    \* g_procRequested

engine   == <<live, used, current, procNames>>
session  == <<active, stopped>>
mirror   == <<tabs, currentProc, shown, focus, fresh>>
gui      == <<selected, requested>>
vars     == <<engine, session, mirror, queue, gui>>

Command  == [verb : {"proc", "closeproc"}, id : Ids \cup {None}]
AliveTabs == {p \in Ids : tabs[p] = "alive"}

Init ==
    /\ live = {} /\ used = {} /\ current = None /\ procNames = {}
    /\ active = FALSE /\ stopped = FALSE
    /\ tabs = [p \in Ids |-> "none"] /\ currentProc = None
    /\ shown = None /\ focus = None /\ fresh = FALSE
    /\ queue = <<>>
    /\ selected \in Ids /\ requested = None

-----------------------------------------------------------------------------
(* What the worker does at a stop in process p *)

\* Variant: the list is walked without going back.
CurrentNotRestored(cur) ==
    IF live \subseteq procNames THEN {cur} ELSE live \ procNames

\* DbgHost::Processes names whom it has not named, which makes each of them
\* current for a moment, and goes back to cur unless that is 0: from its first
\* process the engine is left at another.
CurrentAfterNaming(cur) ==
    IF cur # None \/ live \subseteq procNames THEN {cur}
    ELSE live \ procNames

\* The tab list after SyncProcesses_NoLock.
TabsOfLive ==
    [p \in Ids |-> IF p \in live THEN "alive"
                   ELSE IF tabs[p] = "none" THEN "none" ELSE "dead"]

SyncProcesses(cur) ==
    /\ current' \in CurrentAfterNaming(cur)
    /\ procNames' = procNames \cup live
    /\ tabs' = TabsOfLive
    /\ LET new == {p \in live : tabs[p] = "none"}
       IN  IF new = {} THEN UNCHANGED <<focus, fresh>>
           ELSE focus' \in new /\ fresh' = TRUE
    /\ currentProc' = current'

\* An event of p stops the target: RefreshAfterStop_NoLock reads p's
\* registers, then SyncOptions_NoLock the process list.
Stop(p) ==
    /\ active /\ ~stopped /\ p \in live
    /\ stopped' = TRUE
    /\ shown' = p
    /\ SyncProcesses(p)
    /\ UNCHANGED <<live, used, active, queue, gui>>

\* The debuggee starts a child, which the engine picks up.
Spawn(p) ==
    /\ active /\ ~stopped /\ live # {}
    /\ p \in Ids \ used
    /\ live' = live \cup {p} /\ used' = used \cup {p}
    /\ UNCHANGED <<current, procNames, session, mirror, queue, gui>>

\* What is left of the tabs when a session ends.
TabsDead == [p \in Ids |-> IF tabs[p] = "none" THEN "none" ELSE "dead"]

\* Variant: m_state.stopped is left alone.
EndedKeepsStopped ==
    /\ live' = {} /\ current' = None
    /\ active' = FALSE /\ UNCHANGED stopped
    /\ tabs' = TabsDead
    /\ currentProc' = None

\* The session is over.
Ended ==
    /\ live' = {} /\ current' = None
    /\ active' = FALSE /\ stopped' = FALSE
    /\ tabs' = TabsDead
    /\ currentProc' = None

\* Variant: the tab keeps its live marker until the next stop.
ExitKeepsTab(p) ==
    /\ active /\ ~stopped /\ p \in live
    /\ IF live = {p} THEN Ended
       ELSE /\ live' = live \ {p} /\ current' = p
            /\ UNCHANGED <<session, tabs, currentProc>>
    /\ UNCHANGED <<used, procNames, shown, focus, fresh, queue, gui>>

\* Process p exits: its tab dies at once; the session goes on while others
\* are left.
Exit(p) ==
    /\ active /\ ~stopped /\ p \in live
    /\ IF live = {p} THEN Ended
       ELSE /\ live' = live \ {p} /\ current' = p
            /\ tabs' = [tabs EXCEPT ![p] = IF @ = "none" THEN "none" ELSE "dead"]
            /\ UNCHANGED <<session, currentProc>>
    /\ UNCHANGED <<used, procNames, shown, focus, fresh, queue, gui>>

\* g, si and the like, from anyone.
Resume ==
    /\ active /\ stopped
    /\ stopped' = FALSE
    /\ UNCHANGED <<engine, active, mirror, queue, gui>>

\* launch, attach; restart, with or without a session.
Start(p) ==
    /\ live' = {p} /\ used' = {p} /\ current' = p /\ procNames' = {}
    /\ active' = TRUE /\ stopped' = FALSE
    /\ tabs' = [q \in Ids |-> "none"] /\ currentProc' = None
    /\ UNCHANGED <<shown, focus, fresh, queue, gui>>

\* kill
Kill ==
    /\ active
    /\ Ended
    /\ UNCHANGED <<used, procNames, shown, focus, fresh, queue, gui>>

-----------------------------------------------------------------------------
(* The queue *)

\* Variant: the panes are left to the next stop.
SwitchKeepsPanes(p) ==
    /\ current' = p /\ currentProc' = p /\ UNCHANGED shown

\* The switch of proc: the panes are read again, from p.
Switch(p) == current' = p /\ currentProc' = p /\ shown' = p

\* proc, refused unless the target is stopped and p one of its processes;
\* closeproc, refused for a tab that is alive.
Execute ==
    /\ queue # <<>>
    /\ queue' = Tail(queue)
    /\ LET p == Head(queue).id
       IN  \/ /\ Head(queue).verb = "proc"
              /\ IF active /\ stopped /\ p \in live THEN Switch(p)
                 ELSE UNCHANGED <<current, currentProc, shown>>
              /\ UNCHANGED tabs
           \/ /\ Head(queue).verb = "closeproc"
              /\ tabs' = IF p \in Ids /\ tabs[p] = "dead"
                         THEN [tabs EXCEPT ![p] = "none"] ELSE tabs
              /\ UNCHANGED <<current, currentProc, shown>>
    /\ UNCHANGED <<live, used, procNames, session, focus, fresh, gui>>

\* Either verb from the command bar or the pipe; without a number it means 0.
Type(c) ==
    /\ Len(queue) < MaxQueue - 1
    /\ queue' = Append(queue, c)
    /\ UNCHANGED <<engine, session, mirror, gui>>

-----------------------------------------------------------------------------
(* DrawCpuWindow *)

\* The selected tab wants to be current.
NeedSwitch ==
    tabs[selected] = "alive" /\ stopped /\ selected # currentProc

\* Variant: no request while another one is not yet reflected.
AskOneInFlight == NeedSwitch /\ requested = None

\* One proc per selection.
Ask == NeedSwitch /\ requested # selected

Frame ==
    /\ \E p \in Ids : tabs[p] # "none"
    /\ IF Ask
       THEN /\ Len(queue) < MaxQueue
            /\ queue' = Append(queue, [verb |-> "proc", id |-> selected])
            /\ requested' = selected
       ELSE /\ requested' = IF tabs[selected] # "none" /\ selected = currentProc
                            THEN None ELSE requested
            /\ UNCHANGED queue
    /\ fresh' = FALSE
    /\ IF fresh /\ focus # None /\ tabs[focus] # "none" THEN selected' = focus
       ELSE IF tabs[selected] # "none" THEN UNCHANGED selected
       ELSE selected' \in {p \in Ids : tabs[p] # "none"}
    /\ UNCHANGED <<engine, session, tabs, currentProc, shown, focus>>

\* The user selects a tab, or closes one that is dead.
Click(p) ==
    /\ tabs[p] # "none"
    /\ selected' = p
    /\ UNCHANGED <<engine, session, mirror, queue, requested>>

CloseTab(p) ==
    /\ tabs[p] = "dead" /\ Len(queue) < MaxQueue - 1
    /\ queue' = Append(queue, [verb |-> "closeproc", id |-> p])
    /\ UNCHANGED <<engine, session, mirror, gui>>

-----------------------------------------------------------------------------
Next ==
    \/ \E p \in Ids : \/ Stop(p) \/ Spawn(p) \/ Exit(p) \/ Start(p)
                      \/ Click(p) \/ CloseTab(p)
    \/ Resume \/ Kill \/ Execute \/ Frame
    \/ \E c \in Command : Type(c)

\* The GUI draws frames and the worker drains its queue.
Fairness == WF_vars(Frame) /\ WF_vars(Execute)

Spec == Init /\ [][Next]_vars /\ Fairness

-----------------------------------------------------------------------------
TypeOK ==
    /\ live \subseteq used /\ used \subseteq Ids /\ procNames \subseteq Ids
    /\ current \in Ids \cup {None} /\ currentProc \in Ids \cup {None}
    /\ shown \in Ids \cup {None} /\ focus \in Ids \cup {None}
    /\ active \in BOOLEAN /\ stopped \in BOOLEAN /\ fresh \in BOOLEAN
    /\ tabs \in [Ids -> {"none", "alive", "dead"}]
    /\ queue \in Seq(Command) /\ Len(queue) <= MaxQueue
    /\ selected \in Ids /\ requested \in Ids \cup {None}
    /\ stopped => active

\* dbgsession.h, on currentProcEngineId: "which one the register/disasm/stack
\* data above belongs to", which is also the process a command would act on.  At
\* a stop the GUI knows the engine's current process, and the panes are of that
\* process or of the first one, from which naming another moved the engine away.
ShownIsCurrent ==
    stopped => currentProc = current /\ (shown = current \/ shown = None)

\* The glyph of a tab is right: no tab is marked alive whose process is gone,
\* and at a stop every process has its tab.
TabsMatchLive ==
    /\ AliveTabs \subseteq live
    /\ stopped => AliveTabs = live

\* A tab selected whose process g_procRequested does not name becomes the current
\* process, unless the target resumes or the selection moves first.  Of the first
\* process that says only what happens while another one is requested: with
\* nothing requested g_procRequested is 0 and reads as a request of its own.
SelectionServed ==
    \A p \in Ids :
        (stopped /\ tabs[p] = "alive" /\ selected = p /\ requested # p)
            ~> (currentProc = p \/ ~stopped \/ selected # p)

-----------------------------------------------------------------------------
(* Statements of the code's comments that it does not keep *)

\* currentProcEngineId is "which one the register/disasm/stack data above belongs
\* to": the first process too.
PanesAreCurrent == stopped => shown = currentProc

\* "Sent once per selection": for the first process too.
FirstTabServed ==
    (None \in Ids /\ stopped /\ tabs[None] = "alive" /\ selected = None)
        ~> (currentProc = None \/ ~stopped \/ selected # None)

\* gui_main.cpp: "Whichever tab is showing ... is the process the engine should
\* be pointed at, so the registers/stack/dump follow the tab."
TabFollowed ==
    \A p \in Ids :
        (stopped /\ tabs[p] = "alive" /\ selected = p)
            ~> (currentProc = p \/ ~stopped \/ selected # p)
=============================================================================
